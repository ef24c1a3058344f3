---------------------------- MODULE MemoryProofs ----------------------------
(***************************************************************************)
(* Proofs about Memory, for any keys, processes and handlers.  What the    *)
(* operations make of the data is settled by lemmas about one map; the     *)
(* invariant then says of each handler how the facts it has listed relate  *)
(* to those that are there by now.                                         *)
(***************************************************************************)
EXTENDS Memory, FiniteSetTheorems, TLAPS

Good(d) == d \in Data /\ Symmetric(d)

\* e comes of d by an operation that sets the keys of K, and perhaps deletes others.
Change(d, e, K) ==
    /\ Good(e)
    /\ K \subseteq Keys
    /\ \A k \in DOMAIN e : k \in K \/ (k \in DOMAIN d /\ e[k].kind = d[k].kind)

-----------------------------------------------------------------------------
(* The operations                                                          *)

\* What a map of facts is made of.
LEMMA DataElim ==
    ASSUME NEW d \in Data
    PROVE  /\ DOMAIN d \subseteq Keys
           /\ \A x \in DOMAIN d : d[x].kind \in Kinds /\ d[x].rel \subseteq Keys
           /\ \A x \in DOMAIN d : d[x] \in Fact
  BY DEF Data, Fact

\* A function from keys to facts is a map of facts.
LEMMA DataIntro ==
    ASSUME NEW D \in SUBSET Keys, NEW f \in [D -> Fact]
    PROVE  f \in Data
  BY DEF Data

\* The empty map is good.
LEMMA EmptyGood == Good(Empty) /\ DOMAIN Empty = {}
  <1>1. Empty \in [{} -> Fact] /\ DOMAIN Empty = {}
    BY DEF Empty
  <1>2. Empty \in Data
    BY <1>1, DataIntro
  <1> QED BY <1>1, <1>2 DEF Good, Symmetric

\* Set changes a good map to a good one.
LEMMA WithChanges ==
    ASSUME NEW d, Good(d), NEW k \in Keys, NEW kind \in Kinds
    PROVE  Change(d, With(d, k, kind), {k})
  <1> DEFINE e == With(d, k, kind)
             rel(x) == IF x \in DOMAIN d THEN d[x].rel ELSE {}
  <1>1. /\ DOMAIN d \subseteq Keys
        /\ \A x \in DOMAIN d : d[x].rel \subseteq Keys /\ d[x] \in Fact
    BY DataElim DEF Good
  <1>2. DOMAIN e = DOMAIN d \cup {k}
    BY DEF With
  <1>3. \A x \in DOMAIN e : x # k => x \in DOMAIN d /\ e[x] = d[x]
    BY DEF With
  <1>4. e[k] = [kind |-> kind, rel |-> rel(k)]
    BY DEF With
  <1>5. e = [x \in DOMAIN e |-> e[x]]
    BY DEF With
  <1>6. \A x \in DOMAIN e : e[x] \in Fact
    BY <1>1, <1>3, <1>4 DEF Fact
  <1>7. \A x \in DOMAIN e : e[x].rel = rel(x)
    BY <1>2, <1>3, <1>4
  <1> HIDE DEF e
  <1>8. e \in [DOMAIN e -> Fact] /\ DOMAIN e \in SUBSET Keys
    BY <1>1, <1>2, <1>5, <1>6
  <1>9. e \in Data
    BY <1>8, DataIntro
  <1>10. Symmetric(e)
    <2> SUFFICES ASSUME NEW x \in DOMAIN e, NEW r \in e[x].rel
                 PROVE  r \in DOMAIN e /\ x \in e[r].rel
      BY DEF Symmetric
    <2>1. x \in DOMAIN d /\ r \in d[x].rel
      BY <1>7
    <2>2. r \in DOMAIN d /\ x \in d[r].rel
      BY <2>1 DEF Good, Symmetric
    <2> QED BY <1>2, <1>7, <2>2
  <1>11. \A x \in DOMAIN e : x \in {k} \/ (x \in DOMAIN d /\ e[x].kind = d[x].kind)
    BY <1>3
  <1>12. Change(d, e, {k})
    BY <1>9, <1>10, <1>11 DEF Change, Good
  <1> QED BY <1>12 DEF e

\* Delete changes a good map to a good one, without the key.
LEMMA WithoutChanges ==
    ASSUME NEW d, Good(d), NEW k \in Keys
    PROVE  Change(d, Without(d, k), {}) /\ k \notin DOMAIN Without(d, k)
  <1> DEFINE e == Without(d, k)
  <1>1. /\ DOMAIN d \subseteq Keys
        /\ \A x \in DOMAIN d : d[x].kind \in Kinds /\ d[x].rel \subseteq Keys /\ d[x] \in Fact
    BY DataElim DEF Good
  <1>2. DOMAIN e = DOMAIN d \ {k}
    BY DEF Without
  <1>3. \A x \in DOMAIN e : e[x] = [kind |-> d[x].kind, rel |-> d[x].rel \ {k}]
    BY <1>1, <1>2 DEF Without, Fact
  <1>4. e = [x \in DOMAIN e |-> e[x]]
    BY DEF Without
  <1> HIDE DEF e
  <1>5. \A x \in DOMAIN e : e[x].kind = d[x].kind /\ e[x].rel = d[x].rel \ {k}
    BY <1>3
  <1>6. \A x \in DOMAIN e : e[x] \in Fact
    BY <1>1, <1>2, <1>3 DEF Fact
  <1>7. e \in [DOMAIN e -> Fact] /\ DOMAIN e \in SUBSET Keys
    BY <1>1, <1>2, <1>4, <1>6
  <1>8. e \in Data
    BY <1>7, DataIntro
  <1>9. Symmetric(e)
    <2> SUFFICES ASSUME NEW x \in DOMAIN e, NEW r \in e[x].rel
                 PROVE  r \in DOMAIN e /\ x \in e[r].rel
      BY DEF Symmetric
    <2>1. x \in DOMAIN d /\ x # k /\ r \in d[x].rel /\ r # k
      BY <1>2, <1>5
    <2>2. r \in DOMAIN d /\ x \in d[r].rel
      BY <2>1 DEF Good, Symmetric
    <2> QED BY <1>2, <1>5, <2>1, <2>2
  <1>10. Change(d, e, {}) /\ k \notin DOMAIN e
    BY <1>2, <1>5, <1>8, <1>9 DEF Change, Good
  <1> QED BY <1>10 DEF e

\* Relate changes a good map to a good one.
LEMMA LinkedChanges ==
    ASSUME NEW d, Good(d), NEW a \in DOMAIN d, NEW b \in DOMAIN d
    PROVE  Change(d, Linked(d, a, b), {})
  <1> DEFINE e == Linked(d, a, b)
  <1>1. /\ DOMAIN d \subseteq Keys
        /\ \A x \in DOMAIN d : d[x].kind \in Kinds /\ d[x].rel \subseteq Keys /\ d[x] \in Fact
    BY DataElim DEF Good
  <1>2. DOMAIN e = DOMAIN d
    BY DEF Linked
  <1>3. \A x \in DOMAIN e : e[x] = [kind |-> d[x].kind, rel |-> d[x].rel \cup Others(x, a, b)]
    BY DEF Linked
  <1>4. e = [x \in DOMAIN e |-> e[x]]
    BY DEF Linked
  <1> HIDE DEF e
  <1>5. \A x \in DOMAIN e : e[x].kind = d[x].kind /\ e[x].rel = d[x].rel \cup Others(x, a, b)
    BY <1>3
  <1>6. \A x \in DOMAIN e : e[x] \in Fact
    <2> TAKE x \in DOMAIN e
    <2>1. Others(x, a, b) \subseteq Keys
      BY <1>1 DEF Others
    <2> QED BY <1>1, <1>2, <1>3, <2>1 DEF Fact
  <1>7. e \in [DOMAIN e -> Fact] /\ DOMAIN e \in SUBSET Keys
    BY <1>1, <1>2, <1>4, <1>6
  <1>8. e \in Data
    BY <1>7, DataIntro
  <1>9. Symmetric(e)
    <2> SUFFICES ASSUME NEW x \in DOMAIN e, NEW r \in e[x].rel
                 PROVE  r \in DOMAIN e /\ x \in e[r].rel
      BY DEF Symmetric
    <2>1. CASE r \in d[x].rel
      BY <1>2, <1>5, <2>1 DEF Good, Symmetric
    <2>2. CASE r \in Others(x, a, b)
      <3>1. r \in {a, b} /\ {x, r} = {a, b}
        BY <2>2 DEF Others
      <3>2. x \in {a, b} /\ {r, x} = {a, b}
        BY <3>1
      <3>3. x \in Others(r, a, b)
        BY <3>2 DEF Others
      <3> QED BY <1>2, <1>5, <3>1, <3>3
    <2> QED BY <1>5, <2>1, <2>2
  <1>10. Change(d, e, {})
    BY <1>2, <1>5, <1>8, <1>9 DEF Change, Good
  <1> QED BY <1>10 DEF e

-----------------------------------------------------------------------------
(* The invariant                                                           *)

\* What h has listed is context facts still, or was set again since; and a sweep has listed
\* every context fact, or has seen it set.
Tracked(h) ==
    /\ \A k \in left[h] : k \in DOMAIN mem[ProcOf[h]] =>
           mem[ProcOf[h]][k].kind = "context" \/ k \in since[h]
    /\ pc[h] = "sweep" => Context(mem[ProcOf[h]]) \subseteq left[h] \cup since[h]

IInv == TypeOK /\ RelationsHold /\ \A h \in Handlers : Tracked(h)

\* What IInv says of the data.
LEMMA AllGood ==
    ASSUME IInv
    PROVE  Good(disk) /\ \A s \in Procs : Good(mem[s])
  BY DEF IInv, TypeOK, RelationsHold, Good

\* Sets of keys are finite.
LEMMA Small ==
    ASSUME NEW D \in SUBSET Keys, NEW E \in SUBSET D
    PROVE  /\ IsFiniteSet(D) /\ Cardinality(D) \in Nat
           /\ Cardinality(E) \in Nat /\ Cardinality(E) <= Cardinality(D)
  <1>1. IsFiniteSet(D)
    BY MemoryAssumption, FS_Subset
  <1>2. IsFiniteSet(E) /\ Cardinality(E) <= Cardinality(D)
    BY <1>1, FS_Subset
  <1> QED BY <1>1, <1>2, FS_CardinalityType

\* A step that changes the facts of s, sets the keys of K there, and removes from what
\* handlers have listed only what is gone.
Keeps(s, d, K) ==
    /\ Change(mem[s], d, K)
    /\ mem' = [mem EXCEPT ![s] = d]
    /\ disk' \in {d, disk}
    /\ open' = open /\ pc' = pc
    /\ results' \in [Handlers -> 0 .. MaxResults]
    /\ left' \in [Handlers -> SUBSET Keys]
    /\ since' \in [Handlers -> SUBSET Keys]
    /\ \A h \in Handlers :
         /\ left'[h] \subseteq left[h]
         /\ \A k \in left[h] \ left'[h] : k \notin DOMAIN mem'[ProcOf[h]]
         /\ since[h] \subseteq since'[h]
         /\ pc[h] \in {"idle", "extract"} => since'[h] = {}
         /\ pc[h] \in {"sweep", "prune"} /\ ProcOf[h] = s => K \subseteq since'[h]

\* Such a step keeps the invariant.
LEMMA KeepsIInv ==
    ASSUME IInv, NEW s \in Procs, NEW d, NEW K, Keeps(s, d, K)
    PROVE  IInv'
  <1>1. Good(d) /\ Good(disk) /\ \A p \in Procs : Good(mem[p])
    BY AllGood DEF Keeps, Change
  <1>2. /\ mem' \in [Procs -> Data] /\ mem'[s] = d
        /\ \A p \in Procs : p # s => mem'[p] = mem[p]
    BY <1>1 DEF IInv, TypeOK, Good, Keeps
  <1>3. \A p \in Procs : Good(mem'[p])
    BY <1>1, <1>2
  <1>4. Good(disk')
    BY <1>1 DEF Keeps
  <1>5. RelationsHold'
    BY <1>3, <1>4 DEF RelationsHold, Good
  <1>6. TypeOK'
    <2>1. \A h \in Handlers : pc[h] \in {"idle", "extract"} => left'[h] = {} /\ since'[h] = {}
      BY DEF Keeps, IInv, TypeOK
    <2>2. ASSUME NEW h \in Handlers, pc[h] = "prune"
          PROVE  Cardinality(left'[h]) <= PruneCount
      <3>1. left[h] \in SUBSET Keys /\ left'[h] \in SUBSET left[h]
        BY DEF Keeps, IInv, TypeOK
      <3>2. /\ Cardinality(left[h]) \in Nat /\ Cardinality(left'[h]) \in Nat
            /\ Cardinality(left'[h]) <= Cardinality(left[h])
        BY <3>1, Small
      <3>3. Cardinality(left[h]) <= PruneCount
        BY <2>2 DEF IInv, TypeOK
      <3> QED BY <3>2, <3>3, MemoryAssumption
    <2>3. disk' \in Data
      BY <1>4 DEF Good
    <2>4. /\ open' \subseteq Procs
          /\ pc' \in [Handlers -> {"idle", "sweep", "extract", "prune"}]
          /\ results' \in [Handlers -> 0 .. MaxResults]
          /\ left' \in [Handlers -> SUBSET Keys]
          /\ since' \in [Handlers -> SUBSET Keys]
          /\ \A h \in Handlers : pc'[h] # "idle" => ProcOf[h] \in open'
      BY DEF Keeps, IInv, TypeOK
    <2>5. pc' = pc
      BY DEF Keeps
    <2> QED BY <1>2, <2>1, <2>2, <2>3, <2>4, <2>5 DEF TypeOK
  <1>7. ASSUME NEW h \in Handlers
        PROVE  Tracked(h)'
    <2> DEFINE p == ProcOf[h]
    <2>1. p \in Procs
      BY MemoryAssumption
    <2>2. /\ left'[h] \subseteq left[h] /\ since[h] \subseteq since'[h] /\ pc'[h] = pc[h]
          /\ \A k \in left[h] \ left'[h] : k \notin DOMAIN mem'[p]
          /\ pc[h] \in {"sweep", "prune"} /\ p = s => K \subseteq since'[h]
      BY DEF Keeps
    <2>3. Tracked(h)
      BY DEF IInv
    <2>4. CASE p # s
      <3>1. mem'[p] = mem[p]
        BY <1>2, <2>1, <2>4
      <3> QED BY <2>2, <2>3, <3>1 DEF Tracked, Context
    <2>5. CASE p = s
      <3>1. mem'[p] = d
        BY <1>2, <2>5
      <3>2. \A k \in DOMAIN d : k \in K \/ (k \in DOMAIN mem[p] /\ d[k].kind = mem[p][k].kind)
        BY <2>5 DEF Keeps, Change
      <3>3. CASE pc[h] \in {"sweep", "prune"}
        <4>1. K \subseteq since'[h]
          BY <2>2, <2>5, <3>3
        <4> QED BY <2>2, <2>3, <3>1, <3>2, <4>1 DEF Tracked, Context
      <3>4. CASE pc[h] \notin {"sweep", "prune"}
        <4>1. left'[h] = {} /\ pc'[h] # "sweep"
          BY <2>2, <3>4 DEF IInv, TypeOK
        <4> QED BY <4>1 DEF Tracked
      <3> QED BY <3>3, <3>4
    <2> QED BY <2>4, <2>5
  <1> QED BY <1>5, <1>6, <1>7 DEF IInv

-----------------------------------------------------------------------------
(* The steps that change the facts of one process                          *)

\* A Set keeps the invariant.
LEMMA SetKeeps ==
    ASSUME IInv, NEW s \in Procs, NEW k \in Keys, NEW kind \in Kinds, Set(s, k, kind),
           pc' = pc, left' = left, results' \in [Handlers -> 0 .. MaxResults]
    PROVE  IInv'
  <1> DEFINE d == With(mem[s], k, kind)
  <1>1. Good(mem[s])
    BY AllGood
  <1>2. Change(mem[s], d, {k})
    BY <1>1, WithChanges
  <1>3. \A h \in Handlers : since'[h] =
          IF ProcOf[h] = s /\ pc[h] \in {"sweep", "prune"} THEN since[h] \cup {k} ELSE since[h]
    BY DEF Set
  <1>4. since' \in [Handlers -> SUBSET Keys]
    BY DEF Set, IInv, TypeOK
  <1>5. mem' = [mem EXCEPT ![s] = d] /\ disk' \in {d, disk} /\ open' = open
    BY DEF Set, Store
  <1> HIDE DEF d
  <1>6. left' \in [Handlers -> SUBSET Keys]
    BY DEF IInv, TypeOK
  <1>7. ASSUME NEW h \in Handlers
        PROVE  /\ since[h] \subseteq since'[h]
               /\ pc[h] \in {"idle", "extract"} => since'[h] = {}
               /\ pc[h] \in {"sweep", "prune"} /\ ProcOf[h] = s => {k} \subseteq since'[h]
    BY <1>3 DEF IInv, TypeOK
  <1>8. Keeps(s, d, {k})
    BY <1>2, <1>4, <1>5, <1>6, <1>7 DEF Keeps
  <1> QED BY <1>8, KeepsIInv

\* Any other change sets no key.
LEMMA StoreKeeps ==
    ASSUME IInv, NEW s \in Procs, NEW d, Change(mem[s], d, {}),
           mem' = [mem EXCEPT ![s] = d], disk' \in {d, disk}, open' = open,
           UNCHANGED <<pc, results, since>>, left' \in [Handlers -> SUBSET Keys],
           \A h \in Handlers : /\ left'[h] \subseteq left[h]
                               /\ \A k \in left[h] \ left'[h] : k \notin DOMAIN mem'[ProcOf[h]]
    PROVE  IInv'
  <1>1. /\ results' \in [Handlers -> 0 .. MaxResults]
        /\ since' \in [Handlers -> SUBSET Keys]
    BY DEF IInv, TypeOK
  <1>2. \A h \in Handlers : /\ since[h] \subseteq since'[h]
                            /\ pc[h] \in {"idle", "extract"} => since'[h] = {}
    BY DEF IInv, TypeOK
  <1>3. Keeps(s, d, {})
    BY <1>1, <1>2 DEF Keeps
  <1> QED BY <1>3, KeepsIInv

\* Every tool keeps the invariant.
LEMMA ToolKeeps ==
    ASSUME IInv, NEW s \in Procs, Tool(s)
    PROVE  IInv'
  <1>1. UNCHANGED <<pc, results, left>>
    BY DEF Tool, handlers
  <1>2. /\ results' \in [Handlers -> 0 .. MaxResults]
        /\ left' \in [Handlers -> SUBSET Keys]
    BY <1>1 DEF IInv, TypeOK
  <1>3. Good(mem[s])
    BY AllGood
  <1>4. ASSUME NEW d, Change(mem[s], d, {}), Store(s, d), UNCHANGED since
        PROVE  IInv'
    <2>1. mem' = [mem EXCEPT ![s] = d] /\ disk' \in {d, disk} /\ open' = open
      BY <1>4 DEF Store
    <2>2. UNCHANGED <<pc, results, since>>
      BY <1>1, <1>4
    <2>3. \A h \in Handlers : left'[h] \subseteq left[h] /\ left[h] \ left'[h] = {}
      BY <1>1
    <2> QED BY <1>2, <1>4, <2>1, <2>2, <2>3, StoreKeeps
  <1>5. CASE \E k \in Keys, kind \in Kinds : Set(s, k, kind)
    BY <1>1, <1>2, <1>5, SetKeeps
  <1>6. ASSUME NEW k \in Keys, Delete(s, k), UNCHANGED since
        PROVE  IInv'
    <2>1. Change(mem[s], Without(mem[s], k), {})
      BY <1>3, WithoutChanges
    <2>2. Store(s, Without(mem[s], k))
      BY <1>6 DEF Delete
    <2> QED BY <1>4, <1>6, <2>1, <2>2
  <1>7. ASSUME NEW p \in Pairs, Relate(s, p[1], p[2]), UNCHANGED since
        PROVE  IInv'
    <2>1. p[1] \in DOMAIN mem[s] /\ p[2] \in DOMAIN mem[s]
      BY <1>7 DEF Relate
    <2>2. Change(mem[s], Linked(mem[s], p[1], p[2]), {})
      BY <1>3, <2>1, LinkedChanges
    <2>3. Store(s, Linked(mem[s], p[1], p[2]))
      BY <1>7 DEF Relate
    <2> QED BY <1>4, <1>7, <2>2, <2>3
  <1>8. ASSUME Clear(s), UNCHANGED since
        PROVE  IInv'
    <2>1. Change(mem[s], Empty, {})
      BY EmptyGood DEF Change
    <2>2. Store(s, Empty)
      BY <1>8 DEF Clear
    <2> QED BY <1>4, <1>8, <2>1, <2>2
  <1> QED BY <1>5, <1>6, <1>7, <1>8 DEF Tool

\* The extraction of a tool result keeps the invariant.
LEMMA ExtractResultKeeps ==
    ASSUME IInv, NEW h \in Handlers, ExtractResult(h)
    PROVE  IInv'
  <1>1. pc' = pc /\ left' = left
    BY DEF ExtractResult
  <1>2. results' \in [Handlers -> 0 .. MaxResults]
    <2>1. results \in [Handlers -> 0 .. MaxResults] /\ results[h] > 0
      BY DEF ExtractResult, IInv, TypeOK
    <2>2. results[h] - 1 \in 0 .. MaxResults
      BY <2>1, MemoryAssumption
    <2>3. results' = [results EXCEPT ![h] = results[h] - 1]
      BY DEF ExtractResult
    <2> QED BY <2>1, <2>2, <2>3
  <1>3. ProcOf[h] \in Procs
    BY MemoryAssumption
  <1>4. CASE \E k \in Keys : Set(ProcOf[h], k, "context")
    BY <1>1, <1>2, <1>3, <1>4, SetKeeps DEF Kinds
  <1>5. CASE UNCHANGED <<mem, disk, open, since>>
    <2>1. TypeOK' /\ RelationsHold'
      BY <1>1, <1>2, <1>5 DEF IInv, TypeOK, RelationsHold
    <2>2. \A g \in Handlers : Tracked(g)'
      BY <1>1, <1>5 DEF IInv, Tracked
    <2> QED BY <2>1, <2>2 DEF IInv
  <1> QED BY <1>4, <1>5 DEF ExtractResult

\* The deletion of a listed fact keeps the invariant.
LEMMA DeleteListedKeeps ==
    ASSUME IInv, NEW h \in Handlers, DeleteListed(h)
    PROVE  IInv'
  <1> DEFINE s == ProcOf[h]
  <1>1. s \in Procs
    BY MemoryAssumption
  <1>2. PICK k \in left[h] :
          /\ Delete(s, k) \/ (k \notin DOMAIN mem[s] /\ UNCHANGED <<mem, disk, open>>)
          /\ left' = [left EXCEPT ![h] = left[h] \ {k}]
          /\ UNCHANGED <<pc, results, since>>
    BY DEF DeleteListed
  <1>3. k \in Keys /\ left \in [Handlers -> SUBSET Keys] /\ mem \in [Procs -> Data]
    BY <1>2 DEF IInv, TypeOK
  <1>4. /\ left' \in [Handlers -> SUBSET Keys]
        /\ left'[h] = left[h] \ {k}
        /\ \A g \in Handlers : g # h => left'[g] = left[g]
    BY <1>2, <1>3
  <1>5. ASSUME NEW d, Change(mem[s], d, {}), k \notin DOMAIN d,
               mem' = [mem EXCEPT ![s] = d], disk' \in {d, disk}, open' = open
        PROVE  IInv'
    <2>1. mem'[s] = d
      BY <1>1, <1>3, <1>5
    <2>2. ASSUME NEW g \in Handlers
          PROVE  /\ left'[g] \subseteq left[g]
                 /\ \A x \in left[g] \ left'[g] : x \notin DOMAIN mem'[ProcOf[g]]
      <3>1. CASE g = h
        BY <1>4, <1>5, <2>1, <3>1
      <3>2. CASE g # h
        BY <1>4, <3>2
      <3> QED BY <3>1, <3>2
    <2> QED BY <1>1, <1>2, <1>4, <1>5, <2>2, StoreKeeps
  <1>6. Good(mem[s])
    BY <1>1, AllGood
  <1>7. CASE Delete(s, k)
    <2>1. Change(mem[s], Without(mem[s], k), {}) /\ k \notin DOMAIN Without(mem[s], k)
      BY <1>3, <1>6, WithoutChanges
    <2>2. Store(s, Without(mem[s], k))
      BY <1>7 DEF Delete
    <2> QED BY <1>5, <2>1, <2>2 DEF Store
  <1>8. CASE k \notin DOMAIN mem[s] /\ UNCHANGED <<mem, disk, open>>
    <2>1. Change(mem[s], mem[s], {})
      BY <1>6 DEF Change
    <2>2. mem' = [mem EXCEPT ![s] = mem[s]]
      BY <1>3, <1>8
    <2> QED BY <1>5, <1>8, <2>1, <2>2
  <1> QED BY <1>2, <1>7, <1>8

-----------------------------------------------------------------------------
(* The steps that change what a handler is at                              *)

\* What IInv asks of one handler.
HandlerOK(h) ==
    /\ pc[h] \in {"idle", "sweep", "extract", "prune"}
    /\ results[h] \in 0 .. MaxResults
    /\ left[h] \subseteq Keys /\ since[h] \subseteq Keys
    /\ pc[h] # "idle" => ProcOf[h] \in open
    /\ pc[h] \in {"idle", "extract"} => left[h] = {} /\ since[h] = {}
    /\ pc[h] = "prune" => Cardinality(left[h]) <= PruneCount
    /\ Tracked(h)

\* Every handler is at a place that fits what it has left.
LEMMA AllHandlersOK ==
    ASSUME IInv, NEW h \in Handlers
    PROVE  HandlerOK(h)
  BY DEF IInv, TypeOK, HandlerOK

\* A step of a handler that changes no facts keeps the invariant.
LEMMA HandlerStepKeeps ==
    ASSUME IInv, NEW h \in Handlers, UNCHANGED <<mem, disk, open>>,
           NEW q, pc' = [pc EXCEPT ![h] = q],
           NEW n, results' = [results EXCEPT ![h] = n],
           NEW l, left' = [left EXCEPT ![h] = l],
           NEW c, since' = [since EXCEPT ![h] = c],
           HandlerOK(h)'
    PROVE  IInv'
  <1>1. /\ pc \in [Handlers -> {"idle", "sweep", "extract", "prune"}]
        /\ results \in [Handlers -> 0 .. MaxResults]
        /\ left \in [Handlers -> SUBSET Keys]
        /\ since \in [Handlers -> SUBSET Keys]
    BY DEF IInv, TypeOK
  <1>2. /\ pc'[h] = q /\ results'[h] = n /\ left'[h] = l /\ since'[h] = c
        /\ \A g \in Handlers : g # h =>
             pc'[g] = pc[g] /\ results'[g] = results[g] /\ left'[g] = left[g] /\ since'[g] = since[g]
    BY <1>1
  <1>3. ASSUME NEW g \in Handlers
        PROVE  HandlerOK(g)'
    <2>1. HandlerOK(g)
      BY AllHandlersOK
    <2>2. CASE g # h
      BY <1>2, <2>1, <2>2 DEF HandlerOK, Tracked
    <2> QED BY <2>2
  <1>4. /\ pc' \in [Handlers -> {"idle", "sweep", "extract", "prune"}]
        /\ results' \in [Handlers -> 0 .. MaxResults]
        /\ left' \in [Handlers -> SUBSET Keys]
        /\ since' \in [Handlers -> SUBSET Keys]
    BY <1>1, <1>2, <1>3 DEF HandlerOK
  <1>5. TypeOK'
    BY <1>3, <1>4 DEF HandlerOK, IInv, TypeOK
  <1>6. RelationsHold'
    BY DEF IInv, RelationsHold
  <1> QED BY <1>3, <1>5, <1>6 DEF HandlerOK, IInv

\* The beginning of a sweep or of a turn keeps the invariant.
LEMMA BeginKeeps ==
    ASSUME IInv, NEW h \in Handlers, BeginSweep(h) \/ BeginTurn(h)
    PROVE  IInv'
  <1>1. HandlerOK(h) /\ ProcOf[h] \in Procs
    BY AllHandlersOK, MemoryAssumption
  <1>2. /\ pc \in [Handlers -> {"idle", "sweep", "extract", "prune"}]
        /\ results \in [Handlers -> 0 .. MaxResults]
        /\ left \in [Handlers -> SUBSET Keys]
        /\ since \in [Handlers -> SUBSET Keys]
    BY DEF IInv, TypeOK
  <1>3. /\ UNCHANGED <<mem, disk, open, since>> /\ ProcOf[h] \in open /\ pc[h] = "idle"
        /\ since' = [since EXCEPT ![h] = since[h]]
    BY <1>2 DEF BeginSweep, BeginTurn, Begin
  <1>4. CASE BeginSweep(h)
    <2> DEFINE facts == Context(mem[ProcOf[h]])
    <2>1. /\ pc' = [pc EXCEPT ![h] = "sweep"]
          /\ left' = [left EXCEPT ![h] = facts]
          /\ results' = results
      BY <1>4 DEF BeginSweep, Begin
    <2>2. results' = [results EXCEPT ![h] = results[h]]
      BY <1>2, <2>1
    <2>3. facts \subseteq DOMAIN mem[ProcOf[h]] /\ facts \subseteq Keys
      <3>1. mem[ProcOf[h]] \in Data
        BY <1>1, AllGood DEF Good
      <3> QED BY <3>1, DataElim DEF Context
    <2>4. pc'[h] = "sweep" /\ left'[h] = facts /\ since'[h] = {} /\ results'[h] = results[h]
      BY <1>1, <1>2, <1>3, <2>1 DEF HandlerOK
    <2>5. HandlerOK(h)'
      <3>1. Tracked(h)'
        BY <1>3, <2>4 DEF Tracked, Context
      <3> QED BY <1>1, <1>3, <2>3, <2>4, <3>1 DEF HandlerOK
    <2> QED BY <1>3, <2>1, <2>2, <2>5, HandlerStepKeeps
  <1>5. CASE BeginTurn(h)
    <2>1. PICK n \in 0 .. MaxResults : results' = [results EXCEPT ![h] = n]
      BY <1>5 DEF BeginTurn
    <2>2. pc' = [pc EXCEPT ![h] = "extract"] /\ left' = left
      BY <1>5 DEF BeginTurn, Begin
    <2>3. left' = [left EXCEPT ![h] = left[h]]
      BY <1>2, <2>2
    <2>4. pc'[h] = "extract" /\ left'[h] = {} /\ since'[h] = {} /\ results'[h] = n
      BY <1>1, <1>2, <1>3, <2>1, <2>2 DEF HandlerOK
    <2>5. HandlerOK(h)'
      BY <1>1, <1>3, <2>4 DEF HandlerOK, Tracked
    <2> QED BY <1>3, <2>1, <2>2, <2>3, <2>5, HandlerStepKeeps
  <1> QED BY <1>4, <1>5

\* The choice of what to prune keeps the invariant.
LEMMA PruneKeeps ==
    ASSUME IInv, NEW h \in Handlers, Prune(h)
    PROVE  IInv'
  <1> DEFINE facts == Context(mem[ProcOf[h]])
  <1>1. HandlerOK(h) /\ ProcOf[h] \in Procs
    BY AllHandlersOK, MemoryAssumption
  <1>2. /\ pc \in [Handlers -> {"idle", "sweep", "extract", "prune"}]
        /\ results \in [Handlers -> 0 .. MaxResults]
        /\ left \in [Handlers -> SUBSET Keys]
        /\ since \in [Handlers -> SUBSET Keys]
    BY DEF IInv, TypeOK
  <1>3. /\ UNCHANGED <<mem, disk, open>> /\ pc[h] = "extract"
        /\ pc' = [pc EXCEPT ![h] = "prune"]
        /\ results' = [results EXCEPT ![h] = results[h]]
        /\ since' = [since EXCEPT ![h] = since[h]]
    BY <1>2 DEF Prune
  <1>4. PICK old \in Oldest(facts) : left' = [left EXCEPT ![h] = old]
    BY DEF Prune
  <1>5. facts \subseteq DOMAIN mem[ProcOf[h]] /\ facts \subseteq Keys
    <2>1. mem[ProcOf[h]] \in Data
      BY <1>1, AllGood DEF Good
    <2> QED BY <2>1, DataElim DEF Context
  <1>6. Cardinality(facts) \in Nat
    BY <1>5, Small
  <1>7. old \subseteq facts /\ Cardinality(old) <= PruneCount
    BY <1>4, <1>6, MemoryAssumption DEF Oldest
  <1>8. pc'[h] = "prune" /\ left'[h] = old /\ since'[h] = {} /\ results'[h] = results[h]
    BY <1>1, <1>2, <1>3, <1>4 DEF HandlerOK
  <1>9. HandlerOK(h)'
    <2>1. \A k \in old : mem[ProcOf[h]][k].kind = "context"
      BY <1>7 DEF Context
    <2>2. Tracked(h)'
      BY <1>3, <1>8, <2>1 DEF Tracked
    <2> QED BY <1>1, <1>3, <1>5, <1>7, <1>8, <2>2 DEF HandlerOK
  <1> QED BY <1>3, <1>4, <1>9, HandlerStepKeeps

\* The end of a handler keeps the invariant.
LEMMA EndKeeps ==
    ASSUME IInv, NEW h \in Handlers, PruneNothing(h) \/ Return(h)
    PROVE  IInv'
  <1>1. HandlerOK(h)
    BY AllHandlersOK
  <1>2. /\ pc \in [Handlers -> {"idle", "sweep", "extract", "prune"}]
        /\ results \in [Handlers -> 0 .. MaxResults]
        /\ left \in [Handlers -> SUBSET Keys]
        /\ since \in [Handlers -> SUBSET Keys]
    BY DEF IInv, TypeOK
  <1>3. /\ UNCHANGED <<mem, disk, open>>
        /\ pc' = [pc EXCEPT ![h] = "idle"]
        /\ results' = [results EXCEPT ![h] = results[h]]
        /\ left' = [left EXCEPT ![h] = left[h]] /\ left[h] = {}
        /\ since' = [since EXCEPT ![h] = {}]
    BY <1>1, <1>2 DEF PruneNothing, Return, HandlerOK
  <1>4. pc'[h] = "idle" /\ left'[h] = {} /\ since'[h] = {} /\ results'[h] = results[h]
    BY <1>2, <1>3
  <1>5. HandlerOK(h)'
    BY <1>1, <1>4 DEF HandlerOK, Tracked
  <1> QED BY <1>3, <1>5, HandlerStepKeeps

-----------------------------------------------------------------------------
(* The steps of a process, and the theorems                                *)

\* A process that starts keeps the invariant.
LEMMA LoadKeeps ==
    ASSUME IInv, NEW s \in Procs, Load(s)
    PROVE  IInv'
  <1>1. /\ s \notin open /\ open' = open \cup {s}
        /\ mem' = [mem EXCEPT ![s] = disk] /\ disk' = disk
        /\ UNCHANGED <<pc, results, left, since>>
    BY DEF Load, handlers
  <1>2. /\ mem' \in [Procs -> Data] /\ mem'[s] = disk
        /\ \A p \in Procs : p # s => mem'[p] = mem[p]
    BY <1>1 DEF IInv, TypeOK
  <1>3. RelationsHold'
    BY <1>1, <1>2 DEF IInv, RelationsHold
  <1>4. TypeOK'
    BY <1>1, <1>2 DEF IInv, TypeOK
  <1>5. ASSUME NEW h \in Handlers
        PROVE  Tracked(h)'
    <2>1. ProcOf[h] \in Procs /\ HandlerOK(h)
      BY AllHandlersOK, MemoryAssumption
    <2>2. CASE ProcOf[h] = s
      <3>1. left'[h] = {} /\ pc'[h] = "idle"
        BY <1>1, <2>1, <2>2 DEF HandlerOK
      <3> QED BY <3>1 DEF Tracked
    <2>3. CASE ProcOf[h] # s
      BY <1>1, <1>2, <2>1, <2>3 DEF HandlerOK, Tracked
    <2> QED BY <2>2, <2>3
  <1> QED BY <1>3, <1>4, <1>5 DEF IInv

\* A process that ends keeps the invariant.
LEMMA ExitKeeps ==
    ASSUME IInv, NEW s \in Procs, Exit(s)
    PROVE  IInv'
  <1>1. /\ mem' = [mem EXCEPT ![s] = Empty] /\ disk' = disk /\ open' = open \ {s}
        /\ pc' = [h \in Handlers |-> IF ProcOf[h] = s THEN "idle" ELSE pc[h]]
        /\ results' = [h \in Handlers |-> IF ProcOf[h] = s THEN 0 ELSE results[h]]
        /\ left' = [h \in Handlers |-> IF ProcOf[h] = s THEN {} ELSE left[h]]
        /\ since' = [h \in Handlers |-> IF ProcOf[h] = s THEN {} ELSE since[h]]
    BY DEF Exit
  <1>2. /\ mem' \in [Procs -> Data] /\ mem'[s] = Empty
        /\ \A p \in Procs : p # s => mem'[p] = mem[p]
    BY <1>1, EmptyGood DEF Good, IInv, TypeOK
  <1>3. RelationsHold'
    BY <1>1, <1>2, EmptyGood DEF Good, IInv, RelationsHold
  <1>4. /\ \A h \in Handlers : ProcOf[h] = s =>
             pc'[h] = "idle" /\ results'[h] = 0 /\ left'[h] = {} /\ since'[h] = {}
        /\ \A h \in Handlers : ProcOf[h] # s =>
             pc'[h] = pc[h] /\ results'[h] = results[h] /\ left'[h] = left[h] /\ since'[h] = since[h]
    BY <1>1
  <1>5. ASSUME NEW h \in Handlers
        PROVE  HandlerOK(h)'
    <2>1. ProcOf[h] \in Procs /\ HandlerOK(h)
      BY AllHandlersOK, MemoryAssumption
    <2>2. CASE ProcOf[h] = s
      BY <1>4, <2>2, MemoryAssumption DEF HandlerOK, Tracked
    <2>3. CASE ProcOf[h] # s
      BY <1>1, <1>2, <1>4, <2>1, <2>3 DEF HandlerOK, Tracked
    <2> QED BY <2>2, <2>3
  <1>6. /\ pc' \in [Handlers -> {"idle", "sweep", "extract", "prune"}]
        /\ results' \in [Handlers -> 0 .. MaxResults]
        /\ left' \in [Handlers -> SUBSET Keys]
        /\ since' \in [Handlers -> SUBSET Keys]
    BY <1>1, <1>5 DEF HandlerOK
  <1>7. TypeOK'
    BY <1>1, <1>2, <1>5, <1>6 DEF HandlerOK, IInv, TypeOK
  <1> QED BY <1>3, <1>5, <1>7 DEF HandlerOK, IInv

\* The invariant holds at first.
LEMMA InitIInv ==
    ASSUME Init
    PROVE  IInv
  <1>1. TypeOK
    BY EmptyGood, MemoryAssumption DEF Init, TypeOK, Good
  <1>2. RelationsHold
    BY EmptyGood DEF Init, RelationsHold, Good
  <1>3. \A h \in Handlers : Tracked(h)
    BY DEF Init, Tracked
  <1> QED BY <1>1, <1>2, <1>3 DEF IInv

\* The invariant is inductive.
LEMMA NextIInv ==
    ASSUME IInv, [Next]_vars
    PROVE  IInv'
  <1>1. ASSUME NEW s \in Procs, Load(s) \/ Exit(s) \/ Tool(s)
        PROVE  IInv'
    BY <1>1, LoadKeeps, ExitKeeps, ToolKeeps
  <1>2. ASSUME NEW h \in Handlers, HandlerStep(h)
        PROVE  IInv'
    <2>1. CASE BeginSweep(h) \/ BeginTurn(h)
      BY <2>1, BeginKeeps
    <2>2. CASE ExtractResult(h)
      BY <2>2, ExtractResultKeeps
    <2>3. CASE Prune(h)
      BY <2>3, PruneKeeps
    <2>4. CASE PruneNothing(h) \/ Return(h)
      BY <2>4, EndKeeps
    <2>5. CASE DeleteListed(h)
      BY <2>5, DeleteListedKeeps
    <2> QED BY <1>2, <2>1, <2>2, <2>3, <2>4, <2>5 DEF HandlerStep
  <1>3. CASE UNCHANGED vars
    <2>1. UNCHANGED <<mem, disk, open, pc, results, left, since>>
      BY <1>3 DEF vars, handlers
    <2>2. TypeOK' /\ RelationsHold'
      BY <2>1 DEF IInv, TypeOK, RelationsHold
    <2>3. \A h \in Handlers : Tracked(h)'
      BY <2>1 DEF IInv, Tracked
    <2> QED BY <2>2, <2>3 DEF IInv
  <1> QED BY <1>1, <1>2, <1>3 DEF Next

\* The invariant holds always.
LEMMA Invariance == Spec => []IInv
  BY InitIInv, NextIInv, PTL DEF Spec

\* The types, the finite bound of what a pruning deletes among them.
THEOREM AlwaysTypeOK == Spec => []TypeOK
  <1>1. IInv => TypeOK
    BY DEF IInv
  <1> QED BY <1>1, Invariance, PTL

\* Relations stay bidirectional and lead to facts, in every process and in the file.
THEOREM AlwaysRelationsHold == Spec => []RelationsHold
  <1>1. IInv => RelationsHold
    BY DEF IInv
  <1> QED BY <1>1, Invariance, PTL

\* A reset or "/memory clear context" that is done leaves only the context facts that were
\* set while it was at work.
THEOREM SweepForgets == Spec => ResetForgets
  <1>1. ASSUME IInv, [Next]_vars, NEW h \in Handlers,
               pc[h] = "sweep", pc'[h] = "idle", ProcOf[h] \in open'
        PROVE  Context(mem[ProcOf[h]]) \subseteq since[h]
    <2>1. /\ pc \in [Handlers -> {"idle", "sweep", "extract", "prune"}]
          /\ ProcOf \in [Handlers -> Procs]
      BY <1>1, MemoryAssumption DEF IInv, TypeOK
    <2>2. left[h] = {}
      <3>1. ASSUME NEW s \in Procs, Load(s) \/ Exit(s) \/ Tool(s)
            PROVE  FALSE
        BY <1>1, <2>1, <3>1 DEF Load, Exit, Tool, handlers
      <3>2. ASSUME NEW g \in Handlers, HandlerStep(g)
            PROVE  left[h] = {}
        <4>1. CASE Return(g)
          BY <1>1, <2>1, <4>1 DEF Return
        <4>2. CASE ExtractResult(g) \/ DeleteListed(g)
          BY <1>1, <4>2 DEF ExtractResult, DeleteListed
        <4>3. CASE BeginSweep(g) \/ BeginTurn(g) \/ Prune(g) \/ PruneNothing(g)
          BY <1>1, <2>1, <4>3 DEF BeginSweep, BeginTurn, Begin, Prune, PruneNothing
        <4> QED BY <3>2, <4>1, <4>2, <4>3 DEF HandlerStep
      <3>3. CASE UNCHANGED vars
        BY <1>1, <3>3 DEF vars, handlers
      <3> QED BY <1>1, <3>1, <3>2, <3>3 DEF Next
    <2>3. Tracked(h)
      BY <1>1 DEF IInv
    <2> QED BY <1>1, <2>2, <2>3 DEF Tracked
  <1>2. IInv /\ [Next]_vars =>
          [\A h \in Handlers : pc[h] = "sweep" /\ pc'[h] = "idle" /\ ProcOf[h] \in open' =>
              Context(mem[ProcOf[h]]) \subseteq since[h]]_vars
    BY <1>1
  <1> QED BY <1>2, Invariance, PTL DEF Spec, ResetForgets

\* No handler deletes a fact of the user that was not a context fact when it listed it.
THEOREM HandlersSpareUserFacts == Spec => UserFactsStay
  <1>1. IInv /\ [Next]_vars =>
          [\A h \in Handlers : \A k \in left[h] \ left'[h] :
              ProcOf[h] \in open' /\ k \in DOMAIN mem[ProcOf[h]] =>
                  mem[ProcOf[h]][k].kind = "context" \/ k \in since[h]]_vars
    BY DEF IInv, Tracked
  <1> QED BY <1>1, Invariance, PTL DEF Spec, UserFactsStay
=============================================================================
