----------------------------- MODULE StoreProofs -----------------------------
(***************************************************************************)
(* Proofs about what processes keep in files they share and in memory: the *)
(* task store, for any ids, groups and sessions; the cache; the search     *)
(* index; the plan in plan.md; schedules.yaml and the agent of launchd;    *)
(* the handlers of a session's turns; the conversation and its facts; and  *)
(* the composition of all but the first.                                   *)
(*                                                                         *)
(* The forest invariant of the task store is inductive together with       *)
(* TypeOK; the work is in the lemmas about one tree, where Move is the     *)
(* hard one: grafting a task under a parent that is not below it closes no *)
(* cycle.  The other components each have an invariant of their own, which *)
(* the composition inherits, as it takes a step of one of them at a time.  *)
(***************************************************************************)
EXTENDS TaskStore, StoresMC, FiniteSetTheorems, SequenceTheorems, WellFoundedInduction, TLAPS

\* What a map of tasks is made of.
LEMMA DataElim ==
    ASSUME NEW d \in Data
    PROVE  DOMAIN d \subseteq Ids /\ \A x \in DOMAIN d : d[x] \in Task
BY DEF Data

\* A function from ids to tasks is a map of tasks.
LEMMA DataIntro ==
    ASSUME NEW D \in SUBSET Ids, NEW f \in [D -> Task]
    PROVE  f \in Data
BY DEF Data

\* Below is what it says: part of the tree, with the task itself, closed under children.
LEMMA BelowClosed ==
    ASSUME NEW d, NEW id \in DOMAIN d
    PROVE  /\ Below(d, id) \subseteq DOMAIN d
           /\ id \in Below(d, id)
           /\ \A p \in Below(d, id) : Children(d, p) \subseteq Below(d, id)
<1>1. Below(d, id) \subseteq DOMAIN d /\ id \in Below(d, id)
    BY DEF Below
<1>2. ASSUME NEW p \in Below(d, id), NEW x \in Children(d, p) PROVE x \in Below(d, id)
    <2>1. x \in DOMAIN d
        BY <1>2 DEF Children
    <2>2. ASSUME NEW S \in SUBSET DOMAIN d, id \in S,
                 \A q \in S : Children(d, q) \subseteq S
          PROVE  x \in S
        <3>1. p \in S
            BY <2>2, <1>2 DEF Below
        <3> QED BY <3>1, <2>2, <1>2
    <2> QED BY <2>1, <2>2 DEF Below
<1> QED BY <1>1, <1>2

\* Above holds the parent of the task and of every task it holds.
LEMMA AboveClosed ==
    ASSUME NEW d, NEW id, NEW y \in Above(d, id) \cup {id},
           d[y].parent \in DOMAIN d \ {Root}
    PROVE  d[y].parent \in Above(d, id)
<1>1. ASSUME NEW S \in SUBSET DOMAIN d,
             \A z \in S \cup {id} : d[z].parent \in (DOMAIN d \ {Root}) => d[z].parent \in S
      PROVE  d[y].parent \in S
    <2>1. y \in S \cup {id}
        BY <1>1 DEF Above
    <2> QED BY <2>1, <1>1
<1> QED BY <1>1 DEF Above

\* Dropping tasks that leave no orphan, or changing anything but parents, keeps a forest.
LEMMA PartOfForest ==
    ASSUME NEW d, NEW e, IsForest(d), NoOrphans(e), DOMAIN e \subseteq DOMAIN d,
           \A x \in DOMAIN e : e[x].parent = d[x].parent
    PROVE  IsForest(e)
<1>1. Acyclic(e)
    <2>1. SUFFICES ASSUME NEW S \in (SUBSET DOMAIN e) \ {{}}
                   PROVE  \E x \in S : e[x].parent = Root \/ e[x].parent \notin S
        BY DEF Acyclic
    <2>2. PICK x \in S : d[x].parent = Root \/ d[x].parent \notin S
        BY DEF IsForest, Acyclic
    <2> QED BY <2>2
<1> QED BY <1>1 DEF IsForest

\* A new leaf keeps a forest.
LEMMA LeafKeepsForest ==
    ASSUME NEW d, NEW e, NEW id, IsForest(d), id \notin DOMAIN d,
           DOMAIN e = DOMAIN d \cup {id},
           \A x \in DOMAIN d : e[x] = d[x],
           e[id].parent = Root \/ e[id].parent \in DOMAIN d
    PROVE  IsForest(e)
<1>1. NoOrphans(e)
    BY DEF IsForest, NoOrphans
<1>2. ASSUME NEW S \in (SUBSET DOMAIN e) \ {{}}
      PROVE  \E x \in S : e[x].parent = Root \/ e[x].parent \notin S
    <2>1. CASE S \ {id} = {}
        <3>1. id \in S /\ S = {id}
            BY <2>1
        <3> QED BY <3>1
    <2>2. CASE S \ {id} # {}
        <3>1. PICK x \in S \ {id} : d[x].parent = Root \/ d[x].parent \notin S \ {id}
            BY <2>2 DEF IsForest, Acyclic
        <3>2. x \in DOMAIN d /\ e[x] = d[x]
            BY <3>1
        <3>3. d[x].parent # Root => d[x].parent # id
            BY <3>2 DEF IsForest, NoOrphans
        <3> QED BY <3>1, <3>2, <3>3
    <2> QED BY <2>1, <2>2
<1> QED BY <1>1, <1>2 DEF IsForest, Acyclic

\* Grafting a task under a parent MayAdopt admits closes no cycle.  A cycle of the new tree
\* would pass through the task and so through its new parent; the part of it above the new
\* parent leaves the task out and was closed in the old tree already.
LEMMA GraftKeepsForest ==
    ASSUME NEW d, NEW e, NEW id \in DOMAIN d, NEW parent, IsForest(d), MayAdopt(d, id, parent),
           DOMAIN e = DOMAIN d, e[id].parent = parent,
           \A x \in DOMAIN d \ {id} : e[x].parent = d[x].parent
    PROVE  IsForest(e)
<1>1. NoOrphans(e)
    BY DEF IsForest, NoOrphans, MayAdopt
<1>2. ASSUME NEW S \in (SUBSET DOMAIN e) \ {{}},
             \A x \in S : e[x].parent # Root /\ e[x].parent \in S
      PROVE  FALSE
    <2>1. CASE id \notin S
        BY <2>1, <1>2 DEF IsForest, Acyclic
    <2>2. CASE id \in S
        <3> DEFINE T == S \cap (Above(d, parent) \cup {parent})
        <3>1. parent \in T /\ id \notin T
            BY <2>2, <1>2 DEF MayAdopt
        <3>2. ASSUME NEW x \in T PROVE d[x].parent # Root /\ d[x].parent \in T
            <4>1. x \in DOMAIN d \ {id} /\ x \in S /\ d[x].parent = e[x].parent
                BY <3>1
            <4>2. d[x].parent \in S /\ d[x].parent \in DOMAIN d \ {Root}
                BY <4>1, <1>2
            <4>3. d[x].parent \in Above(d, parent)
                BY <4>2, AboveClosed
            <4> QED BY <4>2, <4>3
        <3>3. T \in (SUBSET DOMAIN d) \ {{}}
            BY <3>1
        <3> QED BY <3>2, <3>3 DEF IsForest, Acyclic
    <2> QED BY <2>1, <2>2
<1> QED BY <1>1, <1>2 DEF IsForest, Acyclic

-----------------------------------------------------------------------------
(* The invariant                                                           *)

Good(d) == d \in Data /\ IsForest(d)

IInv == TypeOK /\ Forests

\* A task added under a task of the map leaves it good.
LEMMA AddGood ==
    ASSUME NEW d, Good(d), NEW id \in Ids, id \notin DOMAIN d, NEW g \in Groups,
           NEW p \in Ids \cup {Root}, p # Root => p \in DOMAIN d
    PROVE  Good([x \in DOMAIN d \cup {id} |->
                 IF x = id THEN [parent |-> p, status |-> "active", group |-> g] ELSE d[x]])
<1> DEFINE e == [x \in DOMAIN d \cup {id} |->
                 IF x = id THEN [parent |-> p, status |-> "active", group |-> g] ELSE d[x]]
<1>1. DOMAIN d \subseteq Ids /\ \A x \in DOMAIN d : d[x] \in Task
    BY DataElim DEF Good
<1>2. e \in [DOMAIN d \cup {id} -> Task]
    BY <1>1 DEF Task
<1>3. e \in Data
    BY <1>1, <1>2, DataIntro
<1>4. IsForest(e)
    <2>1. e[id].parent = p
        OBVIOUS
    <2> HIDE DEF e
    <2>2. DOMAIN e = DOMAIN d \cup {id} /\ \A x \in DOMAIN d : e[x] = d[x]
        BY DEF e
    <2> QED BY <2>1, <2>2, LeafKeepsForest DEF Good
<1> QED BY <1>3, <1>4 DEF Good

\* A status set on a task and all below it leaves the map good.
LEMMA SetStatusGood ==
    ASSUME NEW d, Good(d), NEW id \in DOMAIN d, NEW st \in {"active", "done"}
    PROVE  Good([x \in DOMAIN d |->
                 IF x \in Below(d, id) THEN [d[x] EXCEPT !.status = st] ELSE d[x]])
<1> DEFINE e == [x \in DOMAIN d |->
                 IF x \in Below(d, id) THEN [d[x] EXCEPT !.status = st] ELSE d[x]]
<1>1. DOMAIN d \subseteq Ids /\ \A x \in DOMAIN d : d[x] \in Task
    BY DataElim DEF Good
<1>2. \A x \in DOMAIN d : e[x] \in Task /\ e[x].parent = d[x].parent
    BY <1>1 DEF Task
<1> HIDE DEF e
<1>3. DOMAIN e = DOMAIN d
    BY DEF e
<1>4. e \in [DOMAIN d -> Task]
    BY <1>2 DEF e
<1>5. e \in Data
    BY <1>1, <1>4, DataIntro
<1>6. NoOrphans(e)
    BY <1>2, <1>3 DEF Good, IsForest, NoOrphans
<1>7. IsForest(e)
    BY <1>2, <1>3, <1>6, PartOfForest DEF Good
<1> QED BY <1>5, <1>7 DEF Good, e

\* A task deleted with all below it leaves the map good.
LEMMA DeleteGood ==
    ASSUME NEW d, Good(d), NEW id \in DOMAIN d
    PROVE  Good([x \in DOMAIN d \ Below(d, id) |-> d[x]])
<1> DEFINE e == [x \in DOMAIN d \ Below(d, id) |-> d[x]]
<1>1. DOMAIN d \subseteq Ids /\ \A x \in DOMAIN d : d[x] \in Task
    BY DataElim DEF Good
<1>2. e \in Data
    BY <1>1, DataIntro
<1>3. NoOrphans(e)
    <2>1. SUFFICES ASSUME NEW x \in DOMAIN d \ Below(d, id), d[x].parent # Root
                   PROVE  d[x].parent \in DOMAIN d \ Below(d, id)
        BY DEF NoOrphans
    <2>2. d[x].parent \in DOMAIN d
        BY <2>1 DEF Good, IsForest, NoOrphans
    <2>3. x \in Children(d, d[x].parent)
        BY <2>1 DEF Children
    <2> QED BY <2>1, <2>2, <2>3, BelowClosed
<1>4. IsForest(e)
    BY <1>3, PartOfForest DEF Good
<1> QED BY <1>2, <1>4 DEF Good

\* A regrouped task is a task with the same parent.
LEMMA RegroupedType ==
    ASSUME NEW t \in Task, NEW g \in Groups \cup {""}
    PROVE  Regrouped(t, g) \in Task /\ Regrouped(t, g).parent = t.parent
<1>1. (IF g = "" THEN t.group ELSE g) \in Groups
    BY DEF Task
<1>2. (IF g \in {"todo", "backlog"} THEN "active" ELSE t.status) \in {"active", "done"}
    BY DEF Task
<1> QED BY <1>1, <1>2 DEF Regrouped, Task

\* A move that is refused after the task was regrouped leaves the map good.
LEMMA RefusedGood ==
    ASSUME NEW d, Good(d), NEW id \in DOMAIN d, NEW g \in Groups \cup {""}
    PROVE  Good([d EXCEPT ![id] = Regrouped(@, g)])
<1> DEFINE e == [d EXCEPT ![id] = Regrouped(@, g)]
<1>1. DOMAIN d \subseteq Ids /\ \A x \in DOMAIN d : d[x] \in Task
    BY DataElim DEF Good
<1>2. Regrouped(d[id], g) \in Task /\ Regrouped(d[id], g).parent = d[id].parent
    BY <1>1, RegroupedType
<1>3. e = [x \in DOMAIN d |-> IF x = id THEN Regrouped(d[id], g) ELSE d[x]]
    BY DEF Good, Data
<1> HIDE DEF e
<1>4. DOMAIN e = DOMAIN d /\ \A x \in DOMAIN d : e[x] \in Task /\ e[x].parent = d[x].parent
    BY <1>1, <1>2, <1>3
<1>5. e \in [DOMAIN d -> Task]
    BY <1>3, <1>4
<1>6. e \in Data
    BY <1>1, <1>5, DataIntro
<1>7. NoOrphans(e)
    BY <1>4 DEF Good, IsForest, NoOrphans
<1>8. IsForest(e)
    BY <1>4, <1>7, PartOfForest DEF Good
<1> QED BY <1>6, <1>8 DEF Good, e

\* A move under a task that may adopt it leaves the map good.
LEMMA MoveGood ==
    ASSUME NEW d, Good(d), NEW id \in DOMAIN d, NEW g \in Groups \cup {""},
           NEW p \in Ids \cup {Root}, p # Root => MayAdopt(d, id, p)
    PROVE  Good([d EXCEPT ![id] = Moved(@, g, p)])
<1> DEFINE t == Moved(d[id], g, p)
           e == [x \in DOMAIN d |-> IF x = id THEN t ELSE d[x]]
<1>1. DOMAIN d \subseteq Ids /\ \A x \in DOMAIN d : d[x] \in Task
    BY DataElim DEF Good
<1>2. Regrouped(d[id], g) \in Task /\ Regrouped(d[id], g).parent = d[id].parent
    BY <1>1, RegroupedType
<1>3. t \in Task /\ t.parent = IF p = Root THEN d[id].parent ELSE p
    BY <1>2 DEF Moved, Task
<1>4. [d EXCEPT ![id] = Moved(@, g, p)] = e
    BY DEF Good, Data
<1> HIDE DEF t
<1>5. DOMAIN e = DOMAIN d /\ e[id] = t /\ \A x \in DOMAIN d \ {id} : e[x] = d[x]
    OBVIOUS
<1>6. e \in [DOMAIN d -> Task]
    BY <1>1, <1>3
<1> HIDE DEF e
<1>7. e \in Data
    BY <1>1, <1>6, DataIntro
<1>8. IsForest(e)
    <2>1. CASE p = Root
        <3>1. \A x \in DOMAIN e : e[x].parent = d[x].parent
            BY <2>1, <1>3, <1>5
        <3>2. NoOrphans(e)
            BY <3>1, <1>5 DEF Good, IsForest, NoOrphans
        <3> QED BY <3>1, <3>2, <1>5, PartOfForest DEF Good
    <2>2. CASE p # Root
        <3>1. e[id].parent = p /\ MayAdopt(d, id, p)
            BY <2>2, <1>3, <1>5
        <3> QED BY <3>1, <1>5, GraftKeepsForest DEF Good
    <2> QED BY <2>1, <2>2
<1> QED BY <1>4, <1>7, <1>8 DEF Good

-----------------------------------------------------------------------------
\* Storing a good tree in a session keeps the invariant, whether the write succeeds or not.
LEMMA StoreKeeps ==
    ASSUME IInv, NEW s \in Sessions, NEW d, Good(d), Store(s, d)
    PROVE  IInv'
<1>1. mem' \in [Sessions -> Data] /\ disk' \in Data
    BY DEF IInv, TypeOK, Store, Good
<1>2. TypeOK'
    BY <1>1 DEF IInv, TypeOK, Store
<1>3. IsForest(disk') /\ \A q \in Sessions : IsForest(mem'[q])
    BY DEF IInv, TypeOK, Forests, Store, Good
<1> QED BY <1>2, <1>3 DEF IInv, Forests

\* The empty map is good.
LEMMA EmptyGood == Good(Empty)
<1>1. Empty \in [{} -> Task] /\ DOMAIN Empty = {}
    BY DEF Empty
<1>2. Empty \in Data
    BY <1>1, DataIntro
<1>3. IsForest(Empty)
    BY <1>1 DEF IsForest, NoOrphans, Acyclic
<1> QED BY <1>2, <1>3 DEF Good

\* Every operation of a session keeps the invariant.
LEMMA OperationKeeps ==
    ASSUME IInv, NEW s \in Sessions, Operation(s)
    PROVE  IInv'
<1>0. Good(mem[s])
    BY DEF IInv, TypeOK, Forests, Good
<1>1. CASE \E id \in Ids, g \in Groups, p \in Ids \cup {Root} : Add(s, id, g, p)
    <2>1. PICK id \in Ids, g \in Groups, p \in Ids \cup {Root} : Add(s, id, g, p)
        BY <1>1
    <2> QED BY <2>1, <1>0, AddGood, StoreKeeps DEF Add
<1>2. ASSUME NEW id \in Addressable, Touch(s, id) PROVE IInv'
    BY <1>2, <1>0, StoreKeeps DEF Touch
<1>3. ASSUME NEW id \in Addressable, NEW st \in {"active", "done"}, SetStatus(s, id, st)
      PROVE  IInv'
    <2> DEFINE e == [x \in DOMAIN mem[s] |->
            IF x \in Below(mem[s], id) THEN [mem[s][x] EXCEPT !.status = st] ELSE mem[s][x]]
    <2>1. id \in DOMAIN mem[s] /\ Store(s, e)
        BY <1>3 DEF SetStatus
    <2>2. Good(e)
        BY <2>1, <1>0, SetStatusGood
    <2> HIDE DEF e
    <2> QED BY <2>1, <2>2, StoreKeeps
<1>4. ASSUME NEW id \in Addressable, Delete(s, id) PROVE IInv'
    BY <1>4, <1>0, DeleteGood, StoreKeeps DEF Delete
<1>5. ASSUME NEW id \in Addressable, NEW g \in Groups \cup {""}, NEW p \in Ids \cup {Root},
             Move(s, id, g, p)
      PROVE  IInv'
    BY <1>5, <1>0, MoveGood, StoreKeeps DEF Move
<1>6. ASSUME NEW id \in Addressable, NEW g \in Groups \cup {""}, NEW p \in Ids \cup {Root},
             MoveRefused(s, id, g, p)
      PROVE  IInv'
    <2> DEFINE d == [mem[s] EXCEPT ![id] = Regrouped(@, g)]
    <2>1. Good(d)
        BY <1>6, <1>0, RefusedGood DEF MoveRefused
    <2>2. mem' = [mem EXCEPT ![s] = d] /\ UNCHANGED <<disk, open>>
        BY <1>6 DEF MoveRefused
    <2> HIDE DEF d
    <2>3. TypeOK'
        BY <2>1, <2>2 DEF IInv, TypeOK, Good
    <2>4. Forests'
        BY <2>1, <2>2 DEF IInv, TypeOK, Forests, Good
    <2> QED BY <2>3, <2>4 DEF IInv
<1> QED BY <1>1, <1>2, <1>3, <1>4, <1>5, <1>6 DEF Operation

\* The invariant is inductive.
LEMMA Inductive == IInv /\ [Next]_vars => IInv'
<1>1. SUFFICES ASSUME IInv, [Next]_vars PROVE IInv'
    OBVIOUS
<1>2. CASE UNCHANGED vars
    BY <1>1, <1>2 DEF IInv, TypeOK, Forests, vars
<1>3. ASSUME NEW s \in Sessions, Load(s) PROVE IInv'
    <2>2. TypeOK'
        BY <1>1, <1>3 DEF IInv, TypeOK, Load
    <2>3. Forests'
        BY <1>1, <1>3 DEF IInv, TypeOK, Forests, Load
    <2> QED BY <2>2, <2>3 DEF IInv
<1>4. ASSUME NEW s \in Sessions, Exit(s) PROVE IInv'
    <2>1. TypeOK'
        BY <1>1, <1>4, EmptyGood DEF IInv, TypeOK, Exit, Good
    <2>2. Forests'
        BY <1>1, <1>4, EmptyGood DEF IInv, TypeOK, Forests, Exit, Good
    <2> QED BY <2>1, <2>2 DEF IInv
<1>5. ASSUME NEW s \in Sessions, Operation(s) PROVE IInv'
    BY <1>1, <1>5, OperationKeeps
<1> QED BY <1>1, <1>2, <1>3, <1>4, <1>5 DEF Next

\* The invariant holds at first.
LEMMA Initial == Init => IInv
BY EmptyGood DEF Init, IInv, TypeOK, Forests, Good

\* Memory and file always hold well-typed task maps, whatever happens to a flush.
THEOREM StoreTyped == Spec => []TypeOK
<1>1. IInv => TypeOK
    BY DEF IInv
<1> QED BY <1>1, Initial, Inductive, PTL DEF Spec

\* For any ids and any number of sessions sharing the file, every session and the file hold
\* a forest, so no walk over the tree runs for ever with the mutex held.
THEOREM AlwaysForests == Spec => []Forests
<1>1. IInv => Forests
    BY DEF IInv
<1> QED BY <1>1, Initial, Inductive, PTL DEF Spec
-----------------------------------------------------------------------------
(* What an operation leaves alone                                          *)

\* A task without a parent is below no other task.
LEMMA RootsAreApart ==
    ASSUME NEW d, NEW id \in DOMAIN d, NEW x \in Below(d, id), d[x].parent = Root
    PROVE  x = id
<1>1. SUFFICES ASSUME x # id PROVE FALSE
    OBVIOUS
<1> DEFINE S == Below(d, id) \ {x}
<1>2. S \in SUBSET DOMAIN d /\ id \in S
    BY <1>1, BelowClosed
<1>3. ASSUME NEW p \in S, NEW c \in Children(d, p) PROVE c \in S
    <2>1. c \in Below(d, id)
        BY <1>3, BelowClosed
    <2>2. c # x
        BY <1>3 DEF Children
    <2> QED BY <2>1, <2>2
<1>4. x \in S
    <2> HIDE DEF S
    <2>1. \A T \in SUBSET DOMAIN d :
            id \in T /\ (\A p \in T : Children(d, p) \subseteq T) => x \in T
        BY DEF Below
    <2> QED BY <2>1, <1>2, <1>3
<1> QED BY <1>4

\* The root tasks that e drops or changes are one at most.
OneRootChanges(d, e) ==
    \A x, y \in DOMAIN d :
        /\ d[x].parent = Root /\ d[y].parent = Root
        /\ \A z \in {x, y} : z \notin DOMAIN e \/ e[z] # d[z]
        => x = y

\* A change that is confined to a task and what is below it is one of one root task.
LEMMA BelowIsOneTree ==
    ASSUME NEW d, NEW id \in DOMAIN d, NEW e,
           \A x \in DOMAIN d \ Below(d, id) : x \in DOMAIN e /\ e[x] = d[x]
    PROVE  OneRootChanges(d, e)
<1>1. ASSUME NEW x \in DOMAIN d, d[x].parent = Root, x \notin DOMAIN e \/ e[x] # d[x]
      PROVE  x = id
    <2>1. x \in Below(d, id)
        BY <1>1
    <2> QED BY <2>1, <1>1, RootsAreApart
<1> QED BY <1>1 DEF OneRootChanges

\* An operation of a session changes one tree of that session.
LEMMA OperationOneTree ==
    ASSUME IInv, NEW s \in Sessions, Operation(s)
    PROVE  OneRootChanges(mem[s], mem'[s])
<1> DEFINE d == mem[s]
<1>0. mem \in [Sessions -> Data] /\ d = [x \in DOMAIN d |-> d[x]]
    BY DEF IInv, TypeOK, Data
<1>1. CASE \E id \in Ids, g \in Groups, p \in Ids \cup {Root} : Add(s, id, g, p)
    <2>1. PICK id \in Ids, g \in Groups, p \in Ids \cup {Root} : Add(s, id, g, p)
        BY <1>1
    <2>2. \A x \in DOMAIN d : x \in DOMAIN mem'[s] /\ mem'[s][x] = d[x]
        BY <2>1, <1>0 DEF Add, Store
    <2> QED BY <2>2 DEF OneRootChanges
<1>2. ASSUME NEW id \in Addressable, Touch(s, id) PROVE OneRootChanges(d, mem'[s])
    <2>1. mem'[s] = d
        BY <1>2, <1>0 DEF Touch, Store
    <2> QED BY <2>1 DEF OneRootChanges
<1>3. ASSUME NEW id \in Addressable, NEW st \in {"active", "done"}, SetStatus(s, id, st)
      PROVE  OneRootChanges(d, mem'[s])
    <2>1. id \in DOMAIN d /\ \A x \in DOMAIN d \ Below(d, id) : x \in DOMAIN mem'[s] /\ mem'[s][x] = d[x]
        BY <1>3, <1>0 DEF SetStatus, Store
    <2> QED BY <2>1, BelowIsOneTree
<1>4. ASSUME NEW id \in Addressable, Delete(s, id) PROVE OneRootChanges(d, mem'[s])
    <2>1. id \in DOMAIN d /\ \A x \in DOMAIN d \ Below(d, id) : x \in DOMAIN mem'[s] /\ mem'[s][x] = d[x]
        BY <1>4, <1>0 DEF Delete, Store
    <2> QED BY <2>1, BelowIsOneTree
<1>5. ASSUME NEW id \in Addressable, NEW g \in Groups \cup {""}, NEW p \in Ids \cup {Root},
             Move(s, id, g, p) \/ MoveRefused(s, id, g, p)
      PROVE  OneRootChanges(d, mem'[s])
    <2> DEFINE e == mem'[s]
    <2>1. PICK t : id \in DOMAIN d /\ mem' = [mem EXCEPT ![s] = [d EXCEPT ![id] = t]]
        BY <1>5 DEF Move, MoveRefused, Store
    <2>2. id \in DOMAIN d /\ e = [d EXCEPT ![id] = t]
        BY <2>1, <1>0
    <2> HIDE DEF d, e
    <2>3. \A x \in DOMAIN d \ Below(d, id) : x \in DOMAIN e /\ e[x] = d[x]
        <3>1. id \in Below(d, id)
            BY <2>1, BelowClosed
        <3> QED BY <2>2, <3>1, <1>0
    <2>4. id \in DOMAIN d
        BY <2>2
    <2>5. OneRootChanges(d, e)
        BY ONLY <2>3, <2>4, BelowIsOneTree
    <2> QED BY <2>5 DEF d, e
<1> QED BY <1>1, <1>2, <1>3, <1>4, <1>5 DEF Operation

\* For any ids and sessions, no operation, a refused move included, drops or re-marks
\* two root tasks.
THEOREM TreesAreApart == Spec => OneTree
<1>1. ASSUME IInv, Next, NEW s \in Sessions, s \in open, s \in open'
      PROVE  OneRootChanges(mem[s], mem'[s])
    <2>1. PICK q \in Sessions : Load(q) \/ Exit(q) \/ Operation(q)
        BY <1>1 DEF Next
    <2>2. CASE q = s
        <3>1. Operation(s)
            BY <2>1, <2>2, <1>1 DEF Load, Exit
        <3> QED BY <3>1, <1>1, OperationOneTree
    <2>3. CASE q # s
        <3>1. mem'[s] = mem[s]
            BY <2>1, <2>3, <1>1 DEF IInv, TypeOK, Load, Exit, Operation, Add, Touch, SetStatus,
               Delete, Move, MoveRefused, Store
        <3> QED BY <3>1 DEF OneRootChanges
    <2> QED BY <2>2, <2>3
<1>2. IInv /\ [Next]_vars =>
        [\A s \in Sessions : s \in open /\ s \in open' =>
            \A x, y \in DOMAIN mem[s] :
                /\ mem[s][x].parent = Root /\ mem[s][y].parent = Root
                /\ \A z \in {x, y} : z \notin DOMAIN mem'[s] \/ mem'[s][z] # mem[s][z]
                => x = y]_vars
    BY <1>1 DEF OneRootChanges
<1> QED BY <1>2, Initial, Inductive, PTL DEF Spec, OneTree

-----------------------------------------------------------------------------
(* The cache on top of WriteFileAtomic (CacheFiles).                       *)

Contents == [Keys -> Entry \cup {NoFile, Torn}]

CallKind(r) ==
  /\ DOMAIN r = {"at", "key", "entry", "fd", "victims", "met"}
  /\ r.at \in {"idle", "write", "rename", "list", "remove"}
  /\ r.fd \in {"temp", "path", "gone"} /\ r.met \in BOOLEAN
  /\ r.at # "idle" => r.key \in Keys
  /\ r.at \in {"write", "rename"} => r.entry \in Entry

CacheKinds ==
  /\ path \in Contents /\ temp \in Contents /\ sole \in Contents
  /\ op = [p \in Procs |-> op[p]] /\ \A p \in Procs : CallKind(op[p])
  /\ got = [p \in Procs |-> got[p]] /\ HitsAreWhole

\* Of two writers of a key each has met another.
Met == \A p, q \in Procs : p # q /\ p \in Writers(op[q].key) /\ q \in Writers(op[p].key) => op[p].met

\* Whoever writes unmet has the file under the temporary name to itself, unless a purge took it.
OwnFile(p) ==
  op[p].at \in {"write", "rename"} /\ ~op[p].met =>
    \/ op[p].fd = "gone" /\ temp[op[p].key] = NoFile
    \/ op[p].fd = "temp" /\ temp[op[p].key] = IF op[p].at = "write" THEN Torn ELSE op[p].entry

\* While what a Set left counts, nobody writes the key.
Left == \A k \in Keys : sole[k] # NoFile => path[k] = sole[k] /\ Writers(k) = {}

CacheInv == CacheKinds /\ Met /\ (\A p \in Procs : OwnFile(p)) /\ Left

\* What Get can hand out of a file.
LEMMA StoredFacts ==
  ASSUME NEW e \in Entry
  PROVE  /\ e = [value |-> e.value, ttl |-> e.ttl, past |-> e.past]
         /\ e.value \in Values /\ e.ttl \in BOOLEAN /\ e.past \in BOOLEAN
         /\ [e EXCEPT !.past = e.ttl] \in Entry
BY DEF Entry

\* Nobody without a call is a writer.
LEMMA NoOpFacts == NoOp.at = "idle" /\ CallKind(NoOp)
BY DEF NoOp, CallKind

\* Opening the temporary file keeps the invariant.
LEMMA OpenTmpStep ==
  ASSUME CacheInv, NEW p \in Procs, OpenTmp(p)
  PROVE  CacheInv'
<1>0. CacheKinds /\ Met /\ Left /\ (\A q \in Procs : OwnFile(q))
  BY DEF CacheInv
<1>1. PICK k \in Keys, v \in Values, ttl \in BOOLEAN :
        /\ op' = [q \in Procs |->
             IF q = p THEN [NoOp EXCEPT !.at = "write", !.key = k, !.fd = "temp", !.met = (Writers(k) # {}),
                                        !.entry = [value |-> v, ttl |-> ttl, past |-> FALSE]]
             ELSE [op[q] EXCEPT !.met = @ \/ q \in Writers(k)]]
        /\ temp' = [temp EXCEPT ![k] = Opened(@)]
        /\ older' = Modified(Temp(k))
        /\ sole' = [sole EXCEPT ![k] = NoFile]
  BY DEF OpenTmp
<1>2. path' = path /\ got' = got /\ op[p].at = "idle"
  BY DEF OpenTmp
<1>3. /\ op'[p].at = "write" /\ op'[p].key = k /\ op'[p].fd = "temp" /\ op'[p].met = (Writers(k) # {})
      /\ op'[p].entry = [value |-> v, ttl |-> ttl, past |-> FALSE] /\ DOMAIN op'[p] = DOMAIN NoOp
  BY <1>1 DEF NoOp
<1>4. ASSUME NEW q \in Procs, q # p
      PROVE  /\ op'[q].at = op[q].at /\ op'[q].key = op[q].key /\ op'[q].fd = op[q].fd
             /\ op'[q].entry = op[q].entry /\ op'[q].met = (op[q].met \/ q \in Writers(k))
             /\ DOMAIN op'[q] = DOMAIN op[q]
  <2>1. op'[q] = [op[q] EXCEPT !.met = op[q].met \/ q \in Writers(k)]
    BY <1>1, <1>4
  <2>2. DOMAIN op[q] = {"at", "key", "entry", "fd", "victims", "met"}
    BY <1>0 DEF CacheKinds, CallKind
  <2> QED  BY <2>1, <2>2
<1>5. op' = [q \in Procs |-> op'[q]]
  BY <1>1
<1>6. CacheKinds'
  <2>1. [value |-> v, ttl |-> ttl, past |-> FALSE] \in Entry
    BY DEF Entry
  <2>2. CallKind(op[p]')
    BY <1>3, <2>1, NoOpFacts DEF CallKind
  <2>3. ASSUME NEW q \in Procs, q # p PROVE CallKind(op[q]')
    <3>1. CallKind(op[q])
      BY <1>0 DEF CacheKinds
    <3> QED  BY <1>4, <2>3, <3>1 DEF CallKind
  <2>4. temp' \in Contents /\ sole' \in Contents /\ path' \in Contents
    BY <1>0, <1>1, <1>2 DEF CacheKinds, Contents, Opened
  <2> QED  BY <1>0, <1>2, <1>5, <2>2, <2>3, <2>4 DEF CacheKinds, HitsAreWhole
<1>7. p \notin Writers(k) /\ \A j : Writers(j)' = IF j = k THEN Writers(j) \cup {p} ELSE Writers(j)
  BY <1>2, <1>3, <1>4 DEF Writers
<1>8. Met'
  <2> SUFFICES ASSUME NEW x \in Procs, NEW y \in Procs, x # y, x \in Writers(op[y].key)', y \in Writers(op[x].key)'
               PROVE  op[x].met'
    BY DEF Met
  <2>1. op'[x].key = op'[y].key
    BY DEF Writers
  <2>2. CASE x = p
    <3>1. y \in Writers(k)
      BY <1>3, <1>7, <2>2
    <3> QED  BY <1>3, <2>2, <3>1
  <2>3. CASE y = p /\ x # p
    <3>1. x \in Writers(k)
      BY <1>3, <1>7, <2>3
    <3> QED  BY <1>4, <2>3, <3>1
  <2>4. CASE x # p /\ y # p
    <3>1. x \in Writers(op[y].key) /\ y \in Writers(op[x].key)
      BY <1>4, <1>7, <2>4
    <3> QED  BY <1>0, <1>4, <2>4, <3>1 DEF Met
  <2> QED  BY <2>2, <2>3, <2>4
<1>9. ASSUME NEW q \in Procs PROVE OwnFile(q)'
  <2>1. CASE q = p
    <3>1. temp'[k] = Torn
      BY <1>0, <1>1 DEF CacheKinds, Contents, Opened
    <3> QED  BY <1>3, <2>1, <3>1 DEF OwnFile
  <2>2. CASE q # p
    <3>1. op[q].at \in {"write", "rename"} /\ op[q].key = k => op'[q].met
      BY <1>4, <2>2 DEF Writers
    <3>2. op[q].at \in {"write", "rename"} /\ op[q].key # k => temp'[op[q].key] = temp[op[q].key]
      BY <1>0, <1>1 DEF CacheKinds, CallKind, Contents
    <3>3. op[q].met \in BOOLEAN /\ OwnFile(q)
      BY <1>0 DEF CacheKinds, CallKind
    <3> QED
      <4>1. SUFFICES ASSUME op'[q].at \in {"write", "rename"}, ~op'[q].met
                     PROVE  \/ op'[q].fd = "gone" /\ temp'[op'[q].key] = NoFile
                            \/ op'[q].fd = "temp" /\ temp'[op'[q].key] = IF op'[q].at = "write" THEN Torn ELSE op'[q].entry
        BY DEF OwnFile
      <4>2. op[q].at \in {"write", "rename"} /\ ~op[q].met /\ op[q].key # k
        BY <1>4, <2>2, <3>1, <4>1
      <4>3. \/ op[q].fd = "gone" /\ temp[op[q].key] = NoFile
            \/ op[q].fd = "temp" /\ temp[op[q].key] = IF op[q].at = "write" THEN Torn ELSE op[q].entry
        BY <3>3, <4>2 DEF OwnFile
      <4> QED  BY ONLY <1>4, <2>2, <3>2, <4>2, <4>3
  <2> QED  BY <2>1, <2>2
<1>10. Left'
  BY <1>0, <1>1, <1>2, <1>7 DEF Left, CacheKinds, Contents
<1> QED  BY <1>6, <1>8, <1>9, <1>10 DEF CacheInv

\* Writing keeps it.
LEMMA WriteTmpStep ==
  ASSUME CacheInv, NEW p \in Procs, WriteTmp(p)
  PROVE  CacheInv'
<1>0. CacheKinds /\ Met /\ Left /\ (\A q \in Procs : OwnFile(q))
  BY DEF CacheInv
<1> DEFINE k == op[p].key
<1>1. op[p].at = "write" /\ got' = got /\ sole' = sole /\ k \in Keys /\ op[p].entry \in Entry
  BY <1>0 DEF WriteTmp, CacheKinds, CallKind
<1>2. op' = [op EXCEPT ![p] = [op[p] EXCEPT !.at = "rename"]]
  BY DEF WriteTmp, Go
<1>3. DOMAIN op[p] = {"at", "key", "entry", "fd", "victims", "met"}
  BY <1>0 DEF CacheKinds, CallKind
<1>4. /\ op'[p].at = "rename" /\ op'[p].key = k /\ op'[p].fd = op[p].fd /\ op'[p].met = op[p].met
      /\ op'[p].entry = op[p].entry /\ DOMAIN op'[p] = DOMAIN op[p]
      /\ \A q \in Procs : q # p => op'[q] = op[q]
      /\ op' = [q \in Procs |-> op'[q]]
  BY <1>0, <1>2, <1>3 DEF CacheKinds
<1>5. PICK e : /\ e \in {op[p].entry, Torn}
               /\ \/ /\ op[p].fd = "temp" /\ e \in Laid(temp[k], op[p].entry)
                     /\ temp' = [temp EXCEPT ![k] = e] /\ path' = path
                  \/ op[p].fd = "path" /\ path' = [path EXCEPT ![k] = e] /\ temp' = temp
                  \/ op[p].fd = "gone" /\ path' = path /\ temp' = temp
  <2>1. CASE op[p].fd = "temp"
    <3>1. PICK e \in Laid(temp[k], op[p].entry) : temp' = [temp EXCEPT ![k] = e] /\ UNCHANGED path
      BY <2>1 DEF WriteTmp
    <3> QED  BY <2>1, <3>1 DEF Laid
  <2>2. CASE op[p].fd = "path"
    <3>1. PICK e \in Laid(path[k], op[p].entry) : path' = [path EXCEPT ![k] = e] /\ UNCHANGED temp
      BY <2>2 DEF WriteTmp
    <3> QED  BY <2>2, <3>1 DEF Laid
  <2>3. CASE op[p].fd = "gone"
    BY <2>3 DEF WriteTmp
  <2>4. op[p].fd \in {"temp", "path", "gone"}
    BY <1>0 DEF CacheKinds, CallKind
  <2> QED  BY <2>1, <2>2, <2>3, <2>4
<1>6. CacheKinds'
  <2>1. path' \in Contents /\ temp' \in Contents
    BY <1>0, <1>1, <1>5 DEF CacheKinds, Contents
  <2>2. ASSUME NEW q \in Procs PROVE CallKind(op[q]')
    <3>1. CallKind(op[q])
      BY <1>0 DEF CacheKinds
    <3> QED  BY <1>1, <1>4, <3>1 DEF CallKind
  <2> QED  BY <1>0, <1>1, <1>4, <2>1, <2>2 DEF CacheKinds, HitsAreWhole
<1>7. \A j : Writers(j)' = Writers(j)
  BY <1>1, <1>4 DEF Writers
<1>8. Met'
  BY <1>0, <1>4, <1>7 DEF Met
<1>9. ASSUME NEW q \in Procs PROVE OwnFile(q)'
  <2>1. CASE q = p
    BY <1>0, <1>1, <1>4, <1>5, <2>1 DEF OwnFile, CacheKinds, Contents, Laid
  <2>2. CASE q # p
    <3>1. op[q].at \in {"write", "rename"} /\ op[q].key = k => op[q].met
      BY <1>0, <1>1, <2>2 DEF Writers, Met
    <3>2. op[q].at \in {"write", "rename"} /\ op[q].key # k => temp'[op[q].key] = temp[op[q].key]
      BY <1>0, <1>5 DEF CacheKinds, CallKind, Contents
    <3> QED  BY <1>0, <1>4, <2>2, <3>1, <3>2 DEF OwnFile
  <2> QED  BY <2>1, <2>2
<1>10. Left'
  <2>1. p \in Writers(k)
    BY <1>1 DEF Writers
  <2> QED  BY <1>0, <1>1, <1>5, <1>7, <2>1 DEF Left, CacheKinds, Contents
<1> QED  BY <1>6, <1>8, <1>9, <1>10 DEF CacheInv

\* A rename keeps it: who still has the file open has met the one that renames.
LEMMA RenameStep ==
  ASSUME CacheInv, NEW p \in Procs, Rename(p), temp[op[p].key] # NoFile
  PROVE  CacheInv'
<1>0. CacheKinds /\ Met /\ Left /\ (\A q \in Procs : OwnFile(q))
  BY DEF CacheInv
<1> DEFINE k == op[p].key
<1>1. op[p].at = "rename" /\ got' = got /\ k \in Keys /\ op[p].entry \in Entry
  BY <1>0 DEF Rename, CacheKinds, CallKind
<1>2. /\ path' = [path EXCEPT ![k] = temp[k]] /\ temp' = [temp EXCEPT ![k] = NoFile] /\ op' = Follow(p, k)
      /\ sole' = [sole EXCEPT ![k] = IF op[p].met THEN NoFile ELSE op[p].entry]
  BY DEF Rename
<1>3. \A q \in Procs : DOMAIN op[q] = {"at", "key", "entry", "fd", "victims", "met"}
  BY <1>0 DEF CacheKinds, CallKind
<1>4. /\ op'[p].at = "list" /\ op'[p].key = k /\ op'[p].fd = "gone" /\ op'[p].met = op[p].met
      /\ DOMAIN op'[p] = DOMAIN op[p] /\ op' = [q \in Procs |-> op'[q]]
  BY <1>2, <1>3 DEF Follow
<1>5. ASSUME NEW q \in Procs, q # p
      PROVE  /\ op'[q].at = op[q].at /\ op'[q].key = op[q].key /\ op'[q].entry = op[q].entry
             /\ op'[q].met = op[q].met /\ DOMAIN op'[q] = DOMAIN op[q] /\ op'[q].fd \in {"temp", "path", "gone"}
             /\ q \notin Writers(k) => op'[q] = op[q]
  <2>1. CASE q \notin Writers(k)
    BY <1>0, <1>2, <1>5, <2>1 DEF Follow, CacheKinds, CallKind
  <2>2. CASE q \in Writers(k)
    <3>1. op'[q] = [op[q] EXCEPT !.fd = CASE op[q].fd = "temp" -> "path" [] OTHER -> "gone"]
      BY <1>2, <1>5, <2>2 DEF Follow
    <3> QED  BY <1>3, <2>2, <3>1
  <2> QED  BY <2>1, <2>2
<1>6. CacheKinds'
  <2>1. path' \in Contents /\ temp' \in Contents /\ sole' \in Contents
    BY <1>0, <1>1, <1>2 DEF CacheKinds, Contents
  <2>2. ASSUME NEW q \in Procs PROVE CallKind(op[q]')
    <3>1. CallKind(op[q])
      BY <1>0 DEF CacheKinds
    <3>2. CASE q = p
      BY <1>1, <1>4, <3>1, <3>2 DEF CallKind
    <3>3. CASE q # p
      BY <1>5, <3>1, <3>3 DEF CallKind
    <3> QED  BY <3>2, <3>3
  <2> QED  BY <1>0, <1>1, <1>4, <2>1, <2>2 DEF CacheKinds, HitsAreWhole
<1>7. \A j : Writers(j)' = Writers(j) \ {p}
  BY <1>4, <1>5 DEF Writers
<1>8. Met'
  <2> SUFFICES ASSUME NEW x \in Procs, NEW y \in Procs, x # y, x \in Writers(op[y].key)', y \in Writers(op[x].key)'
               PROVE  op[x].met'
    BY DEF Met
  <2>1. x # p /\ y # p
    BY <1>7
  <2>2. x \in Writers(op[y].key) /\ y \in Writers(op[x].key)
    BY <1>5, <1>7, <2>1
  <2> QED  BY <1>0, <1>5, <2>1, <2>2 DEF Met
<1>9. ASSUME NEW q \in Procs PROVE OwnFile(q)'
  <2>1. CASE q = p
    BY <1>4, <2>1 DEF OwnFile
  <2>2. CASE q # p
    <3>1. q \in Writers(k) => op[q].met
      BY <1>0, <1>1, <2>2 DEF Writers, Met
    <3>2. op[q].at \in {"write", "rename"} /\ q \notin Writers(k) => temp'[op[q].key] = temp[op[q].key]
      BY <1>0, <1>2 DEF CacheKinds, CallKind, Contents, Writers
    <3> QED  BY <1>0, <1>5, <2>2, <3>1, <3>2 DEF OwnFile
  <2> QED  BY <2>1, <2>2
<1>10. Left'
  <2>1. ~op[p].met => temp[k] = op[p].entry
    BY <1>0, <1>1 DEF OwnFile
  <2>2. ~op[p].met => Writers(k) = {p}
    BY <1>0, <1>1 DEF Writers, Met
  <2>3. ASSUME NEW j \in Keys, j # k PROVE sole'[j] = sole[j] /\ path'[j] = path[j]
    BY <1>0, <1>2, <2>3 DEF CacheKinds, Contents
  <2>4. sole'[k] = (IF op[p].met THEN NoFile ELSE op[p].entry) /\ path'[k] = temp[k]
    BY <1>0, <1>1, <1>2 DEF CacheKinds, Contents
  <2> QED  BY <1>0, <1>7, <2>1, <2>2, <2>3, <2>4 DEF Left
<1> QED  BY <1>6, <1>8, <1>9, <1>10 DEF CacheInv

\* A call that ends, or goes on to look at the files, keeps it.
LEMMA CallEndsStep ==
  ASSUME CacheInv, NEW p \in Procs, NEW r, op' = [op EXCEPT ![p] = r], CallKind(r),
         r.at \notin {"write", "rename"}, UNCHANGED <<path, temp, sole>>,
         got' = [q \in Procs |-> got'[q]], HitsAreWhole'
  PROVE  CacheInv'
<1>0. CacheKinds /\ Met /\ Left /\ (\A q \in Procs : OwnFile(q))
  BY DEF CacheInv
<1>1. op'[p] = r /\ (\A q \in Procs : q # p => op'[q] = op[q]) /\ op' = [q \in Procs |-> op'[q]]
  BY <1>0 DEF CacheKinds
<1>2. \A j : Writers(j)' = Writers(j) \ {p}
  BY <1>1 DEF Writers
<1>3. CacheKinds'
  BY <1>0, <1>1 DEF CacheKinds
<1>4. Met'
  <2> SUFFICES ASSUME NEW x \in Procs, NEW y \in Procs, x # y, x \in Writers(op[y].key)', y \in Writers(op[x].key)'
               PROVE  op[x].met'
    BY DEF Met
  <2>1. x # p /\ y # p
    BY <1>2
  <2> QED  BY <1>0, <1>1, <1>2, <2>1 DEF Met
<1>5. \A q \in Procs : OwnFile(q)'
  BY <1>0, <1>1 DEF OwnFile
<1>6. Left'
  BY <1>0, <1>2 DEF Left
<1> QED  BY <1>3, <1>4, <1>5, <1>6 DEF CacheInv

\* Removing files keeps it: who has one open has met a rename.
LEMMA RemovalStep ==
  ASSUME CacheInv, NEW K, Without(K), temp' \in Contents, got' = got,
         op' = [q \in Procs |-> op'[q]],
         \A q \in Procs :
           \/ op'[q] = NoOp
           \/ /\ CallKind(op[q]') /\ op'[q].at = op[q].at /\ op'[q].key = op[q].key /\ op'[q].met = op[q].met
              /\ op'[q].entry = op[q].entry
              /\ \/ op[q].fd # "path" /\ op'[q].fd = op[q].fd /\ temp' = temp
                 \/ op[q].fd = "path" /\ op'[q].fd \in {"path", "gone"} /\ temp' = temp
                 \/ op'[q].fd = "gone" /\ \A k \in Keys : temp'[k] = NoFile
  PROVE  CacheInv'
<1>0. CacheKinds /\ Met /\ Left /\ (\A q \in Procs : OwnFile(q))
  BY DEF CacheInv
<1>1. CacheKinds'
  <2>1. path' \in Contents /\ sole' \in Contents
    BY <1>0 DEF Without, CacheKinds, Contents
  <2>2. \A q \in Procs : CallKind(op[q]')
    <3>1. CallKind(NoOp)' = CallKind(NoOp)
      BY DEF CallKind, NoOp
    <3> QED  BY <3>1, NoOpFacts
  <2> QED  BY <1>0, <2>1, <2>2 DEF CacheKinds, HitsAreWhole
<1>2. \A j : Writers(j)' \subseteq Writers(j)
  BY NoOpFacts DEF Writers
<1>3. Met'
  <2> SUFFICES ASSUME NEW x \in Procs, NEW y \in Procs, x # y, x \in Writers(op[y].key)', y \in Writers(op[x].key)'
               PROVE  op[x].met'
    BY DEF Met
  <2>1. op'[x].at \in {"write", "rename"} /\ op'[y].at \in {"write", "rename"}
    BY DEF Writers
  <2>2. op'[x] # NoOp /\ op'[y] # NoOp
    BY <2>1, NoOpFacts
  <2>3. x \in Writers(op[y].key) /\ y \in Writers(op[x].key) /\ op'[x].met = op[x].met
    BY <1>2, <2>2
  <2> QED  BY <1>0, <2>3 DEF Met
<1>4. ASSUME NEW q \in Procs PROVE OwnFile(q)'
  <2>1. CASE op'[q] = NoOp
    BY <2>1, NoOpFacts DEF OwnFile
  <2>2. CASE op'[q] # NoOp
    <3>1. op[q].at \in {"write", "rename"} => op[q].key \in Keys
      BY <1>0 DEF CacheKinds, CallKind
    <3> QED  BY <1>0, <2>2, <3>1 DEF OwnFile
  <2> QED  BY <2>1, <2>2
<1>5. Left'
  BY <1>0, <1>2 DEF Left, Without
<1> QED  BY <1>1, <1>3, <1>4, <1>5 DEF CacheInv

\* Entries that expire do so in the file and in what a Set is known to have left.
LEMMA ExpireStep ==
  ASSUME CacheInv, Expire
  PROVE  CacheInv'
<1>0. CacheKinds /\ Met /\ Left /\ (\A q \in Procs : OwnFile(q))
  BY DEF CacheInv
<1> DEFINE Old(e) == IF e \in {NoFile, Torn} THEN e ELSE [e EXCEPT !.past = e.ttl]
<1>1. /\ path' = [k \in Keys |-> Old(path[k])] /\ sole' = [k \in Keys |-> Old(sole[k])]
      /\ got' = [p \in Procs |-> Miss] /\ temp' = temp /\ op' = op
  BY DEF Expire
<1>2. \A e \in Entry \cup {NoFile, Torn} : Old(e) \in Entry \cup {NoFile, Torn}
  BY StoredFacts
<1>3. Old(NoFile) = NoFile
  OBVIOUS
<1>4. CacheKinds'
  <2>1. path' \in Contents /\ sole' \in Contents
    BY <1>0, <1>1, <1>2 DEF CacheKinds, Contents
  <2>2. HitsAreWhole'
    BY <1>1 DEF HitsAreWhole, Miss
  <2> HIDE DEF Old
  <2> QED  BY <1>0, <1>1, <2>1, <2>2 DEF CacheKinds
<1> HIDE DEF Old
<1>5. Met' /\ \A q \in Procs : OwnFile(q)'
  BY <1>0, <1>1 DEF Met, OwnFile, Writers
<1>6. Left'
  BY <1>0, <1>1, <1>3 DEF Left, Writers
<1> QED  BY <1>4, <1>5, <1>6 DEF CacheInv

\* Every step of the cache keeps the invariant.
LEMMA NextCache == CacheInv /\ [CacheNext]_cvars => CacheInv'
<1> SUFFICES ASSUME CacheInv, [CacheNext]_cvars PROVE CacheInv'
  OBVIOUS
<1>0. CacheKinds
  BY DEF CacheInv
<1>n. CallKind(NoOp) /\ NoOp.at = "idle"
  BY NoOpFacts
<1>g. got' = got => got' = [q \in Procs |-> got'[q]] /\ HitsAreWhole'
  BY <1>0 DEF CacheKinds, HitsAreWhole
<1>1. ASSUME NEW p \in Procs, Rename(p) PROVE CacheInv'
  <2>1. CASE temp[op[p].key] = NoFile
    BY <1>1, <1>n, <1>g, <2>1, CallEndsStep DEF Rename, Go
  <2> QED  BY <1>1, <2>1, RenameStep
<1>2. ASSUME NEW p \in Procs, ListFiles(p) PROVE CacheInv'
  <2>1. CallKind(op[p]) /\ op[p].at = "list"
    BY <1>0, <1>2 DEF CacheKinds, ListFiles
  <2>2. PICK V : op' = [op EXCEPT ![p] = NoOp] \/ op' = [op EXCEPT ![p] = [op[p] EXCEPT !.at = "remove", !.victims = V]]
    BY <1>2 DEF ListFiles, Go
  <2> DEFINE r == [op[p] EXCEPT !.at = "remove", !.victims = V]
  <2>3. CallKind(r) /\ r.at = "remove"
    BY <2>1 DEF CallKind
  <2>4. UNCHANGED <<path, temp, sole>> /\ got' = got
    BY <1>2 DEF ListFiles
  <2> HIDE DEF r
  <2> QED  BY <1>n, <1>g, <2>2, <2>3, <2>4, CallEndsStep DEF r
<1>3. ASSUME NEW p \in Procs, RemoveFiles(p) PROVE CacheInv'
  <2> DEFINE K == op[p].victims
  <2>1. op' = [q \in Procs |-> IF q = p THEN NoOp ELSE Cut(K, op[q])] /\ Without(K) /\ temp' = temp /\ got' = got
    BY <1>3 DEF RemoveFiles
  <2>2. ASSUME NEW q \in Procs
        PROVE  \/ op'[q] = NoOp
               \/ /\ CallKind(op[q]') /\ op'[q].at = op[q].at /\ op'[q].key = op[q].key /\ op'[q].met = op[q].met
                  /\ op'[q].entry = op[q].entry
                  /\ (op[q].fd # "path" /\ op'[q].fd = op[q].fd) \/ (op[q].fd = "path" /\ op'[q].fd \in {"path", "gone"})
    <3>1. CallKind(op[q])
      BY <1>0 DEF CacheKinds
    <3> QED  BY <2>1, <3>1 DEF Cut, CallKind
  <2>3. temp' \in Contents /\ op' = [q \in Procs |-> op'[q]]
    BY <1>0, <2>1 DEF CacheKinds
  <2> QED  BY <2>1, <2>2, <2>3, RemovalStep
<1>4. ASSUME NEW p \in Procs, NEW k \in Keys, DeleteEntry(p, k) PROVE CacheInv'
  <2>1. op' = [q \in Procs |-> Cut({k}, op[q])] /\ Without({k}) /\ temp' = temp /\ got' = got
    BY <1>4 DEF DeleteEntry
  <2>2. ASSUME NEW q \in Procs
        PROVE  /\ CallKind(op[q]') /\ op'[q].at = op[q].at /\ op'[q].key = op[q].key /\ op'[q].met = op[q].met
               /\ op'[q].entry = op[q].entry
               /\ (op[q].fd # "path" /\ op'[q].fd = op[q].fd) \/ (op[q].fd = "path" /\ op'[q].fd \in {"path", "gone"})
    <3>1. CallKind(op[q])
      BY <1>0 DEF CacheKinds
    <3> QED  BY <2>1, <3>1 DEF Cut, CallKind
  <2>3. temp' \in Contents /\ op' = [q \in Procs |-> op'[q]]
    BY <1>0, <2>1 DEF CacheKinds
  <2> QED  BY <2>1, <2>2, <2>3, RemovalStep
<1>5. ASSUME NEW p \in Procs, Purge(p) PROVE CacheInv'
  <2>1. /\ op' = [q \in Procs |-> [op[q] EXCEPT !.fd = "gone"]] /\ Without(Keys) /\ got' = got
        /\ temp' = [k \in Keys |-> NoFile]
    BY <1>5 DEF Purge
  <2>2. ASSUME NEW q \in Procs
        PROVE  /\ CallKind(op[q]') /\ op'[q].at = op[q].at /\ op'[q].key = op[q].key /\ op'[q].met = op[q].met
               /\ op'[q].entry = op[q].entry /\ op'[q].fd = "gone"
    <3>1. CallKind(op[q])
      BY <1>0 DEF CacheKinds
    <3> QED  BY <2>1, <3>1 DEF CallKind
  <2>3. temp' \in Contents /\ op' = [q \in Procs |-> op'[q]] /\ \A k \in Keys : temp'[k] = NoFile
    BY <2>1 DEF Contents
  <2> QED  BY <2>1, <2>2, <2>3, RemovalStep
<1>6. ASSUME NEW p \in Procs, Crash(p) PROVE CacheInv'
  BY <1>6, <1>n, <1>g, CallEndsStep DEF Crash, Go
<1>7. ASSUME NEW p \in Procs, NEW k \in Keys, Get(p, k) PROVE CacheInv'
  <2>1. UNCHANGED <<path, temp, sole>> /\ op[p].at = "idle"
    BY <1>7 DEF Get
  <2>2. got' = [q \in Procs |-> got'[q]] /\ HitsAreWhole'
    <3>1. got' = [got EXCEPT ![p] = IF path[k] \in {NoFile, Torn} \/ path[k].past THEN Miss ELSE Hit(path[k])]
      BY <1>7 DEF Get
    <3>2. path[k] \in {NoFile, Torn} \/ (path[k].value \in Values /\ path[k].past \in BOOLEAN)
      BY <1>0, StoredFacts DEF CacheKinds, Contents
    <3>3. got'[p].hit => got'[p].value \in Values /\ ~got'[p].past
      BY <1>0, <3>1, <3>2 DEF CacheKinds, Miss, Hit
    <3>4. \A q \in Procs : q # p => got'[q] = got[q]
      BY <3>1
    <3> QED  BY <1>0, <3>1, <3>3, <3>4 DEF CacheKinds, HitsAreWhole
  <2> DEFINE r == [NoOp EXCEPT !.at = "remove", !.key = k, !.victims = {k}]
  <2>3. CallKind(r) /\ r.at = "remove"
    BY <1>n DEF CallKind
  <2>4. op' = [op EXCEPT ![p] = r] \/ op' = [op EXCEPT ![p] = op[p]]
    <3>1. op' = [op EXCEPT ![p] = r] \/ op' = op
      BY <1>7 DEF Get, Go
    <3> QED  BY <1>0, <3>1 DEF CacheKinds
  <2>5. CallKind(op[p])
    BY <1>0 DEF CacheKinds
  <2> HIDE DEF r
  <2> QED  BY <2>1, <2>2, <2>3, <2>4, <2>5, CallEndsStep
<1>8. CASE UNCHANGED cvars
  BY <1>8 DEF cvars, CacheInv, CacheKinds, Met, OwnFile, Left, Writers, HitsAreWhole
<1> QED  BY <1>1, <1>2, <1>3, <1>4, <1>5, <1>6, <1>7, <1>8, OpenTmpStep, WriteTmpStep, ExpireStep DEF CacheNext

\* The cache starts with it.
LEMMA InitCache == CacheInit => CacheInv
<1> SUFFICES ASSUME CacheInit PROVE CacheInv
  OBVIOUS
<1>1. \A p \in Procs : op[p] = NoOp
  BY DEF CacheInit
<1>2. CacheKinds
  BY <1>1, NoOpFacts DEF CacheInit, CacheKinds, Contents, HitsAreWhole, Miss
<1>3. Met /\ (\A p \in Procs : OwnFile(p))
  BY <1>1, NoOpFacts DEF Met, OwnFile, Writers
<1>4. Left
  BY DEF CacheInit, Left
<1> QED  BY <1>2, <1>3, <1>4 DEF CacheInv

\* Whatever two writers did to the file they share, and wherever one died, Get hands out a value that
\* was stored, whole and not expired; and a Set that met no other Set of its key is what the next Get
\* finds, whatever half-written file an earlier crash left (cache/cache.go:41, cache/cache.go:65,
\* internal/xdg/atomic.go:14).
THEOREM CacheKeeps == CacheSpec => [](HitsAreWhole /\ SetIsKept)
<1>1. CacheInv => HitsAreWhole /\ SetIsKept
  BY DEF CacheInv, CacheKinds, Left, SetIsKept
<1> QED  BY <1>1, InitCache, NextCache, PTL DEF CacheSpec

\* Of any two files one was modified before the other.
Ranked(o, F) ==
  o \subseteq F \X F /\ \A f, g \in F : <<f, g>> \in o <=> f # g /\ <<g, f>> \notin o

\* A file that was just written is the newest.
LEMMA WrittenIsRanked ==
  ASSUME Ranked(older, Files), NEW f
  PROVE  Ranked(Modified(f), Files \cup {f})
<1> DEFINE F == Files  M == Modified(f)
<1>1. M = {e \in older : e[1] \notin {f} /\ e[2] \notin {f}} \cup {<<g, f>> : g \in F \ {f}}
  BY DEF Modified, OlderWithout
<1>2. older \subseteq F \X F /\ \A g, h \in F : <<g, h>> \in older <=> g # h /\ <<h, g>> \notin older
  BY DEF Ranked
<1> HIDE DEF F, M
<1>3. \A g, h : <<g, h>> \in M <=> \/ <<g, h>> \in older /\ g # f /\ h # f
                                   \/ g \in F \ {f} /\ h = f
  BY <1>1
<1>4. M \subseteq (F \cup {f}) \X (F \cup {f})
  BY <1>1, <1>2
<1>5. \A g, h \in F \cup {f} : <<g, h>> \in M <=> g # h /\ <<h, g>> \notin M
  BY <1>2, <1>3
<1> QED  BY <1>4, <1>5 DEF Ranked, F, M

\* Files that go leave the others as they were.
LEMMA RestIsRanked ==
  ASSUME Ranked(older, Files), NEW G
  PROVE  Ranked(OlderWithout(G), Files \ G)
BY DEF Ranked, OlderWithout

\* Names of files.
LEMMA FileNames ==
  /\ \A j, k : Temp(j) # Path(k) /\ (Temp(j) = Temp(k) => j = k) /\ (Path(j) = Path(k) => j = k)
  /\ \A k \in Keys : (Temp(k) \in Files <=> temp[k] # NoFile) /\ (Path(k) \in Files <=> path[k] # NoFile)
  /\ \A f \in Files : \E k \in Keys : f = Temp(k) \/ f = Path(k)
<1>1. \A j, k : Temp(j) # Path(k) /\ (Temp(j) = Temp(k) => j = k) /\ (Path(j) = Path(k) => j = k)
  BY DEF Temp, Path
<1>2. \A f : f \in Files <=> \E k \in Keys : (f = Temp(k) /\ temp[k] # NoFile) \/ (f = Path(k) /\ path[k] # NoFile)
  BY DEF Files
<1>3. \A k \in Keys : (Temp(k) \in Files <=> temp[k] # NoFile) /\ (Path(k) \in Files <=> path[k] # NoFile)
  <2> SUFFICES ASSUME NEW k \in Keys
               PROVE  (Temp(k) \in Files <=> temp[k] # NoFile) /\ (Path(k) \in Files <=> path[k] # NoFile)
    OBVIOUS
  <2>1. (\E j \in Keys : (Temp(k) = Temp(j) /\ temp[j] # NoFile) \/ (Temp(k) = Path(j) /\ path[j] # NoFile)) <=> temp[k] # NoFile
    BY <1>1, Zenon
  <2>2. (\E j \in Keys : (Path(k) = Temp(j) /\ temp[j] # NoFile) \/ (Path(k) = Path(j) /\ path[j] # NoFile)) <=> path[k] # NoFile
    BY <1>1, Zenon
  <2> QED  BY <1>2, <2>1, <2>2, Zenon
<1> QED  BY <1>1, <1>2, <1>3, Zenon

\* A file that takes the name of another takes its own place with it.
LEMMA RenamedIsRanked ==
  ASSUME Ranked(older, Files), NEW k \in Keys, Temp(k) \in Files
  PROVE  Ranked(Renamed(k), (Files \ {Temp(k)}) \cup {Path(k)})
<1> DEFINE F == Files  R == Renamed(k)  t == Temp(k)  q == Path(k)  o == OlderWithout({q})  
           Now(f) == IF f = t THEN q ELSE f
<1>1. R = {<<Now(e[1]), Now(e[2])>> : e \in o}
  BY DEF Renamed
<1>2. Ranked(o, F \ {q}) /\ t # q /\ t \in F
  BY RestIsRanked, FileNames
<1> HIDE DEF F, R, t, q, o
<1>3. \A g, h : <<g, h>> \in o => g \in F \ {q} /\ h \in F \ {q}
  BY <1>2 DEF Ranked
<1>4. \A e \in o : e = <<e[1], e[2]>>
  BY <1>2 DEF Ranked
<1> DEFINE InR(g, h) == <<g, h>> \in R  InO(g, h) == <<g, h>> \in o
<1>5. /\ \A g, h : InR(g, h) => \E x, y : InO(x, y) /\ g = Now(x) /\ h = Now(y)
      /\ \A x, y : InO(x, y) => InR(Now(x), Now(y))
  <2>1. ASSUME NEW g, NEW h, InR(g, h) PROVE \E x, y : InO(x, y) /\ g = Now(x) /\ h = Now(y)
    <3>1. PICK e \in o : <<g, h>> = <<Now(e[1]), Now(e[2])>>
      BY <1>1, <2>1
    <3> HIDE DEF Now
    <3> QED  BY <1>4, <3>1
  <2>2. ASSUME NEW x, NEW y, InO(x, y) PROVE InR(Now(x), Now(y))
    BY <1>1, <2>2
  <2> HIDE DEF Now, InR, InO
  <2> QED  BY <2>1, <2>2
<1>6. R \subseteq ((F \ {t}) \cup {q}) \X ((F \ {t}) \cup {q})
  <2> SUFFICES ASSUME NEW e \in o PROVE <<Now(e[1]), Now(e[2])>> \in ((F \ {t}) \cup {q}) \X ((F \ {t}) \cup {q})
    BY <1>1
  <2> QED  BY <1>3, <1>4
<1>7. /\ \A g, h : InO(g, h) => g \in F \ {q} /\ h \in F \ {q}
      /\ \A g, h \in F \ {q} : InO(g, h) <=> g # h /\ ~InO(h, g)
  BY <1>2, <1>3 DEF Ranked
<1> HIDE DEF InR, InO
<1>8. ASSUME NEW g \in (F \ {t}) \cup {q}, NEW h \in (F \ {t}) \cup {q}
      PROVE  InR(g, h) <=> g # h /\ ~InR(h, g)
  <2> DEFINE x == IF g = q THEN t ELSE g  y == IF h = q THEN t ELSE h
  <2>1. x \in F \ {q} /\ y \in F \ {q} /\ (g = h <=> x = y) /\ Now(x) = g /\ Now(y) = h
    BY <1>2
  <2>2. \A z \in F \ {q} : (g = Now(z) => x = z) /\ (h = Now(z) => y = z)
    BY <1>2
  <2> HIDE DEF x, y, Now
  <2>3. ASSUME InR(g, h) PROVE InO(x, y)
    <3>1. PICK v, w : InO(v, w) /\ g = Now(v) /\ h = Now(w)
      BY <1>5, <2>3
    <3>2. x = v /\ y = w
      BY <1>7, <2>2, <3>1
    <3> QED  BY <3>1, <3>2
  <2>5. ASSUME InR(h, g) PROVE InO(y, x)
    <3>1. PICK v, w : InO(v, w) /\ h = Now(v) /\ g = Now(w)
      BY <1>5, <2>5
    <3>2. x = w /\ y = v
      BY <1>7, <2>2, <3>1
    <3> QED  BY <3>1, <3>2
  <2>4. (InO(x, y) => InR(g, h)) /\ (InO(y, x) => InR(h, g))
    BY <1>5, <2>1
  <2> QED  BY <1>7, <2>1, <2>3, <2>4, <2>5
<1>9. \A g, h \in (F \ {t}) \cup {q} : <<g, h>> \in R <=> g # h /\ <<h, g>> \notin R
  BY <1>8 DEF InR
<1> QED  BY <1>6, <1>9 DEF Ranked, F, R, t, q

\* Every step leaves the files ranked.
LEMMA NextRanked == CacheInv /\ Ranked(older, Files) /\ [CacheNext]_cvars => Ranked(older, Files)'
<1> SUFFICES ASSUME CacheInv, Ranked(older, Files), [CacheNext]_cvars PROVE Ranked(older', Files')
  BY DEF Ranked
<1>0. path \in Contents /\ temp \in Contents /\ NoFile \notin Entry \cup {Torn} /\ \A p \in Procs : CallKind(op[p])
  BY CacheAssumption DEF CacheInv, CacheKinds
<1>f. \A f : f \in Files' <=> \E k \in Keys : (f = Temp(k) /\ temp'[k] # NoFile) \/ (f = Path(k) /\ path'[k] # NoFile)
  BY DEF Files, Temp, Path
<1>e. \A f : f \in Files <=> \E k \in Keys : (f = Temp(k) /\ temp[k] # NoFile) \/ (f = Path(k) /\ path[k] # NoFile)
  BY DEF Files, Temp, Path
<1>1. ASSUME NEW p \in Procs, OpenTmp(p) PROVE Ranked(older', Files')
  <2>1. PICK k \in Keys : temp' = [temp EXCEPT ![k] = Opened(@)] /\ older' = Modified(Temp(k)) /\ path' = path
    BY <1>1 DEF OpenTmp
  <2>2. \A j \in Keys : temp'[j] = IF j = k THEN Torn ELSE temp[j]
    BY <1>0, <2>1 DEF Contents, Opened
  <2>3. Files' = Files \cup {Temp(k)}
    BY <1>0, <1>e, <1>f, <2>1, <2>2, FileNames
  <2> QED  BY <2>1, <2>3, WrittenIsRanked
<1>2. ASSUME NEW p \in Procs, WriteTmp(p) PROVE Ranked(older', Files')
  <2> DEFINE k == op[p].key
  <2>1. k \in Keys /\ op[p].entry \in Entry
    BY <1>0, <1>2 DEF WriteTmp, CallKind
  <2>2. CASE op[p].fd = "temp"
    <3>1. PICK e \in Laid(temp[k], op[p].entry) : temp' = [temp EXCEPT ![k] = e] /\ older' = Modified(Temp(k)) /\ path' = path
      BY <1>2, <2>2 DEF WriteTmp
    <3>2. e # NoFile /\ \A j \in Keys : temp'[j] = IF j = k THEN e ELSE temp[j]
      BY <1>0, <2>1, <3>1 DEF Contents, Laid
    <3>3. Files' = Files \cup {Temp(k)}
      BY <1>e, <1>f, <2>1, <3>1, <3>2, FileNames
    <3> QED  BY <3>1, <3>3, WrittenIsRanked
  <2>3. CASE op[p].fd = "path"
    <3>1. PICK e \in Laid(path[k], op[p].entry) : path' = [path EXCEPT ![k] = e] /\ older' = Modified(Path(k)) /\ temp' = temp
      BY <1>2, <2>3 DEF WriteTmp
    <3>2. e # NoFile /\ \A j \in Keys : path'[j] = IF j = k THEN e ELSE path[j]
      BY <1>0, <2>1, <3>1 DEF Contents, Laid
    <3>3. Files' = Files \cup {Path(k)}
      BY <1>e, <1>f, <2>1, <3>1, <3>2, FileNames
    <3> QED  BY <3>1, <3>3, WrittenIsRanked
  <2>4. CASE op[p].fd = "gone"
    BY <1>2, <2>4, <1>e, <1>f DEF WriteTmp
  <2> QED  BY <1>0, <2>2, <2>3, <2>4 DEF CallKind
<1>3. ASSUME NEW p \in Procs, Rename(p) PROVE Ranked(older', Files')
  <2> DEFINE k == op[p].key
  <2>1. k \in Keys
    BY <1>0, <1>3 DEF Rename, CallKind
  <2>2. CASE temp[k] = NoFile
    BY <1>3, <2>2, <1>e, <1>f DEF Rename
  <2>3. CASE temp[k] # NoFile
    <3>1. path' = [path EXCEPT ![k] = temp[k]] /\ temp' = [temp EXCEPT ![k] = NoFile] /\ older' = Renamed(k)
      BY <1>3, <2>3 DEF Rename
    <3>2. /\ \A j \in Keys : path'[j] = IF j = k THEN temp[k] ELSE path[j]
          /\ \A j \in Keys : temp'[j] = IF j = k THEN NoFile ELSE temp[j]
      BY <1>0, <3>1 DEF Contents
    <3>3. Files' = (Files \ {Temp(k)}) \cup {Path(k)}
      BY <1>e, <1>f, <2>1, <2>3, <3>2, FileNames
    <3>4. Temp(k) \in Files
      BY <1>e, <2>1, <2>3
    <3> QED  BY <2>1, <3>1, <3>3, <3>4, RenamedIsRanked
  <2> QED  BY <2>2, <2>3
<1>4. ASSUME NEW K, Without(K), older' = OlderWithout({Path(k) : k \in K}), temp' = temp PROVE Ranked(older', Files')
  <2>1. \A j \in Keys : path'[j] = IF j \in K THEN NoFile ELSE path[j]
    BY <1>4 DEF Without
  <2>2. Files' = Files \ {Path(k) : k \in K}
    BY <1>e, <1>f, <1>4, <2>1, FileNames
  <2> QED  BY <1>4, <2>2, RestIsRanked
<1>5. ASSUME NEW p \in Procs, RemoveFiles(p) PROVE Ranked(older', Files')
  BY <1>4, <1>5 DEF RemoveFiles
<1>6. ASSUME NEW p \in Procs, NEW k \in Keys, DeleteEntry(p, k) PROVE Ranked(older', Files')
  <2>1. {Path(j) : j \in {k}} = {Path(k)}
    OBVIOUS
  <2> QED  BY <1>4, <1>6, <2>1 DEF DeleteEntry
<1>7. ASSUME NEW p \in Procs, Purge(p) PROVE Ranked(older', Files')
  <2>1. older' = {} /\ \A k \in Keys : path'[k] = NoFile /\ temp'[k] = NoFile
    BY <1>7 DEF Purge, Without
  <2>2. Files' = {}
    BY <1>f, <2>1
  <2> QED  BY <2>1, <2>2 DEF Ranked
<1>8. ASSUME Expire PROVE Ranked(older', Files')
  <2> DEFINE Old(e) == IF e \in {NoFile, Torn} THEN e ELSE [e EXCEPT !.past = e.ttl]
  <2>1. path' = [k \in Keys |-> Old(path[k])] /\ temp' = temp /\ older' = older
    BY <1>8 DEF Expire
  <2>2. \A k \in Keys : Old(path[k]) = NoFile <=> path[k] = NoFile
    BY <1>0, StoredFacts DEF Contents
  <2> HIDE DEF Old
  <2>3. Files' = Files
    BY <1>e, <1>f, <2>1, <2>2
  <2> QED  BY <2>1, <2>3
<1>9. ASSUME UNCHANGED <<path, temp, older>> PROVE Ranked(older', Files')
  BY <1>9, <1>e, <1>f
<1>10. ASSUME NEW p \in Procs, ListFiles(p) \/ Crash(p) \/ \E k \in Keys : Get(p, k) PROVE UNCHANGED <<path, temp, older>>
  BY <1>10 DEF ListFiles, Crash, Get
<1> QED  BY <1>1, <1>2, <1>3, <1>5, <1>6, <1>7, <1>8, <1>9, <1>10 DEF CacheNext, cvars

\* For any keys, processes and values, the variables of the cache keep their kinds, and of any two
\* files one was modified before the other: the order by which the collection removes is total
\* (cache/cache.go:139).
THEOREM CacheTyped == CacheSpec => []CacheTypeOK
<1>1. CacheInit => Ranked(older, Files)
  BY DEF CacheInit, Ranked, Files
<1>2. CacheInv /\ Ranked(older, Files) => CacheTypeOK
  BY DEF CacheInv, CacheKinds, Contents, CallKind, CacheTypeOK, Ranked
<1> QED  BY <1>1, <1>2, InitCache, NextCache, NextRanked, PTL DEF CacheSpec

-----------------------------------------------------------------------------
(* The search index (Recall).                                              *)

\* Documents with stamps of their own, up to n.
Documents(d, n) ==
  /\ d = [s \in DOMAIN d |-> d[s]] /\ DOMAIN d \subseteq SessionIds /\ IsFiniteSet(DOMAIN d)
  /\ \A s \in DOMAIN d : d[s].at \in 1 .. n /\ d[s].terms \subseteq Terms
  /\ \A s, u \in DOMAIN d : d[s].at = d[u].at => s = u

IndexKind(x, n) ==
  /\ DOMAIN x = {"docs", "freq", "total", "torn"} /\ x = [f \in DOMAIN x |-> x[f]]
  /\ Documents(x.docs, n) /\ Cardinality(DOMAIN x.docs) <= MaxDocs
  /\ x.torn \in BOOLEAN /\ (~x.torn => x.total = Cardinality(DOMAIN x.docs))

\* The index counts for every term the documents that have it.
CountsRight(x, n) == IndexKind(x, n) /\ x.freq = Recount(x.docs)

SaveKind(v, n) ==
  \/ v = [at |-> "none"] \/ v = [at |-> "due"]
  \/ DOMAIN v = {"at", "x"} /\ v.at = "encode" /\ IndexKind(v.x, n)

RebuildKind(v, n) ==
  \/ v = [at |-> "none"]
  \/ DOMAIN v = {"at", "x", "todo"} /\ v.at = "read" /\ CountsRight(v.x, n) /\ v.todo \subseteq SessionIds

ProcessKind(r, n) ==
  \/ r = Off
  \/ /\ DOMAIN r = {"on", "session", "idx", "save", "fresh"} /\ r.on = TRUE /\ r.session \in SessionIds
     /\ CountsRight(r.idx, n) /\ SaveKind(r.save, n) /\ RebuildKind(r.fresh, n)

RecallInv ==
  /\ log \in [SessionIds -> Seq(Terms)] /\ stamps \in Nat
  /\ proc = [p \in Processes |-> proc[p]] /\ (\A p \in Processes : ProcessKind(proc[p], stamps))
  /\ IndexKind(gob, stamps)

\* What is newer stays: a document is dropped only for ones with later stamps.
DropsOldest(d, e) == \A s \in DOMAIN d \ DOMAIN e : \A u \in DOMAIN e : d[s].at < e[u].at

\* Time passes: later stamps bound what earlier ones do.
LEMMA LaterStamps ==
  ASSUME NEW n \in Nat, NEW m \in Nat, n <= m
  PROVE  /\ \A x : IndexKind(x, n) => IndexKind(x, m)
         /\ \A r : ProcessKind(r, n) => ProcessKind(r, m)
<1>1. \A d : Documents(d, n) => Documents(d, m)
  BY DEF Documents
<1>2. \A x : IndexKind(x, n) => IndexKind(x, m)
  BY <1>1 DEF IndexKind
<1>3. \A x : CountsRight(x, n) => CountsRight(x, m)
  BY <1>2 DEF CountsRight
<1>4. \A v : SaveKind(v, n) => SaveKind(v, m)
  BY <1>2 DEF SaveKind
<1>5. \A v : RebuildKind(v, n) => RebuildKind(v, m)
  BY <1>3 DEF RebuildKind
<1> QED  BY <1>2, <1>3, <1>4, <1>5 DEF ProcessKind

\* Some document has the earliest stamp.
LEMMA OldestFacts ==
  ASSUME NEW n \in Nat, NEW d, Documents(d, n), DOMAIN d # {}
  PROVE  Oldest(d) \in DOMAIN d /\ \A u \in DOMAIN d : d[Oldest(d)].at <= d[u].at
<1> DEFINE T == {0 .. d[s].at : s \in DOMAIN d}
<1>0. \A s \in DOMAIN d : d[s].at \in Nat
  BY DEF Documents
<1>1. \A s \in DOMAIN d : 0 .. d[s].at \in FiniteSubsetsOf(Nat)
  <2> SUFFICES ASSUME NEW s \in DOMAIN d PROVE 0 .. d[s].at \in FiniteSubsetsOf(Nat)
    OBVIOUS
  <2>1. d[s].at \in Int /\ 0 \in Int
    BY <1>0
  <2>2. IsFiniteSet(0 .. d[s].at)
    BY <2>1, FS_Interval
  <2>3. 0 .. d[s].at \in SUBSET Nat
    BY <2>1
  <2> QED  BY <2>2, <2>3 DEF FiniteSubsetsOf
<1>2. T \subseteq FiniteSubsetsOf(Nat) /\ T # {}
  BY <1>1
<1>3. PICK x \in T : \A y \in T : ~(<<y, x>> \in StrictSubsetOrdering(Nat))
  <2>1. IsWellFoundedOn(StrictSubsetOrdering(Nat), FiniteSubsetsOf(Nat))
    BY FS_StrictSubsetOrderingWellFounded
  <2> HIDE DEF T
  <2> QED  BY <1>2, <2>1, WFMin
<1>4. PICK s \in DOMAIN d : x = 0 .. d[s].at
  BY <1>3
<1>5. ASSUME NEW u \in DOMAIN d PROVE d[s].at <= d[u].at
  <2> DEFINE a == d[s].at  b == d[u].at
  <2>1. a \in Nat /\ b \in Nat
    BY <1>0
  <2>2. 0 .. b \in T
    OBVIOUS
  <2>3. ~(<<0 .. b, 0 .. a>> \in StrictSubsetOrdering(Nat))
    BY <1>3, <1>4, <2>2
  <2> HIDE DEF a, b, T
  <2>4. ASSUME b < a PROVE FALSE
    <3>1. 0 .. b \subseteq 0 .. a /\ a \in 0 .. a /\ a \notin 0 .. b
      BY <2>1, <2>4
    <3>2. 0 .. b \in SUBSET Nat /\ 0 .. a \in SUBSET Nat
      BY <2>1
    <3>3. <<0 .. b, 0 .. a>> \in StrictSubsetOrdering(Nat)
      BY <3>1, <3>2 DEF StrictSubsetOrdering
    <3> QED  BY <2>3, <3>3
  <2>5. a <= b
    BY <2>1, <2>4
  <2> QED  BY <2>5 DEF a, b
<1>6. \E o \in DOMAIN d : \A u \in DOMAIN d : d[o].at <= d[u].at
  BY <1>5
<1> QED  BY <1>6, Zenon DEF Oldest

\* What an index holds of the sessions that have a term.
Having(d, t) == {s \in DOMAIN d : t \in d[s].terms}

\* A document that goes is no longer counted.
LEMMA RemovedFacts ==
  ASSUME NEW n \in Nat, NEW x, DOMAIN x = {"docs", "freq", "total", "torn"}, x = [f \in DOMAIN x |-> x[f]],
         Documents(x.docs, n), x.freq = Recount(x.docs), ~x.torn => x.total = Cardinality(DOMAIN x.docs), NEW s
  PROVE  LET y == RemoveDoc(x, s) IN
         /\ DOMAIN y = {"docs", "freq", "total", "torn"} /\ y = [f \in DOMAIN y |-> y[f]]
         /\ DOMAIN y.docs = DOMAIN x.docs \ {s} /\ (\A u \in DOMAIN y.docs : y.docs[u] = x.docs[u])
         /\ Documents(y.docs, n) /\ y.freq = Recount(y.docs) /\ y.torn = x.torn
         /\ ~y.torn => y.total = Cardinality(DOMAIN y.docs)
<1> DEFINE y == RemoveDoc(x, s)
<1>1. CASE s \notin DOMAIN x.docs
  BY <1>1 DEF RemoveDoc
<1>2. CASE s \in DOMAIN x.docs
  <2> DEFINE d == x.docs  e == Restrict(d, DOMAIN d \ {s})
  <2>1. y = [x EXCEPT !.docs = e, !.freq = Minus(x.freq, d[s].terms), !.total = x.total - 1]
    BY <1>2 DEF RemoveDoc
  <2>2. /\ DOMAIN y = {"docs", "freq", "total", "torn"} /\ y = [f \in DOMAIN y |-> y[f]]
        /\ y.docs = e /\ y.freq = Minus(x.freq, d[s].terms) /\ y.total = x.total - 1 /\ y.torn = x.torn
    BY <2>1
  <2>3. DOMAIN e = DOMAIN d \ {s} /\ (\A u \in DOMAIN e : e[u] = d[u]) /\ e = [u \in DOMAIN e |-> e[u]]
    BY DEF Restrict
  <2>4. /\ IsFiniteSet(DOMAIN d) /\ IsFiniteSet(DOMAIN e) /\ Cardinality(DOMAIN d) \in Nat
        /\ Cardinality(DOMAIN e) = Cardinality(DOMAIN d) - 1
    BY <1>2, <2>3, FS_RemoveElement, FS_CardinalityType DEF Documents
  <2>5. Documents(e, n)
    <3> HIDE DEF e
    <3> QED  BY <2>3, <2>4 DEF Documents
  <2>6. ~y.torn => y.total = Cardinality(DOMAIN e)
    BY <2>2, <2>4
  <2>7. y.freq = Recount(e)
    <3>1. ASSUME NEW t \in Terms
          PROVE  (IF t \in d[s].terms /\ x.freq[t] > 0 THEN x.freq[t] - 1 ELSE x.freq[t]) = Cardinality(Having(e, t))
      <4>1. x.freq[t] = Cardinality(Having(d, t))
        BY DEF Recount, Having
      <4>2. IsFiniteSet(Having(d, t)) /\ Cardinality(Having(d, t)) \in Nat
        <5>1. Having(d, t) \in SUBSET DOMAIN d
          BY DEF Having
        <5>2. IsFiniteSet(Having(d, t))
          BY <2>4, <5>1, FS_Subset
        <5> QED  BY <5>2, FS_CardinalityType
      <4>3. Having(e, t) = Having(d, t) \ {s}
        BY <2>3 DEF Having
      <4>4. s \in Having(d, t) <=> t \in d[s].terms
        BY <1>2 DEF Having
      <4>5. Cardinality(Having(e, t)) = IF s \in Having(d, t) THEN Cardinality(Having(d, t)) - 1
                                                              ELSE Cardinality(Having(d, t))
        BY <4>2, <4>3, FS_RemoveElement
      <4>6. s \in Having(d, t) => Cardinality(Having(d, t)) # 0
        BY <4>2, FS_EmptySet
      <4> QED  BY ONLY <4>1, <4>2, <4>4, <4>5, <4>6
    <3>2. Minus(x.freq, d[s].terms) = [t \in Terms |-> Cardinality(Having(e, t))]
      BY <3>1 DEF Minus
    <3> QED  BY <2>2, <3>2 DEF Recount, Having
  <2> HIDE DEF e
  <2> QED  BY <2>2, <2>3, <2>5, <2>6, <2>7
<1> QED  BY <1>1, <1>2

\* Adding a document keeps an index counted and within its cap; the one added is in it, and the one
\* that goes for it, if any, is the oldest.
LEMMA AddedFacts ==
  ASSUME NEW n \in Nat, NEW x, CountsRight(x, n), NEW s \in SessionIds, NEW terms \in SUBSET Terms
  PROVE  LET z == AddDocument(x, s, terms, n + 1) IN
         /\ CountsRight(z, n + 1) /\ z.torn = x.torn
         /\ terms # {} => s \in DOMAIN z.docs
         /\ DropsOldest(x.docs, z.docs)
<1> DEFINE z == AddDocument(x, s, terms, n + 1)
<1>0. /\ DOMAIN x = {"docs", "freq", "total", "torn"} /\ x = [f \in DOMAIN x |-> x[f]] /\ Documents(x.docs, n)
      /\ x.freq = Recount(x.docs) /\ x.torn \in BOOLEAN /\ (~x.torn => x.total = Cardinality(DOMAIN x.docs))
      /\ Cardinality(DOMAIN x.docs) <= MaxDocs /\ n + 1 \in Nat /\ n <= n + 1 /\ MaxDocs \in Nat /\ MaxDocs > 0
  BY RecallAssumption DEF CountsRight, IndexKind
<1>1. CASE terms = {}
  <2>1. z = x /\ CountsRight(x, n + 1)
    BY <1>0, <1>1, LaterStamps DEF AddDocument, CountsRight
  <2> QED  BY <1>1, <2>1 DEF DropsOldest
<1>2. CASE terms # {}
  <2> DEFINE y == RemoveDoc(x, s)
             e == [u \in DOMAIN y.docs \cup {s} |-> IF u = s THEN [terms |-> terms, at |-> n + 1] ELSE y.docs[u]]
             w == [y EXCEPT !.docs = e, !.freq = Plus(y.freq, terms), !.total = y.total + 1]
  <2>1. z = PruneOldest(w)
    BY <1>2 DEF AddDocument
  <2>2. /\ DOMAIN y = {"docs", "freq", "total", "torn"} /\ y = [f \in DOMAIN y |-> y[f]]
        /\ DOMAIN y.docs = DOMAIN x.docs \ {s} /\ (\A u \in DOMAIN y.docs : y.docs[u] = x.docs[u])
        /\ Documents(y.docs, n) /\ y.freq = Recount(y.docs) /\ y.torn = x.torn
        /\ (~y.torn => y.total = Cardinality(DOMAIN y.docs))
    <3> HIDE DEF y
    <3> QED  BY <1>0, RemovedFacts DEF y
  <2> HIDE DEF y
  <2>3. /\ DOMAIN w = {"docs", "freq", "total", "torn"} /\ w = [f \in DOMAIN w |-> w[f]]
        /\ w.docs = e /\ w.freq = Plus(y.freq, terms) /\ w.total = y.total + 1 /\ w.torn = x.torn
    BY <2>2
  <2>4. /\ DOMAIN e = DOMAIN x.docs \cup {s} /\ e = [u \in DOMAIN e |-> e[u]]
        /\ e[s].terms = terms /\ e[s].at = n + 1
        /\ \A u \in DOMAIN e : u # s => e[u] = x.docs[u] /\ u \in DOMAIN x.docs
    BY <2>2
  <2> HIDE DEF e
  <2>5. /\ IsFiniteSet(DOMAIN y.docs) /\ IsFiniteSet(DOMAIN e) /\ Cardinality(DOMAIN y.docs) \in Nat
        /\ Cardinality(DOMAIN e) = Cardinality(DOMAIN y.docs) + 1 /\ DOMAIN e = DOMAIN y.docs \cup {s}
    <3>1. IsFiniteSet(DOMAIN y.docs) /\ DOMAIN e = DOMAIN y.docs \cup {s} /\ s \notin DOMAIN y.docs
      BY <2>2, <2>4 DEF Documents
    <3> QED  BY <3>1, FS_AddElement, FS_CardinalityType
  <2>6. /\ IsFiniteSet(DOMAIN x.docs) /\ Cardinality(DOMAIN x.docs) \in Nat
        /\ Cardinality(DOMAIN e) <= MaxDocs + 1
        /\ s \in DOMAIN x.docs => Cardinality(DOMAIN e) <= MaxDocs
    <3>1. IsFiniteSet(DOMAIN x.docs)
      BY <1>0 DEF Documents
    <3>2. Cardinality(DOMAIN x.docs) \in Nat
      BY <3>1, FS_CardinalityType
    <3>3. Cardinality(DOMAIN e) = IF s \in DOMAIN x.docs THEN Cardinality(DOMAIN x.docs) ELSE Cardinality(DOMAIN x.docs) + 1
      BY <2>4, <3>1, FS_AddElement
    <3> QED  BY <1>0, <3>1, <3>2, <3>3
  <2>7. Documents(e, n + 1)
    <3>1. \A u \in DOMAIN e : u # s => e[u].at \in 1 .. n
      BY <1>0, <2>4 DEF Documents
    <3>2. \A u \in DOMAIN e : e[u].at \in 1 .. n + 1 /\ e[u].terms \subseteq Terms
      BY <1>0, <2>4, <3>1 DEF Documents
    <3>3. ASSUME NEW u \in DOMAIN e, NEW v \in DOMAIN e, e[u].at = e[v].at PROVE u = v
      <4>1. CASE u = s \/ v = s
        BY <2>4, <3>1, <3>3, <4>1
      <4>2. CASE u # s /\ v # s
        BY <1>0, <2>4, <3>3, <4>2 DEF Documents
      <4> QED  BY <4>1, <4>2
    <3>4. DOMAIN e \subseteq SessionIds
      BY <1>0, <2>4 DEF Documents
    <3> QED  BY <2>4, <2>5, <3>2, <3>3, <3>4 DEF Documents
  <2>8. w.freq = Recount(e)
    <3>1. ASSUME NEW t \in Terms
          PROVE  (IF t \in terms THEN y.freq[t] + 1 ELSE y.freq[t]) = Cardinality(Having(e, t))
      <4>1. y.freq[t] = Cardinality(Having(y.docs, t))
        BY <2>2 DEF Recount, Having
      <4>2. IsFiniteSet(Having(y.docs, t))
        <5>1. Having(y.docs, t) \in SUBSET DOMAIN y.docs
          BY DEF Having
        <5> QED  BY <2>5, <5>1, FS_Subset
      <4>3. s \notin Having(y.docs, t)
        BY <2>2 DEF Having
      <4>4. Having(e, t) = IF t \in terms THEN Having(y.docs, t) \cup {s} ELSE Having(y.docs, t)
        BY <2>2, <2>4, <2>5 DEF Having
      <4>5. Cardinality(Having(y.docs, t) \cup {s}) = Cardinality(Having(y.docs, t)) + 1
        BY <4>2, <4>3, FS_AddElement
      <4> QED  BY ONLY <4>1, <4>4, <4>5
    <3>2. Plus(y.freq, terms) = [t \in Terms |-> Cardinality(Having(e, t))]
      BY <3>1 DEF Plus
    <3> QED  BY <2>3, <3>2 DEF Recount, Having
  <2>9. ~w.torn => w.total = Cardinality(DOMAIN e)
    BY <2>2, <2>3, <2>5
  <2> HIDE DEF w
  <2>10. CASE Cardinality(DOMAIN e) <= MaxDocs
    <3>1. z = w
      BY <2>1, <2>3, <2>10 DEF PruneOldest
    <3>2. CountsRight(w, n + 1)
      BY <1>0, <2>3, <2>7, <2>8, <2>9, <2>10 DEF CountsRight, IndexKind
    <3> QED  BY <2>3, <2>4, <3>1, <3>2 DEF DropsOldest
  <2>11. CASE ~(Cardinality(DOMAIN e) <= MaxDocs)
    <3> DEFINE o == Oldest(e)  q == RemoveDoc(w, o)
    <3>1. z = q
      BY <2>1, <2>3, <2>11 DEF PruneOldest
    <3>2. o \in DOMAIN e /\ \A u \in DOMAIN e : e[o].at <= e[u].at
      BY <1>0, <2>4, <2>7, OldestFacts
    <3>3. o # s
      <4>1. s \notin DOMAIN x.docs /\ Cardinality(DOMAIN e) = MaxDocs + 1
        <5>1. s \notin DOMAIN x.docs
          BY <2>6, <2>11
        <5>2. Cardinality(DOMAIN e) \in Nat
          BY <2>5, FS_CardinalityType
        <5> QED  BY <1>0, <2>6, <2>11, <5>1, <5>2
      <4>2. DOMAIN x.docs # {}
        <5>1. DOMAIN x.docs = {} => Cardinality(DOMAIN e) = 1
          <6>1. DOMAIN x.docs = {} => DOMAIN e = {s}
            BY <2>4
          <6> QED  BY ONLY <6>1, FS_Singleton
        <5> QED  BY <1>0, <4>1, <5>1
      <4>3. PICK u \in DOMAIN x.docs : TRUE
        BY <4>2
      <4>4. u # s /\ u \in DOMAIN e /\ e[u].at \in 1 .. n
        BY <1>0, <2>4, <4>1 DEF Documents
      <4> QED  BY <2>4, <3>2, <4>4
    <3> HIDE DEF o
    <3>4. /\ DOMAIN q = {"docs", "freq", "total", "torn"} /\ q = [f \in DOMAIN q |-> q[f]]
          /\ DOMAIN q.docs = DOMAIN e \ {o} /\ (\A u \in DOMAIN q.docs : q.docs[u] = e[u])
          /\ Documents(q.docs, n + 1) /\ q.freq = Recount(q.docs) /\ q.torn = w.torn
          /\ (~q.torn => q.total = Cardinality(DOMAIN q.docs))
      <4> HIDE DEF q
      <4> QED  BY <1>0, <2>3, <2>7, <2>8, <2>9, RemovedFacts DEF q
    <3> HIDE DEF q
    <3>5. Cardinality(DOMAIN q.docs) <= MaxDocs
      <4>1. Cardinality(DOMAIN q.docs) = Cardinality(DOMAIN e) - 1 /\ Cardinality(DOMAIN e) \in Nat
        BY <2>5, <3>2, <3>4, FS_RemoveElement, FS_CardinalityType
      <4> QED  BY <1>0, <2>6, <4>1
    <3>6. CountsRight(q, n + 1)
      BY <1>0, <2>3, <3>4, <3>5 DEF CountsRight, IndexKind
    <3>7. ASSUME NEW v \in DOMAIN x.docs \ DOMAIN q.docs, NEW u \in DOMAIN q.docs PROVE x.docs[v].at < q.docs[u].at
      <4>1. v = o /\ x.docs[v] = e[o] /\ u \in DOMAIN e /\ u # o /\ q.docs[u] = e[u]
        BY <2>4, <3>3, <3>4, <3>7
      <4>2. e[o].at \in Nat /\ e[u].at \in Nat /\ e[o].at # e[u].at /\ e[o].at <= e[u].at
        BY <2>7, <3>2, <4>1 DEF Documents
      <4> QED  BY <4>1, <4>2
    <3>8. s \in DOMAIN q.docs
      BY <2>4, <3>3, <3>4
    <3> QED  BY <2>3, <3>1, <3>4, <3>6, <3>7, <3>8 DEF DropsOldest
  <2> QED  BY <2>10, <2>11
<1> QED  BY <1>1, <1>2

\* An empty index, and one read back from the file.
LEMMA IndexFacts ==
  /\ \A n \in Nat : CountsRight(NewIndex, n)
  /\ \A n \in Nat : \A g : IndexKind(g, n) => CountsRight(LoadIndex(g), n)
<1>1. ASSUME NEW n \in Nat PROVE CountsRight(NewIndex, n)
  <2>1. DOMAIN NoDocs = {} /\ NoDocs = [s \in DOMAIN NoDocs |-> NoDocs[s]]
    BY DEF NoDocs
  <2>2. IsFiniteSet({}) /\ Cardinality({}) = 0 /\ 0 <= MaxDocs
    BY FS_EmptySet, RecallAssumption
  <2>3. /\ NewIndex.docs = NoDocs /\ NewIndex.freq = Recount(NoDocs) /\ NewIndex.total = 0 /\ NewIndex.torn = FALSE
        /\ DOMAIN NewIndex = {"docs", "freq", "total", "torn"} /\ NewIndex = [f \in DOMAIN NewIndex |-> NewIndex[f]]
    BY DEF NewIndex
  <2>4. Documents(NoDocs, n)
    BY <2>1, <2>2 DEF Documents
  <2> QED  BY <2>1, <2>2, <2>3, <2>4 DEF CountsRight, IndexKind
<1>2. ASSUME NEW n \in Nat, NEW g, IndexKind(g, n) PROVE CountsRight(LoadIndex(g), n)
  BY <1>2 DEF CountsRight, IndexKind, LoadIndex
<1> QED  BY <1>1, <1>2

\* A step of one process that leaves it, the file and the log as they should be keeps the invariant.
LEMMA ProcessStep ==
  ASSUME RecallInv, NEW p \in Processes, NEW r, proc' = [proc EXCEPT ![p] = r],
         log' \in [SessionIds -> Seq(Terms)], stamps' \in Nat, stamps <= stamps',
         ProcessKind(r, stamps'), IndexKind(gob', stamps')
  PROVE  RecallInv'
<1>1. stamps \in Nat /\ (\A q \in Processes : ProcessKind(proc[q], stamps)) /\ proc = [q \in Processes |-> proc[q]]
  BY DEF RecallInv
<1>2. \A q \in Processes : ProcessKind(proc[q], stamps')
  BY <1>1, LaterStamps
<1>3. \A q \in Processes : ProcessKind(proc'[q], stamps')
  BY <1>1, <1>2
<1>4. proc' = [q \in Processes |-> proc'[q]]
  BY <1>1
<1> QED  BY <1>3, <1>4 DEF RecallInv, ProcessKind, SaveKind, RebuildKind, CountsRight, IndexKind, Documents, Recount, Off

\* What is known of a process that runs.
LEMMA RunningFacts ==
  ASSUME RecallInv, NEW p \in Processes, proc[p].on
  PROVE  /\ DOMAIN proc[p] = {"on", "session", "idx", "save", "fresh"} /\ proc[p].on = TRUE
         /\ proc[p].session \in SessionIds /\ CountsRight(proc[p].idx, stamps)
         /\ SaveKind(proc[p].save, stamps) /\ RebuildKind(proc[p].fresh, stamps)
         /\ log \in [SessionIds -> Seq(Terms)] /\ stamps \in Nat /\ stamps + 1 \in Nat /\ stamps <= stamps + 1
         /\ IndexKind(gob, stamps) /\ IndexKind(gob, stamps + 1)
<1>1. ProcessKind(proc[p], stamps) /\ proc[p] # Off
  BY DEF RecallInv, Off
<1>2. log \in [SessionIds -> Seq(Terms)] /\ stamps \in Nat /\ stamps + 1 \in Nat /\ stamps <= stamps + 1
  BY DEF RecallInv
<1>3. IndexKind(gob, stamps)
  BY DEF RecallInv
<1>4. IndexKind(gob, stamps + 1)
  BY <1>2, <1>3, LaterStamps
<1> QED  BY <1>1, <1>2, <1>3, <1>4 DEF ProcessKind

\* A turn indexed keeps the invariant, and drops nothing but the oldest document.
LEMMA IndexTurnStep ==
  ASSUME RecallInv, NEW p \in Processes, IndexTurn(p)
  PROVE  /\ RecallInv'
         /\ proc'[p].on => /\ DropsOldest(proc[p].idx.docs, proc'[p].idx.docs)
                           /\ proc[p].session \in DOMAIN proc'[p].idx.docs
<1> DEFINE me == proc[p]  new == AddDocument(me.idx, me.session, Range(log[me.session]), stamps + 1)
<1>0. /\ DOMAIN me = {"on", "session", "idx", "save", "fresh"} /\ me.on = TRUE
      /\ me.session \in SessionIds /\ CountsRight(me.idx, stamps)
      /\ SaveKind(me.save, stamps) /\ RebuildKind(me.fresh, stamps)
      /\ log \in [SessionIds -> Seq(Terms)] /\ stamps \in Nat /\ stamps + 1 \in Nat /\ stamps <= stamps + 1
      /\ IndexKind(gob, stamps + 1)
  BY RunningFacts DEF IndexTurn
<1>1. stamps' = stamps + 1 /\ log' = log /\ gob' = gob /\ log[me.session] # <<>>
  BY DEF IndexTurn
<1>2. Range(log[me.session]) # {} /\ Range(log[me.session]) \subseteq Terms
  <2>1. log[me.session] \in Seq(Terms)
    BY <1>0
  <2>2. 1 \in DOMAIN log[me.session]
    BY <1>1, <2>1, EmptySeq, LenProperties
  <2>3. \A i \in DOMAIN log[me.session] : log[me.session][i] \in Terms
    BY <2>1, ElementOfSeq, LenProperties
  <2> QED  BY <2>2, <2>3 DEF Range
<1>3. CountsRight(new, stamps + 1) /\ me.session \in DOMAIN new.docs /\ DropsOldest(me.idx.docs, new.docs)
  BY <1>0, <1>2, AddedFacts
<1>4. /\ me.on /\ stamps' = stamps + 1
      /\ \/ /\ me.save.at \in {"none", "due"}
            /\ proc' = [proc EXCEPT ![p].idx = new, ![p].save = [at |-> "due"]]
         \/ /\ me.save.at = "encode"
            /\ \E seen \in {me.save.x.docs, new.docs} :
                  proc' = [proc EXCEPT ![p].idx = new, ![p].save.x.docs = seen,
                                       ![p].save.x.torn = me.save.x.torn \/ seen # me.save.x.docs]
         \/ me.save.at = "encode" /\ proc' = [proc EXCEPT ![p] = Off]
  BY DEF IndexTurn
<1>p. proc = [q \in Processes |-> proc[q]] /\ SaveKind(me.save, stamps + 1) /\ RebuildKind(me.fresh, stamps + 1)
  <2>1. ProcessKind(proc[p], stamps + 1)
    BY <1>0, LaterStamps DEF RecallInv
  <2> QED  BY <1>0, <2>1 DEF RecallInv, ProcessKind, Off
<1>5. CASE proc' = [proc EXCEPT ![p].idx = new, ![p].save = [at |-> "due"]]
  <2> DEFINE r == [me EXCEPT !.idx = new, !.save = [at |-> "due"]]
  <2>1. proc' = [proc EXCEPT ![p] = r]
    BY <1>5
  <2>2. /\ DOMAIN r = {"on", "session", "idx", "save", "fresh"} /\ r.on = TRUE /\ r.session = me.session
        /\ r.idx = new /\ r.save = [at |-> "due"] /\ r.fresh = me.fresh
    BY <1>0
  <2> HIDE DEF r, new
  <2>3. ProcessKind(r, stamps + 1)
    BY <1>0, <1>3, <1>p, <2>2 DEF ProcessKind, SaveKind
  <2>4. RecallInv'
    BY <1>0, <1>1, <2>1, <2>3, ProcessStep
  <2>5. proc'[p].idx = new
    BY <1>p, <2>1, <2>2
  <2> QED  BY <1>3, <2>4, <2>5
<1>6. ASSUME me.save.at = "encode", NEW seen \in {me.save.x.docs, new.docs},
             NEW T, T = (me.save.x.torn \/ seen # me.save.x.docs),
             proc' = [proc EXCEPT ![p].idx = new, ![p].save.x.docs = seen, ![p].save.x.torn = T]
      PROVE  RecallInv' /\ proc'[p].idx = new
  <2> DEFINE x == me.save.x
             y == [x EXCEPT !.docs = seen, !.torn = T]
             v == [me.save EXCEPT !.x = y]
             r == [me EXCEPT !.idx = new, !.save = v]
  <2>s. seen \in {x.docs, new.docs} /\ me.save.at = "encode" /\ T = (x.torn \/ seen # x.docs)
    BY <1>6
  <2>1. IndexKind(x, stamps + 1) /\ DOMAIN me.save = {"at", "x"}
    BY ONLY <2>s, <1>p DEF SaveKind
  <2>2. DOMAIN x = {"docs", "freq", "total", "torn"} /\ x = [f \in DOMAIN x |-> x[f]] /\ x.torn \in BOOLEAN
    BY <2>1 DEF IndexKind
  <2>3. proc' = [proc EXCEPT ![p] = r]
    <3>1. DOMAIN me = {"on", "session", "idx", "save", "fresh"} /\ DOMAIN proc = Processes
      BY <1>0, <1>p
    <3> DEFINE m == [[[me EXCEPT !.idx = new] EXCEPT !.save.x.docs = seen] EXCEPT !.save.x.torn = T]
    <3>2. m = r
      <4> HIDE DEF new
      <4>1. [[me EXCEPT !.idx = new] EXCEPT !.save.x.docs = seen]
              = [me EXCEPT !.idx = new, !.save = [me.save EXCEPT !.x = [x EXCEPT !.docs = seen]]]
        BY ONLY <2>1, <2>2, <3>1
      <4>2. m = [me EXCEPT !.idx = new, !.save = [me.save EXCEPT !.x = [[x EXCEPT !.docs = seen] EXCEPT !.torn = T]]]
        BY ONLY <2>1, <2>2, <3>1, <4>1
      <4> QED  BY ONLY <2>1, <2>2, <3>1, <4>2
    <3>3. proc' = [proc EXCEPT ![p] = m]
      <4>1. proc' = [proc EXCEPT ![p].idx = new, ![p].save.x.docs = seen, ![p].save.x.torn = T]
        BY <1>6
      <4>2. DOMAIN me.save = {"at", "x"}
        BY <2>1
      <4> HIDE DEF new
      <4> QED  BY ONLY <3>1, <4>1, <4>2
    <3> QED  BY <3>2, <3>3
  <2>4. /\ DOMAIN r = {"on", "session", "idx", "save", "fresh"} /\ r.on = TRUE /\ r.session = me.session
        /\ r.idx = new /\ r.save = v /\ r.fresh = me.fresh
    BY <1>0
  <2>5. DOMAIN v = {"at", "x"} /\ v.at = "encode" /\ v.x = y
    BY <1>6, <2>1
  <2>6. /\ DOMAIN y = {"docs", "freq", "total", "torn"} /\ y = [f \in DOMAIN y |-> y[f]]
        /\ y.docs = seen /\ y.torn = T /\ y.total = x.total
    BY <2>2
  <2>7. IndexKind(y, stamps + 1)
    <3>1. IndexKind(new, stamps + 1)
      BY <1>3 DEF CountsRight
    <3> HIDE DEF y, new, x
    <3> QED  BY <2>s, <2>1, <2>6, <3>1 DEF IndexKind
  <2> HIDE DEF r, v, y, x, new
  <2>8. ProcessKind(r, stamps + 1)
    BY <1>0, <1>3, <1>p, <2>4, <2>5, <2>7 DEF ProcessKind, SaveKind
  <2>9. RecallInv'
    BY <1>0, <1>1, <2>3, <2>8, ProcessStep
  <2> QED  BY <1>p, <2>3, <2>4, <2>9
<1>7. CASE proc' = [proc EXCEPT ![p] = Off]
  <2>1. RecallInv'
    BY <1>0, <1>1, <1>7, ProcessStep DEF ProcessKind
  <2>2. proc'[p] = Off
    BY <1>p, <1>7
  <2> QED  BY <2>1, <2>2 DEF Off
<1> QED  BY <1>3, <1>4, <1>5, <1>6, <1>7

\* A session read by a rebuild.
LEMMA RebuildReadsStep ==
  ASSUME RecallInv, NEW p \in Processes, RebuildReads(p)
  PROVE  RecallInv' /\ proc'[p].idx = proc[p].idx /\ proc'[p].save = proc[p].save
<1> DEFINE me == proc[p]
<1>0. /\ DOMAIN me = {"on", "session", "idx", "save", "fresh"} /\ me.on = TRUE
      /\ me.session \in SessionIds /\ CountsRight(me.idx, stamps)
      /\ SaveKind(me.save, stamps) /\ RebuildKind(me.fresh, stamps)
      /\ log \in [SessionIds -> Seq(Terms)] /\ stamps \in Nat /\ stamps + 1 \in Nat /\ stamps <= stamps + 1
      /\ IndexKind(gob, stamps + 1)
  BY RunningFacts DEF RebuildReads
<1>1. stamps' = stamps + 1 /\ log' = log /\ gob' = gob /\ me.fresh.at = "read"
  BY DEF RebuildReads
<1>2. PICK s \in me.fresh.todo, ok \in BOOLEAN :
        proc' = [proc EXCEPT ![p].fresh.todo = @ \ {s},
                             ![p].fresh.x = IF ok THEN AddDocument(@, s, SessionTerms(s), stamps + 1) ELSE @]
  BY DEF RebuildReads
<1>3. DOMAIN me.fresh = {"at", "x", "todo"} /\ CountsRight(me.fresh.x, stamps) /\ me.fresh.todo \subseteq SessionIds
  BY <1>0, <1>1 DEF RebuildKind
<1>4. proc = [q \in Processes |-> proc[q]] /\ SaveKind(me.save, stamps + 1) /\ CountsRight(me.idx, stamps + 1)
      /\ RebuildKind(me.fresh, stamps + 1)
  <2>1. ProcessKind(proc[p], stamps + 1)
    BY <1>0, LaterStamps DEF RecallInv
  <2> QED  BY <1>0, <2>1 DEF RecallInv, ProcessKind, Off
<1> DEFINE x == IF ok THEN AddDocument(me.fresh.x, s, SessionTerms(s), stamps + 1) ELSE me.fresh.x
           v == [me.fresh EXCEPT !.todo = me.fresh.todo \ {s}, !.x = x]
           r == [me EXCEPT !.fresh = v]
<1>5. CountsRight(x, stamps + 1)
  <2>1. s \in SessionIds
    BY <1>2, <1>3
  <2>t. SessionTerms(s) \subseteq Terms
    <3> DEFINE m == IF Len(log[s]) < MaxTerms THEN Len(log[s]) ELSE MaxTerms
    <3>1. log[s] \in Seq(Terms) /\ Len(log[s]) \in Nat /\ MaxTerms \in Nat
      BY <1>0, <2>1, RecallAssumption, LenProperties
    <3>2. m \in Int /\ 1 \in Int /\ m <= Len(log[s])
      BY <3>1
    <3>3. \A i \in 1 .. m : log[s][i] \in Terms
      BY <3>1, <3>2, ElementOfSeq
    <3> HIDE DEF m
    <3>4. SubSeq(log[s], 1, m) \in Seq(Terms)
      BY <3>2, <3>3, SubSeqProperties
    <3>5. Range(SubSeq(log[s], 1, m)) \subseteq Terms
      BY <3>4, ElementOfSeq, LenProperties DEF Range
    <3> QED  BY <3>5 DEF SessionTerms, m
  <2>2. CountsRight(AddDocument(me.fresh.x, s, SessionTerms(s), stamps + 1), stamps + 1)
    BY <1>0, <1>3, <2>1, <2>t, AddedFacts
  <2>3. CountsRight(me.fresh.x, stamps + 1)
    BY <1>1, <1>4 DEF RebuildKind
  <2> QED  BY <2>2, <2>3
<1>6. proc' = [proc EXCEPT ![p] = r]
  BY <1>0, <1>2, <1>3
<1>7. DOMAIN v = {"at", "x", "todo"} /\ v.at = "read" /\ v.x = x /\ v.todo = me.fresh.todo \ {s}
  BY <1>1, <1>3
<1>8. /\ DOMAIN r = {"on", "session", "idx", "save", "fresh"} /\ r.on = TRUE /\ r.session = me.session
      /\ r.idx = me.idx /\ r.save = me.save /\ r.fresh = v
  BY <1>0
<1> HIDE DEF r, v, x
<1>9. ProcessKind(r, stamps + 1)
  <2>1. RebuildKind(v, stamps + 1)
    BY <1>3, <1>5, <1>7 DEF RebuildKind
  <2> QED  BY <1>0, <1>4, <1>8, <2>1 DEF ProcessKind
<1>10. RecallInv'
  BY <1>0, <1>1, <1>6, <1>9, ProcessStep
<1> QED  BY <1>4, <1>6, <1>8, <1>10

\* The other steps give out no stamp; none but the end of a rebuild changes an index in use.
LEMMA QuietStep ==
  ASSUME RecallInv, NEW p \in Processes,
         \/ OnInit(p) \/ ExitProcess(p) \/ Turn(p) \/ SaveBegins(p) \/ SaveEnds(p) \/ RebuildBegins(p) \/ RebuildEnds(p)
  PROVE  /\ RecallInv' /\ stamps' = stamps
         /\ proc[p].on /\ proc'[p].on /\ proc'[p].fresh.at = proc[p].fresh.at => proc'[p].idx = proc[p].idx
<1>0. /\ log \in [SessionIds -> Seq(Terms)] /\ stamps \in Nat /\ stamps <= stamps /\ IndexKind(gob, stamps)
      /\ proc = [q \in Processes |-> proc[q]] /\ Off.on = FALSE /\ \A n \in Nat : ProcessKind(Off, n)
  BY DEF RecallInv, Off, ProcessKind
<1>r. proc[p].on =>
      /\ DOMAIN proc[p] = {"on", "session", "idx", "save", "fresh"} /\ proc[p].on = TRUE
      /\ proc[p].session \in SessionIds /\ CountsRight(proc[p].idx, stamps)
      /\ SaveKind(proc[p].save, stamps) /\ RebuildKind(proc[p].fresh, stamps)
  BY RunningFacts
<1>1. CASE OnInit(p)
  <2>1. PICK s \in SessionIds : proc' = [proc EXCEPT ![p] = [on |-> TRUE, session |-> s, idx |-> LoadIndex(gob),
                                                          save |-> NoSave, fresh |-> [at |-> "none"]]]
    BY <1>1 DEF OnInit
  <2> DEFINE r == [on |-> TRUE, session |-> s, idx |-> LoadIndex(gob), save |-> NoSave, fresh |-> [at |-> "none"]]
  <2>2. ProcessKind(r, stamps)
    <3>1. CountsRight(LoadIndex(gob), stamps)
      BY <1>0, IndexFacts
    <3> QED  BY <3>1 DEF ProcessKind, SaveKind, RebuildKind, NoSave
  <2>3. stamps' = stamps /\ log' = log /\ gob' = gob /\ ~proc[p].on
    BY <1>1 DEF OnInit
  <2> HIDE DEF r
  <2> QED  BY <1>0, <2>1, <2>2, <2>3, ProcessStep DEF r
<1>2. CASE ExitProcess(p)
  <2>1. proc' = [proc EXCEPT ![p] = Off] /\ stamps' = stamps /\ log' = log /\ gob' = gob
    BY <1>2 DEF ExitProcess
  <2>2. proc'[p] = Off
    BY <1>0, <2>1
  <2> QED  BY <1>0, <2>1, <2>2, ProcessStep
<1>3. CASE Turn(p)
  <2>1. PICK t \in Terms : log' = [log EXCEPT ![proc[p].session] = Append(@, t)]
    BY <1>3 DEF Turn
  <2>2. stamps' = stamps /\ proc' = proc /\ gob' = gob /\ proc[p].on
    BY <1>3 DEF Turn
  <2>3. proc[p].session \in SessionIds /\ log[proc[p].session] \in Seq(Terms)
    BY <1>0, <1>r, <2>2
  <2>4. Append(log[proc[p].session], t) \in Seq(Terms)
    BY <2>3, AppendProperties
  <2>5. log' \in [SessionIds -> Seq(Terms)]
    BY <1>0, <2>1, <2>4
  <2>6. proc' = [proc EXCEPT ![p] = proc[p]] /\ ProcessKind(proc[p], stamps)
    BY <1>0, <2>2 DEF RecallInv
  <2> QED  BY <1>0, <2>2, <2>5, <2>6, ProcessStep
<1>4. CASE SaveBegins(p)
  <2> DEFINE v == [at |-> "encode", x |-> proc[p].idx]  r == [proc[p] EXCEPT !.save = v]
  <2>1. /\ proc' = [proc EXCEPT ![p] = r] /\ stamps' = stamps /\ log' = log /\ gob' = gob /\ proc[p].on
    BY <1>4 DEF SaveBegins
  <2>2. SaveKind(v, stamps)
    BY <1>r, <2>1 DEF SaveKind, CountsRight
  <2>3. /\ DOMAIN r = {"on", "session", "idx", "save", "fresh"} /\ r.on = TRUE /\ r.session = proc[p].session
        /\ r.idx = proc[p].idx /\ r.save = v /\ r.fresh = proc[p].fresh
    BY <1>r, <2>1
  <2> HIDE DEF v, r
  <2>4. ProcessKind(r, stamps) /\ proc'[p] = r
    BY <1>0, <1>r, <2>1, <2>2, <2>3 DEF ProcessKind
  <2> QED  BY <1>0, <2>1, <2>3, <2>4, ProcessStep
<1>5. CASE SaveEnds(p)
  <2> DEFINE r == [proc[p] EXCEPT !.save = NoSave]
  <2>1. /\ proc' = [proc EXCEPT ![p] = r] /\ stamps' = stamps /\ log' = log /\ gob' = proc[p].save.x
        /\ proc[p].on /\ proc[p].save.at = "encode"
    BY <1>5 DEF SaveEnds
  <2>2. IndexKind(gob', stamps)
    BY <1>r, <2>1 DEF SaveKind
  <2>3. /\ DOMAIN r = {"on", "session", "idx", "save", "fresh"} /\ r.on = TRUE /\ r.session = proc[p].session
        /\ r.idx = proc[p].idx /\ r.save = NoSave /\ r.fresh = proc[p].fresh
    BY <1>r, <2>1
  <2> HIDE DEF r
  <2>4. ProcessKind(r, stamps) /\ proc'[p] = r
    BY <1>0, <1>r, <2>1, <2>3 DEF ProcessKind, SaveKind, NoSave
  <2> QED  BY <1>0, <2>1, <2>2, <2>3, <2>4, ProcessStep
<1>6. CASE RebuildBegins(p)
  <2> DEFINE v == [at |-> "read", x |-> NewIndex, todo |-> {s \in SessionIds : log[s] # <<>>}]
             r == [proc[p] EXCEPT !.fresh = v]
  <2>1. /\ proc' = [proc EXCEPT ![p] = r] /\ stamps' = stamps /\ log' = log /\ gob' = gob /\ proc[p].on
    BY <1>6 DEF RebuildBegins
  <2>2. RebuildKind(v, stamps)
    BY <1>0, IndexFacts DEF RebuildKind
  <2>3. /\ DOMAIN r = {"on", "session", "idx", "save", "fresh"} /\ r.on = TRUE /\ r.session = proc[p].session
        /\ r.idx = proc[p].idx /\ r.save = proc[p].save /\ r.fresh = v
    BY <1>r, <2>1
  <2> HIDE DEF v, r
  <2>4. ProcessKind(r, stamps) /\ proc'[p] = r
    BY <1>0, <1>r, <2>1, <2>2, <2>3 DEF ProcessKind
  <2> QED  BY <1>0, <2>1, <2>3, <2>4, ProcessStep
<1>7. CASE RebuildEnds(p)
  <2> DEFINE r == [proc[p] EXCEPT !.idx = proc[p].fresh.x, !.fresh = [at |-> "none"], !.save = [at |-> "due"]]
  <2>1. /\ proc' = [proc EXCEPT ![p] = r] /\ stamps' = stamps /\ log' = log /\ gob' = gob /\ proc[p].on
        /\ proc[p].fresh.at = "read"
    BY <1>7 DEF RebuildEnds
  <2>2. CountsRight(proc[p].fresh.x, stamps)
    BY <1>r, <2>1 DEF RebuildKind
  <2>3. /\ DOMAIN r = {"on", "session", "idx", "save", "fresh"} /\ r.on = TRUE /\ r.session = proc[p].session
        /\ r.idx = proc[p].fresh.x /\ r.save = [at |-> "due"] /\ r.fresh = [at |-> "none"]
    BY <1>r, <2>1
  <2> HIDE DEF r
  <2>4. ProcessKind(r, stamps) /\ proc'[p] = r
    BY <1>0, <1>r, <2>1, <2>2, <2>3 DEF ProcessKind, SaveKind, RebuildKind
  <2> QED  BY <1>0, <2>1, <2>3, <2>4, ProcessStep
<1> QED  BY <1>1, <1>2, <1>3, <1>4, <1>5, <1>6, <1>7

\* Every step keeps the invariant.
LEMMA NextRecall == RecallInv /\ [RecallNext]_rvars => RecallInv'
<1>1. ASSUME RecallInv, RecallNext PROVE RecallInv'
  BY <1>1, IndexTurnStep, RebuildReadsStep, QuietStep DEF RecallNext
<1>2. ASSUME RecallInv, UNCHANGED rvars PROVE RecallInv'
  <2>1. UNCHANGED <<log, stamps, proc, gob>>
    BY <1>2 DEF rvars
  <2>2. IndexKind(gob, stamps)'
    BY <1>2, <2>1 DEF RecallInv, IndexKind, Documents
  <2>3. ASSUME NEW p \in Processes PROVE RecallInv'
    <3>1. /\ ProcessKind(proc[p], stamps) /\ proc' = [proc EXCEPT ![p] = proc[p]] /\ stamps \in Nat /\ stamps <= stamps
          /\ log \in [SessionIds -> Seq(Terms)] /\ IndexKind(gob, stamps)
      BY <1>2, <2>1 DEF RecallInv
    <3> QED  BY <1>2, <2>1, <3>1, ProcessStep
  <2>4. CASE Processes = {}
    BY <1>2, <2>1, <2>2, <2>4 DEF RecallInv
  <2> QED  BY <2>3, <2>4
<1> QED  BY <1>1, <1>2

\* The index starts with it.
LEMMA InitRecall == RecallInit => RecallInv
<1> SUFFICES ASSUME RecallInit PROVE RecallInv
  OBVIOUS
<1>1. IndexKind(gob, 0) /\ stamps = 0
  BY IndexFacts DEF RecallInit, CountsRight
<1>2. <<>> \in Seq(Terms)
  BY EmptySeq
<1> QED  BY <1>1, <1>2 DEF RecallInit, RecallInv, ProcessKind

\* In an index that counts right every document is found by each of its terms.
LEMMA CountedIsFound ==
  ASSUME NEW n \in Nat, NEW x, CountsRight(x, n), ~x.torn,
         NEW s \in DOMAIN x.docs, NEW t \in x.docs[s].terms
  PROVE  s \in SearchIndex(x, {t})
<1>1. /\ IsFiniteSet(DOMAIN x.docs) /\ x.total = Cardinality(DOMAIN x.docs) /\ x.freq = Recount(x.docs)
      /\ t \in Terms
  BY DEF CountsRight, IndexKind, Documents
<1>2. x.total # 0
  BY <1>1, FS_EmptySet
<1>3. s \in Having(x.docs, t) /\ Having(x.docs, t) \in SUBSET DOMAIN x.docs
  BY DEF Having
<1>4. IsFiniteSet(Having(x.docs, t))
  BY <1>1, <1>3, FS_Subset
<1>5. Cardinality(Having(x.docs, t)) \in Nat /\ Cardinality(Having(x.docs, t)) # 0
  BY <1>3, <1>4, FS_EmptySet, FS_CardinalityType
<1>6. x.freq[t] = Cardinality(Having(x.docs, t))
  BY <1>1 DEF Recount, Having
<1>7. x.freq[t] > 0
  BY ONLY <1>5, <1>6
<1> QED  BY <1>2, <1>7 DEF SearchIndex

\* After any indexing, pruning, rebuilding, saving and loading an index counts for every term the
\* documents that have it, is within its cap, and finds each document by each of its terms; only a
\* save that overlapped with an addition leaves a number of documents that is none
\* (recall/index.go:87, recall/index.go:105).
THEOREM DocumentsFound == RecallSpec => []IndexFindsItsDocuments
<1>1. RecallInv => IndexFindsItsDocuments
  <2> SUFFICES ASSUME RecallInv, NEW p \in RunningProcesses
               PROVE  LET x == proc[p].idx IN
                      /\ x.freq = Recount(x.docs)
                      /\ Cardinality(DOMAIN x.docs) <= MaxDocs
                      /\ ~x.torn => /\ x.total = Cardinality(DOMAIN x.docs)
                                    /\ \A s \in DOMAIN x.docs : \A t \in x.docs[s].terms : s \in SearchIndex(x, {t})
    BY DEF IndexFindsItsDocuments
  <2> DEFINE x == proc[p].idx
  <2>1. CountsRight(x, stamps) /\ stamps \in Nat
    BY RunningFacts DEF RunningProcesses
  <2>2. x.freq = Recount(x.docs) /\ Cardinality(DOMAIN x.docs) <= MaxDocs
        /\ (~x.torn => x.total = Cardinality(DOMAIN x.docs))
    BY <2>1 DEF CountsRight, IndexKind
  <2>3. ~x.torn => \A s \in DOMAIN x.docs : \A t \in x.docs[s].terms : s \in SearchIndex(x, {t})
    BY <2>1, CountedIsFound
  <2> QED  BY <2>2, <2>3
<1> QED  BY <1>1, InitRecall, NextRecall, PTL DEF RecallSpec

\* A step drops from an index in use the oldest document at most, and keeps the turn just indexed.
LEMMA StepDropsOldest ==
  ASSUME RecallInv, RecallNext, NEW p \in RunningProcesses, proc'[p].on, proc[p].fresh.at = proc'[p].fresh.at
  PROVE  /\ DropsOldest(proc[p].idx.docs, proc'[p].idx.docs)
         /\ stamps' > stamps /\ proc'[p].save.at # proc[p].save.at => proc[p].session \in DOMAIN proc'[p].idx.docs
<1>0. p \in Processes /\ proc[p].on /\ stamps \in Nat
  BY DEF RunningProcesses, RecallInv
<1>1. PICK q \in Processes :
        \/ OnInit(q) \/ ExitProcess(q) \/ Turn(q) \/ IndexTurn(q) \/ SaveBegins(q) \/ SaveEnds(q)
        \/ RebuildBegins(q) \/ RebuildReads(q) \/ RebuildEnds(q)
  BY DEF RecallNext
<1>2. proc'[p].idx = proc[p].idx => DropsOldest(proc[p].idx.docs, proc'[p].idx.docs)
  BY DEF DropsOldest
<1>3. CASE q # p
  <2>1. proc'[p] = proc[p]
    <3>1. CASE OnInit(q) \/ ExitProcess(q) \/ Turn(q) \/ SaveBegins(q) \/ SaveEnds(q) \/ RebuildBegins(q) \/ RebuildEnds(q)
      BY <1>0, <1>3, <3>1 DEF OnInit, ExitProcess, Turn, SaveBegins, SaveEnds, RebuildBegins, RebuildEnds, RecallInv
    <3>2. CASE IndexTurn(q)
      BY <1>0, <1>3, <3>2 DEF IndexTurn, RecallInv
    <3>3. CASE RebuildReads(q)
      BY <1>0, <1>3, <3>3 DEF RebuildReads, RecallInv
    <3> QED  BY <1>1, <3>1, <3>2, <3>3
  <2> QED  BY <1>2, <2>1
<1>4. CASE q = p /\ IndexTurn(p)
  BY <1>0, <1>4, IndexTurnStep
<1>5. CASE q = p /\ RebuildReads(p)
  BY <1>0, <1>2, <1>5, RebuildReadsStep
<1>6. CASE q = p /\ ~IndexTurn(p) /\ ~RebuildReads(p)
  <2>1. stamps' = stamps /\ proc'[p].idx = proc[p].idx
    BY <1>0, <1>1, <1>6, QuietStep
  <2> QED  BY <1>0, <1>2, <2>1
<1> QED  BY <1>1, <1>3, <1>4, <1>5, <1>6

\* A document leaves the index of a process only for one stamped later, by a rebuild or with the
\* process; the turn just indexed is always in it (recall/index.go:163).
THEOREM NewestKept == RecallSpec => NewestAreKept
<1>1. RecallInv /\ [RecallNext]_rvars =>
        [\A p \in RunningProcesses : proc'[p].on /\ proc[p].fresh.at = proc'[p].fresh.at =>
           /\ \A s \in DOMAIN proc[p].idx.docs \ DOMAIN proc'[p].idx.docs :
                \A u \in DOMAIN proc'[p].idx.docs : proc[p].idx.docs[s].at < proc'[p].idx.docs[u].at
           /\ stamps' > stamps /\ proc'[p].save.at # proc[p].save.at =>
                proc[p].session \in DOMAIN proc'[p].idx.docs]_rvars
  BY StepDropsOldest DEF DropsOldest
<1> QED  BY <1>1, InitRecall, NextRecall, PTL DEF RecallSpec, NewestAreKept

\* Processes that run have sessions of their own, and no more stamps are given out than the bound.
SessionsApart ==
  /\ \A p, q \in Processes : proc[p].on /\ proc[q].on /\ proc[p].session = proc[q].session => p = q
  /\ stamps <= MaxStamps

\* Only a process that starts has a session it did not have.
LEMMA SessionStays ==
  ASSUME RecallInv, NEW p \in Processes,
         \/ ExitProcess(p) \/ Turn(p) \/ IndexTurn(p) \/ SaveBegins(p) \/ SaveEnds(p)
         \/ RebuildBegins(p) \/ RebuildReads(p) \/ RebuildEnds(p)
  PROVE  /\ proc'[p].on => proc[p].on /\ proc'[p].session = proc[p].session
         /\ \A q \in Processes : q # p => proc'[q] = proc[q]
<1>0. proc[p].on /\ DOMAIN proc[p] = {"on", "session", "idx", "save", "fresh"}
  <2>1. proc[p].on
    BY DEF ExitProcess, Turn, IndexTurn, SaveBegins, SaveEnds, RebuildBegins, RebuildReads, RebuildEnds
  <2> QED  BY <2>1, RunningFacts
<1>1. proc = [q \in Processes |-> proc[q]] /\ Off.on = FALSE
  BY DEF RecallInv, Off
<1>2. CASE ExitProcess(p)
  BY <1>1, <1>2 DEF ExitProcess
<1>3. CASE Turn(p)
  BY <1>0, <1>3 DEF Turn
<1>4. CASE SaveBegins(p) \/ SaveEnds(p) \/ RebuildBegins(p) \/ RebuildEnds(p)
  <2> DEFINE me == proc[p]
  <2>1. \E i, s, f : proc' = [proc EXCEPT ![p] = [me EXCEPT !.idx = i, !.save = s, !.fresh = f]]
    <3>2. CASE SaveBegins(p)
      <4>1. proc' = [proc EXCEPT ![p] = [me EXCEPT !.idx = me.idx, !.save = [at |-> "encode", x |-> me.idx], !.fresh = me.fresh]]
        BY <1>0, <1>1, <3>2 DEF SaveBegins
      <4> QED  BY <4>1
    <3>3. CASE SaveEnds(p)
      <4>1. proc' = [proc EXCEPT ![p] = [me EXCEPT !.idx = me.idx, !.save = NoSave, !.fresh = me.fresh]]
        BY <1>0, <1>1, <3>3 DEF SaveEnds
      <4> QED  BY <4>1
    <3>4. CASE RebuildBegins(p)
      <4>1. PICK v : proc' = [proc EXCEPT ![p].fresh = v]
        BY <3>4 DEF RebuildBegins
      <4>2. proc' = [proc EXCEPT ![p] = [me EXCEPT !.idx = me.idx, !.save = me.save, !.fresh = v]]
        BY <1>0, <1>1, <4>1
      <4> QED  BY <4>2
    <3>5. CASE RebuildEnds(p)
      <4>1. proc' = [proc EXCEPT ![p] = [me EXCEPT !.idx = me.fresh.x, !.save = [at |-> "due"], !.fresh = [at |-> "none"]]]
        BY <1>0, <1>1, <3>5 DEF RebuildEnds
      <4> QED  BY <4>1
    <3> QED  BY <1>4, <3>2, <3>3, <3>4, <3>5
  <2> QED  BY <1>0, <1>1, <2>1
<1>5. CASE RebuildReads(p)
  <2>1. PICK a, b : proc' = [proc EXCEPT ![p].fresh.todo = a, ![p].fresh.x = b]
    BY <1>5 DEF RebuildReads
  <2> QED  BY <1>0, <1>1, <2>1
<1>6. CASE IndexTurn(p)
  <2> DEFINE me == proc[p]  new == AddDocument(me.idx, me.session, Range(log[me.session]), stamps + 1)
  <2>1. \/ proc' = [proc EXCEPT ![p].idx = new, ![p].save = [at |-> "due"]]
        \/ \E seen \in {me.save.x.docs, new.docs} :
              proc' = [proc EXCEPT ![p].idx = new, ![p].save.x.docs = seen,
                                   ![p].save.x.torn = me.save.x.torn \/ seen # me.save.x.docs]
        \/ proc' = [proc EXCEPT ![p] = Off]
    BY <1>6 DEF IndexTurn
  <2> HIDE DEF new
  <2>2. CASE proc' = [proc EXCEPT ![p].idx = new, ![p].save = [at |-> "due"]]
    BY <1>0, <1>1, <2>2
  <2>3. ASSUME NEW seen, NEW T, proc' = [proc EXCEPT ![p].idx = new, ![p].save.x.docs = seen, ![p].save.x.torn = T]
        PROVE  proc'[p].session = me.session /\ \A q \in Processes : q # p => proc'[q] = proc[q]
    BY <1>0, <1>1, <2>3
  <2>4. CASE proc' = [proc EXCEPT ![p] = Off]
    BY <1>1, <2>4
  <2> QED  BY <1>0, <2>1, <2>2, <2>3, <2>4
<1> QED  BY <1>2, <1>3, <1>4, <1>5, <1>6

\* Every step keeps the sessions apart and the bound.
LEMMA NextApart == RecallInv /\ SessionsApart /\ [RecallNext]_rvars => SessionsApart'
<1> SUFFICES ASSUME RecallInv, SessionsApart, [RecallNext]_rvars PROVE SessionsApart'
  OBVIOUS
<1>0. stamps \in Nat /\ MaxStamps \in Nat /\ proc = [q \in Processes |-> proc[q]]
  BY RecallAssumption DEF RecallInv
<1>1. ASSUME NEW p \in Processes, OnInit(p) PROVE SessionsApart'
  <2>1. PICK s \in SessionIds \ InUse : proc' = [proc EXCEPT ![p] = [on |-> TRUE, session |-> s, idx |-> LoadIndex(gob),
                                                          save |-> NoSave, fresh |-> [at |-> "none"]]]
    BY <1>1 DEF OnInit
  <2>2. proc'[p].session = s /\ (\A q \in Processes : q # p => proc'[q] = proc[q]) /\ stamps' = stamps
    BY <1>0, <1>1, <2>1 DEF OnInit
  <2>3. \A q \in Processes : proc[q].on => proc[q].session # s
    BY <2>1 DEF InUse
  <2> QED  BY <2>2, <2>3 DEF SessionsApart
<1>2. ASSUME NEW p \in Processes,
             \/ ExitProcess(p) \/ Turn(p) \/ IndexTurn(p) \/ SaveBegins(p) \/ SaveEnds(p)
             \/ RebuildBegins(p) \/ RebuildReads(p) \/ RebuildEnds(p)
      PROVE  SessionsApart'
  <2>1. /\ proc'[p].on => proc[p].on /\ proc'[p].session = proc[p].session
        /\ \A q \in Processes : q # p => proc'[q] = proc[q]
    BY <1>2, SessionStays
  <2>2. \A q \in Processes : proc'[q].on => proc[q].on /\ proc'[q].session = proc[q].session
    BY <2>1
  <2>3. stamps' <= MaxStamps
    <3>1. stamps' = stamps \/ (stamps' = stamps + 1 /\ stamps < MaxStamps)
      BY <1>2 DEF ExitProcess, Turn, IndexTurn, SaveBegins, SaveEnds, RebuildBegins, RebuildReads, RebuildEnds
    <3> QED  BY <1>0, <3>1 DEF SessionsApart
  <2> QED  BY <2>2, <2>3 DEF SessionsApart
<1>3. CASE UNCHANGED rvars
  BY <1>3 DEF rvars, SessionsApart
<1> QED  BY <1>1, <1>2, <1>3 DEF RecallNext

\* For any sessions, processes and caps, the variables of the search keep their kinds, and no two
\* processes have a session together.
THEOREM RecallTyped == RecallSpec => []RecallTypeOK
<1>1. RecallInit => SessionsApart
  BY RecallAssumption DEF RecallInit, SessionsApart, Off
<1>2. RecallInv /\ SessionsApart => RecallTypeOK
  <2> SUFFICES ASSUME RecallInv, SessionsApart PROVE RecallTypeOK
    OBVIOUS
  <2>1. stamps \in 0 .. MaxStamps
    BY RecallAssumption DEF RecallInv, SessionsApart
  <2>2. \A p \in RunningProcesses : proc[p].save.at \in {"none", "due", "encode"} /\ DOMAIN proc[p].idx.docs \subseteq SessionIds
    <3> SUFFICES ASSUME NEW p \in Processes, proc[p].on
                 PROVE  proc[p].save.at \in {"none", "due", "encode"} /\ DOMAIN proc[p].idx.docs \subseteq SessionIds
      BY DEF RunningProcesses
    <3>1. SaveKind(proc[p].save, stamps) /\ CountsRight(proc[p].idx, stamps)
      BY RunningFacts
    <3>2. proc[p].save.at \in {"none", "due", "encode"}
      BY <3>1 DEF SaveKind
    <3> QED  BY <3>1, <3>2 DEF CountsRight, IndexKind, Documents
  <2>3. \A p, q \in RunningProcesses : p = q \/ proc[p].session # proc[q].session
    BY DEF RunningProcesses, SessionsApart
  <2> QED  BY <2>1, <2>2, <2>3 DEF RecallTypeOK
<1> QED  BY <1>1, <1>2, InitRecall, NextRecall, NextApart, PTL DEF RecallSpec

-----------------------------------------------------------------------------
(* The plan in plan.md (Plan).                                             *)

\* As many values as places, if no two places have one value.
LEMMA AsMany ==
  ASSUME NEW n \in Nat, NEW f, f = [i \in 1 .. n |-> f[i]], \A i, j \in 1 .. n : f[i] = f[j] => i = j
  PROVE  Cardinality({f[i] : i \in 1 .. n}) = n
<1> DEFINE S == {f[i] : i \in 1 .. n}
<1>1. f \in Bijection(1 .. n, S)
  BY DEF Bijection, Injection, Surjection, IsInjective
<1>2. IsFiniteSet(1 .. n) /\ Cardinality(1 .. n) = n
  <2>1. 1 \in Int /\ n \in Int
    OBVIOUS
  <2>2. IsFiniteSet(1 .. n) /\ Cardinality(1 .. n) = IF 1 > n THEN 0 ELSE n - 1 + 1
    BY <2>1, FS_Interval
  <2> QED  BY <2>2
<1> HIDE DEF S
<1>3. Cardinality(S) = Cardinality(1 .. n)
  BY <1>1, <1>2, FS_Bijection DEF ExistsBijection
<1> QED  BY <1>2, <1>3 DEF S

\* Sets whose members are all one have at most one.
LEMMA OneAtMost == ASSUME NEW S, \A x, y \in S : x = y PROVE IsFiniteSet(S) /\ Cardinality(S) <= 1
<1>1. CASE S = {}
  BY <1>1, FS_EmptySet
<1>2. CASE S # {}
  <2>1. PICK x \in S : TRUE
    BY <1>2
  <2>2. S = {x}
    BY <2>1
  <2>3. IsFiniteSet({x}) /\ Cardinality({x}) = 1
    BY FS_Singleton
  <2> QED  BY <2>2, <2>3
<1> QED  BY <1>1, <1>2

\* A set of naturals has a least member.
LEMMA Smallest ==
  ASSUME NEW S, S \subseteq Nat, S # {}
  PROVE  Min(S) \in S /\ \A y \in S : Min(S) <= y
<1> DEFINE T == {0 .. s : s \in S}
<1>1. ASSUME NEW s \in S PROVE 0 .. s \in FiniteSubsetsOf(Nat)
  <2>1. s \in Int /\ 0 \in Int
    OBVIOUS
  <2>2. IsFiniteSet(0 .. s)
    BY <2>1, FS_Interval
  <2>3. 0 .. s \in SUBSET Nat
    BY <2>1
  <2> QED  BY <2>2, <2>3 DEF FiniteSubsetsOf
<1>2. T \subseteq FiniteSubsetsOf(Nat) /\ T # {}
  BY <1>1
<1>3. PICK x \in T : \A y \in T : ~(<<y, x>> \in StrictSubsetOrdering(Nat))
  <2>1. IsWellFoundedOn(StrictSubsetOrdering(Nat), FiniteSubsetsOf(Nat))
    BY FS_StrictSubsetOrderingWellFounded
  <2> HIDE DEF T
  <2> QED  BY <1>2, <2>1, WFMin
<1>4. PICK a \in S : x = 0 .. a
  BY <1>3
<1>5. ASSUME NEW b \in S PROVE a <= b
  <2>1. a \in Nat /\ b \in Nat
    OBVIOUS
  <2>2. ~(<<0 .. b, 0 .. a>> \in StrictSubsetOrdering(Nat))
    BY <1>3, <1>4
  <2> HIDE DEF T
  <2>3. ASSUME b < a PROVE FALSE
    <3>1. 0 .. b \subseteq 0 .. a /\ a \in 0 .. a /\ a \notin 0 .. b
      BY <2>1, <2>3
    <3>2. 0 .. b \in SUBSET Nat /\ 0 .. a \in SUBSET Nat
      BY <2>1
    <3>3. <<0 .. b, 0 .. a>> \in StrictSubsetOrdering(Nat)
      BY <3>1, <3>2 DEF StrictSubsetOrdering
    <3> QED  BY <2>2, <3>3
  <2> QED  BY <2>1, <2>3
<1>6. \E o \in S : \A y \in S : o <= y
  BY <1>5
<1> QED  BY <1>6, Zenon DEF Min

-----------------------------------------------------------------------------
Step == [id : Nat \ {0}, status : Statuses]

\* One plan: each step under a number of its own, and one in progress at most.
Coherent(p) ==
  /\ p \in [steps : Seq(Step), mode : {"execute", "propose"}]
  /\ \A i, j \in DOMAIN p.steps :
       /\ p.steps[i].id = p.steps[j].id => i = j
       /\ p.steps[i].status = "in_progress" /\ p.steps[j].status = "in_progress" => i = j

\* A plan as it is in the file: its steps are numbered in order.
InFile(p) == Coherent(p) /\ \A i \in DOMAIN p.steps : p.steps[i].id = i

PlanInv ==
  /\ planFile = NoPlan \/ InFile(planFile)
  /\ planCall = [c \in PlanCallers |-> planCall[c]]
  /\ \A c \in PlanCallers :
       /\ planCall[c] = [at |-> planCall[c].at, plan |-> planCall[c].plan]
       /\ planCall[c].plan = NoPlan \/ Coherent(planCall[c].plan)

\* What saving and loading make of a coherent plan is coherent, and numbered.
LEMMA SavedFacts ==
  ASSUME NEW p, p = NoPlan \/ Coherent(p)
  PROVE  FormatAndParse(p) = NoPlan \/ InFile(FormatAndParse(p))
<1>1. CASE p = NoPlan
  BY <1>1 DEF FormatAndParse
<1>2. CASE p # NoPlan
  <2> DEFINE s == p.steps  n == Len(p.steps)  t == [i \in DOMAIN s |-> [s[i] EXCEPT !.id = i]]
             r == [p EXCEPT !.steps = t]
  <2>1. Coherent(p) /\ s \in Seq(Step) /\ n \in Nat /\ DOMAIN s = 1 .. n /\ FormatAndParse(p) = r
    BY <1>2 DEF Coherent, FormatAndParse
  <2>2. \A i \in 1 .. n : s[i] \in Step
    BY <2>1
  <2>3. \A i \in 1 .. n : t[i] = [id |-> i, status |-> s[i].status] /\ t[i] \in Step
    BY <2>1, <2>2 DEF Step
  <2>4. t \in Seq(Step) /\ DOMAIN t = 1 .. n
    <3>1. DOMAIN t = 1 .. n
      BY <2>1
    <3>2. t \in [1 .. n -> Step]
      BY <3>1, <2>3
    <3> HIDE DEF t, n
    <3> QED  BY <3>1, <3>2, <2>1
  <2>5. r \in [steps : Seq(Step), mode : {"execute", "propose"}] /\ r.steps = t
    <3>1. p \in [steps : Seq(Step), mode : {"execute", "propose"}]
      BY <2>1 DEF Coherent
    <3> HIDE DEF t
    <3> QED  BY <3>1, <2>4
  <2>6. \A i, j \in 1 .. n :
          (s[i].status = "in_progress" /\ s[j].status = "in_progress" => i = j)
    BY <2>1 DEF Coherent
  <2> HIDE DEF t, n, s, r
  <2>7. \A i, j \in DOMAIN r.steps :
          /\ r.steps[i].id = r.steps[j].id => i = j
          /\ r.steps[i].status = "in_progress" /\ r.steps[j].status = "in_progress" => i = j
    BY <2>3, <2>4, <2>5, <2>6
  <2>8. \A i \in DOMAIN r.steps : r.steps[i].id = i
    BY <2>3, <2>4, <2>5
  <2> QED  BY <2>1, <2>5, <2>7, <2>8 DEF InFile, Coherent
<1> QED  BY <1>1, <1>2

\* A step put in behind the i-th one, and the i-th one taken out.
LEMMA InsertedFacts ==
  ASSUME NEW s \in Seq(Step), NEW i \in 1 .. Len(s), NEW e \in Step
  PROVE  /\ InsertAt(s, i + 1, e) \in Seq(Step)
         /\ DOMAIN InsertAt(s, i + 1, e) = 1 .. Len(s) + 1
         /\ \A j \in 1 .. Len(s) + 1 : InsertAt(s, i + 1, e)[j] = IF j <= i THEN s[j] ELSE IF j = i + 1 THEN e ELSE s[j - 1]
<1> DEFINE n == Len(s)  a == SubSeq(s, 1, i)  b == SubSeq(s, i + 1, n)
<1>1. n \in Nat /\ i \in Nat /\ i <= n /\ (i + 1) - 1 = i /\ DOMAIN s = 1 .. n /\ n = Len(s)
  OBVIOUS
<1> HIDE DEF n
<1>2. a \in Seq(Step) /\ Len(a) = i /\ \A j \in 1 .. i : a[j] = s[j]
  BY <1>1
<1>3. b \in Seq(Step) /\ Len(b) = n - i /\ \A j \in 1 .. n - i : b[j] = s[i + j]
  <2>1. i + 1 \in Int /\ n \in Int /\ (\A k \in i + 1 .. n : s[k] \in Step) /\ n - (i + 1) + 1 = n - i
    BY <1>1
  <2>2. b \in Seq(Step) /\ Len(b) = (IF i + 1 <= n THEN n - (i + 1) + 1 ELSE 0)
          /\ \A j \in 1 .. n - (i + 1) + 1 : b[j] = s[i + 1 + j - 1]
    BY <2>1, SubSeqProperties
  <2>3. \A j \in 1 .. n - i : i + 1 + j - 1 = i + j
    BY <1>1
  <2>4. CASE i + 1 <= n
    BY <2>1, <2>2, <2>3, <2>4
  <2>5. CASE ~(i + 1 <= n)
    <3>1. \A x, y \in Nat : x <= y /\ ~(x + 1 <= y) => y - x = 0
      OBVIOUS
    <3>2. n - i = 0
      BY <1>1, <2>5, <3>1, Zenon
    <3> QED  BY <2>1, <2>2, <2>3, <2>5, <3>2
  <2> QED  BY <2>4, <2>5
<1>4. InsertAt(s, i + 1, e) = (a \o <<e>>) \o b
  <2>1. SubSeq(s, 1, (i + 1) - 1) = a /\ SubSeq(s, i + 1, Len(s)) = b
    BY <1>1
  <2>2. InsertAt(s, i + 1, e) = (SubSeq(s, 1, (i + 1) - 1) \o <<e>>) \o SubSeq(s, i + 1, Len(s))
    BY Zenon DEF InsertAt
  <2> HIDE DEF a, b
  <2> QED  BY <2>1, <2>2
<1> DEFINE c == a \o <<e>>
<1> HIDE DEF a, b
<1>5. c \in Seq(Step) /\ Len(c) = i + 1 /\ \A j \in 1 .. i + 1 : c[j] = IF j = i + 1 THEN e ELSE a[j]
  BY <1>1, <1>2
<1> HIDE DEF c
<1>6. c \o b \in Seq(Step) /\ Len(c \o b) = n + 1
       /\ \A j \in 1 .. n + 1 : (c \o b)[j] = IF j <= i + 1 THEN c[j] ELSE b[j - (i + 1)]
  <2>1. /\ c \o b \in Seq(Step) /\ Len(c \o b) = Len(c) + Len(b)
        /\ \A j \in 1 .. Len(c) + Len(b) : (c \o b)[j] = IF j <= Len(c) THEN c[j] ELSE b[j - Len(c)]
    BY <1>3, <1>5, ConcatProperties
  <2>2. Len(c) + Len(b) = n + 1
    BY <1>1, <1>3, <1>5
  <2> QED  BY <1>5, <2>1, <2>2
<1> DEFINE t == c \o b
<1> HIDE DEF t
<1>7. ASSUME NEW j \in 1 .. n + 1
      PROVE  t[j] = IF j <= i THEN s[j] ELSE IF j = i + 1 THEN e ELSE s[j - 1]
  <2>1. t[j] = IF j <= i + 1 THEN c[j] ELSE b[j - (i + 1)]
    BY <1>6 DEF t
  <2>2. CASE j <= i
    <3>1. j \in 1 .. i + 1 /\ j \in 1 .. i /\ j # i + 1 /\ j <= i + 1
      BY <1>1, <2>2
    <3> QED  BY <3>1, <1>2, <1>5, <2>1, <2>2
  <2>3. CASE j = i + 1
    <3>1. j \in 1 .. i + 1 /\ ~(j <= i)
      BY <1>1, <2>3
    <3> QED  BY <3>1, <1>5, <2>1, <2>3
  <2>4. CASE j > i + 1
    <3> DEFINE k == j - (i + 1)
    <3>1. k \in 1 .. n - i /\ i + k = j - 1 /\ ~(j <= i + 1) /\ ~(j <= i) /\ j # i + 1
      BY <1>1, <2>4
    <3>2. t[j] = b[k]
      BY <2>1, <3>1
    <3> HIDE DEF k
    <3> QED  BY <3>1, <3>2, <1>3
  <2> QED  BY <1>1, <2>2, <2>3, <2>4
<1>8. \A j \in 1 .. n + 1 : t[j] = IF j <= i THEN s[j] ELSE IF j = i + 1 THEN e ELSE s[j - 1]
  BY <1>7
<1>9. InsertAt(s, i + 1, e) = t /\ t \in Seq(Step) /\ Len(t) = n + 1
  BY <1>4, <1>6 DEF c, t
<1>10. DOMAIN t = 1 .. n + 1
  BY <1>9
<1> QED  BY <1>1, <1>8, <1>9, <1>10

\* The same for RemoveAt.
LEMMA TakenOutFacts ==
  ASSUME NEW S, NEW s \in Seq(S), NEW i \in 1 .. Len(s)
  PROVE  /\ RemoveAt(s, i) \in Seq(S) /\ Len(RemoveAt(s, i)) = Len(s) - 1
         /\ DOMAIN RemoveAt(s, i) = 1 .. Len(s) - 1
         /\ \A j \in 1 .. Len(s) - 1 : RemoveAt(s, i)[j] = IF j < i THEN s[j] ELSE s[j + 1]
<1> DEFINE n == Len(s)  a == SubSeq(s, 1, i - 1)  b == SubSeq(s, i + 1, n)
<1>1. n \in Nat /\ i \in Nat /\ i <= n /\ i >= 1 /\ DOMAIN s = 1 .. n /\ n = Len(s)
  OBVIOUS
<1> HIDE DEF n
<1>2. a \in Seq(S) /\ Len(a) = i - 1 /\ \A j \in 1 .. i - 1 : a[j] = s[j]
  BY <1>1
<1>3. b \in Seq(S) /\ Len(b) = n - i /\ \A j \in 1 .. n - i : b[j] = s[i + j]
  <2>1. i + 1 \in Int /\ n \in Int /\ (\A k \in i + 1 .. n : s[k] \in S) /\ n - (i + 1) + 1 = n - i
    BY <1>1
  <2>2. b \in Seq(S) /\ Len(b) = (IF i + 1 <= n THEN n - (i + 1) + 1 ELSE 0)
          /\ \A j \in 1 .. n - (i + 1) + 1 : b[j] = s[i + 1 + j - 1]
    BY <2>1, SubSeqProperties
  <2>3. \A j \in 1 .. n - i : i + 1 + j - 1 = i + j
    BY <1>1
  <2>4. CASE i + 1 <= n
    BY <2>1, <2>2, <2>3, <2>4
  <2>5. CASE ~(i + 1 <= n)
    <3>1. \A x, y \in Nat : x <= y /\ ~(x + 1 <= y) => y - x = 0
      OBVIOUS
    <3>2. n - i = 0
      BY <1>1, <2>5, <3>1, Zenon
    <3> QED  BY <2>1, <2>2, <2>3, <2>5, <3>2
  <2> QED  BY <2>4, <2>5
<1>4. RemoveAt(s, i) = a \o b
  BY <1>1 DEF RemoveAt
<1> HIDE DEF a, b
<1>5. a \o b \in Seq(S) /\ Len(a \o b) = n - 1
       /\ \A j \in 1 .. n - 1 : (a \o b)[j] = IF j <= i - 1 THEN a[j] ELSE b[j - (i - 1)]
  <2>1. /\ a \o b \in Seq(S) /\ Len(a \o b) = Len(a) + Len(b)
        /\ \A j \in 1 .. Len(a) + Len(b) : (a \o b)[j] = IF j <= Len(a) THEN a[j] ELSE b[j - Len(a)]
    BY <1>2, <1>3, ConcatProperties
  <2>2. Len(a) + Len(b) = n - 1
    BY <1>1, <1>2, <1>3
  <2> QED  BY <1>2, <2>1, <2>2
<1>6. \A j \in 1 .. n - 1 : (a \o b)[j] = IF j < i THEN s[j] ELSE s[j + 1]
  BY <1>1, <1>2, <1>3, <1>5
<1> DEFINE t == a \o b
<1> HIDE DEF t
<1>7. RemoveAt(s, i) = t /\ t \in Seq(S) /\ Len(t) = n - 1
  BY <1>4, <1>5 DEF t
<1>8. DOMAIN t = 1 .. n - 1
  BY <1>7
<1> QED  BY <1>1, <1>6, <1>7, <1>8 DEF t

\* What a plan is coherent of: its steps.
LEMMA CoherentSteps ==
  ASSUME NEW p, Coherent(p), NEW t \in Seq(Step),
         \A i, j \in DOMAIN t :
           /\ t[i].id = t[j].id => i = j
           /\ t[i].status = "in_progress" /\ t[j].status = "in_progress" => i = j
  PROVE  Coherent([p EXCEPT !.steps = t]) /\ [p EXCEPT !.steps = t].steps = t
BY DEF Coherent

\* A status that is set leaves the steps what they are, and makes one at most the one in progress.
LEMMA UpdatedFacts ==
  ASSUME NEW p, Coherent(p), NEW i \in DOMAIN p.steps, NEW status \in Statuses
  PROVE  /\ Coherent(UpdateStep(p, i, status))
         /\ DOMAIN UpdateStep(p, i, status).steps = DOMAIN p.steps
         /\ \A j \in DOMAIN p.steps : UpdateStep(p, i, status).steps[j].id = p.steps[j].id
<1> DEFINE s == p.steps  n == Len(p.steps)
           d == IF status = "in_progress" THEN Demoted(p) ELSE s
           t == [d EXCEPT ![i].status = status]
<1>1. s \in Seq(Step) /\ n \in Nat /\ DOMAIN s = 1 .. n /\ UpdateStep(p, i, status) = [p EXCEPT !.steps = t]
  BY DEF Coherent, UpdateStep
<1>2. \A j \in 1 .. n : s[j] \in Step
  BY <1>1
<1>3. DOMAIN d = 1 .. n /\ d = [j \in 1 .. n |-> d[j]]
  <2>1. Demoted(p) = [j \in 1 .. n |-> Demoted(p)[j]] /\ s = [j \in 1 .. n |-> s[j]]
    BY <1>1 DEF Demoted
  <2> HIDE DEF s, n
  <2> QED  BY <2>1
<1>4. \A j \in 1 .. n : /\ d[j] \in Step /\ d[j].id = s[j].id
                        /\ d[j].status = "in_progress" => s[j].status = "in_progress" /\ status # "in_progress"
  BY <1>1, <1>2 DEF Demoted, Step, Statuses
<1> HIDE DEF d
<1>5. DOMAIN t = 1 .. n /\ t = [j \in 1 .. n |-> t[j]]
  BY <1>3
<1>6. \A j \in 1 .. n : j # i => t[j] = d[j]
  BY <1>3
<1>7. t[i] = [d[i] EXCEPT !.status = status] /\ i \in 1 .. n
  BY <1>1, <1>3
<1>8. t[i] \in Step /\ t[i].id = d[i].id /\ t[i].status = status
  BY <1>4, <1>7 DEF Step
<1> HIDE DEF t, s, n
<1>9. \A j \in 1 .. n : /\ t[j] \in Step /\ t[j].id = s[j].id
                        /\ t[j].status = "in_progress" =>
                             IF status = "in_progress" THEN j = i ELSE s[j].status = "in_progress"
  BY <1>4, <1>6, <1>7, <1>8
<1>10. t \in Seq(Step)
  <2>1. t \in [1 .. n -> Step]
    BY <1>5, <1>9
  <2> QED  BY <1>1, <2>1
<1>11. \A j, k \in 1 .. n : /\ s[j].id = s[k].id => j = k
                            /\ s[j].status = "in_progress" /\ s[k].status = "in_progress" => j = k
  BY <1>1 DEF Coherent, s
<1>12. Coherent([p EXCEPT !.steps = t]) /\ [p EXCEPT !.steps = t].steps = t
  <2>1. \A j, k \in DOMAIN t : /\ t[j].id = t[k].id => j = k
                               /\ t[j].status = "in_progress" /\ t[k].status = "in_progress" => j = k
    BY <1>5, <1>9, <1>11
  <2> QED  BY <1>10, <2>1, CoherentSteps
<1> QED  BY <1>1, <1>5, <1>9, <1>12 DEF s

\* The number of a new step is past all others.
LEMMA NewNumber ==
  ASSUME NEW p, Coherent(p), \A i \in DOMAIN p.steps : p.steps[i].id = i
  PROVE  NextID(p) = Len(p.steps) + 1
<1> DEFINE n == Len(p.steps)  I == {0} \cup {p.steps[i].id : i \in DOMAIN p.steps}
<1>1. n \in Nat /\ DOMAIN p.steps = 1 .. n
  BY DEF Coherent
<1>2. I = 0 .. n
  BY <1>1
<1> HIDE DEF I, n
<1>3. Max(I) = n
  BY <1>1, <1>2 DEF Max
<1> QED  BY <1>3 DEF NextID, I, n

\* A step put in behind another one keeps the plan coherent.
LEMMA AddedStepFacts ==
  ASSUME NEW p, Coherent(p), \A i \in DOMAIN p.steps : p.steps[i].id = i,
         NEW i \in DOMAIN p.steps
  PROVE  Coherent(AddStepAfter(p, i))
<1> DEFINE s == p.steps  n == Len(s)  e == NewStep(NextID(p))  t == InsertAt(s, i + 1, e)
<1>1. s \in Seq(Step) /\ n \in Nat /\ DOMAIN s = 1 .. n /\ i \in 1 .. n
  BY DEF Coherent
<1>2. e \in Step /\ e.id = n + 1 /\ e.status = "pending"
  BY <1>1, NewNumber DEF NewStep, Step, Statuses
<1>3. \A j \in 1 .. n : s[j].id = j
  BY <1>1
<1>4. \A j, k \in 1 .. n : s[j].status = "in_progress" /\ s[k].status = "in_progress" => j = k
  BY <1>1 DEF Coherent
<1> HIDE DEF e
<1>5. /\ t \in Seq(Step) /\ DOMAIN t = 1 .. n + 1
      /\ \A j \in 1 .. n + 1 : t[j] = IF j <= i THEN s[j] ELSE IF j = i + 1 THEN e ELSE s[j - 1]
  <2>1. s \in Seq(Step) /\ i \in 1 .. Len(s) /\ e \in Step
    BY <1>1, <1>2
  <2>2. /\ InsertAt(s, i + 1, e) \in Seq(Step) /\ DOMAIN InsertAt(s, i + 1, e) = 1 .. Len(s) + 1
        /\ \A j \in 1 .. Len(s) + 1 : InsertAt(s, i + 1, e)[j] = IF j <= i THEN s[j] ELSE IF j = i + 1 THEN e ELSE s[j - 1]
    <3> HIDE DEF s
    <3> QED  BY ONLY <2>1, InsertedFacts
  <2> QED  BY <2>2
<1>6. AddStepAfter(p, i) = [p EXCEPT !.steps = t]
  BY DEF AddStepAfter, e
<1> DEFINE old(j) == IF j <= i THEN j ELSE j - 1
<1>7. \A j \in 1 .. n + 1 : j # i + 1 => old(j) \in 1 .. n /\ t[j] = s[old(j)]
  BY <1>1, <1>5
<1>8. \A j, k \in 1 .. n + 1 : j # i + 1 /\ k # i + 1 /\ old(j) = old(k) => j = k
  BY <1>1
<1>9. i + 1 \in 1 .. n + 1 /\ t[i + 1] = e
  BY <1>1, <1>5
<1>11. \A m \in 1 .. n : m # n + 1
  BY <1>1
<1> HIDE DEF t, s, n, old
<1>10. ASSUME NEW j \in DOMAIN t, NEW k \in DOMAIN t
       PROVE  /\ t[j].id = t[k].id => j = k
              /\ t[j].status = "in_progress" /\ t[k].status = "in_progress" => j = k
  <2>1. j \in 1 .. n + 1 /\ k \in 1 .. n + 1
    BY <1>5
  <2>2. CASE j = i + 1 /\ k = i + 1
    BY <2>2
  <2>3. CASE j = i + 1 /\ k # i + 1
    <3>1. old(k) \in 1 .. n /\ t[k] = s[old(k)] /\ t[j] = e
      BY <2>1, <2>3, <1>7, <1>9
    <3> QED  BY <3>1, <1>2, <1>3, <1>11
  <2>4. CASE j # i + 1 /\ k = i + 1
    <3>1. old(j) \in 1 .. n /\ t[j] = s[old(j)] /\ t[k] = e
      BY <2>1, <2>4, <1>7, <1>9
    <3> QED  BY <3>1, <1>2, <1>3, <1>11
  <2>5. CASE j # i + 1 /\ k # i + 1
    <3>1. old(j) \in 1 .. n /\ t[j] = s[old(j)] /\ old(k) \in 1 .. n /\ t[k] = s[old(k)]
      BY <2>1, <2>5, <1>7
    <3>2. old(j) = old(k) => j = k
      BY <2>1, <2>5, <1>8
    <3> QED  BY <3>1, <3>2, <1>3, <1>4
  <2> QED  BY <2>2, <2>3, <2>4, <2>5
<1> QED
  <2>1. t \in Seq(Step)
    BY <1>5
  <2>2. \A j, k \in DOMAIN t :
          /\ t[j].id = t[k].id => j = k
          /\ t[j].status = "in_progress" /\ t[k].status = "in_progress" => j = k
    BY <1>10
  <2>3. Coherent([p EXCEPT !.steps = t])
    BY <1>1, <2>1, <2>2, CoherentSteps
  <2> QED  BY <1>6, <2>3

\* A recorded call is such a step at the end.
LEMMA AppendedStepFacts ==
  ASSUME NEW p, InFile(p)
  PROVE  Coherent(AppendStep(p))
<1> DEFINE s == p.steps  n == Len(s)  e == NewStep(NextID(p))  t == Append(s, e)
<1>1. Coherent(p) /\ s \in Seq(Step) /\ n \in Nat /\ DOMAIN s = 1 .. n
  BY DEF Coherent, InFile
<1>2. e \in Step /\ e.id = n + 1 /\ e.status = "pending"
  BY <1>1, NewNumber DEF NewStep, Step, Statuses, InFile
<1>3. \A j \in 1 .. n : s[j].id = j
  BY <1>1 DEF InFile
<1>4. \A j, k \in 1 .. n : s[j].status = "in_progress" /\ s[k].status = "in_progress" => j = k
  BY <1>1 DEF Coherent
<1> HIDE DEF e
<1>5. t \in Seq(Step) /\ DOMAIN t = 1 .. n + 1 /\ (\A j \in 1 .. n : t[j] = s[j]) /\ t[n + 1] = e
  BY <1>1, <1>2
<1>6. AppendStep(p) = [p EXCEPT !.steps = t]
  BY DEF AppendStep, e
<1>7. \A m \in 1 .. n + 1 : m \in 1 .. n \/ m = n + 1
  BY <1>1
<1>8. \A m \in 1 .. n : m # n + 1
  BY <1>1
<1> HIDE DEF t, s, n
<1>9. ASSUME NEW j \in DOMAIN t, NEW k \in DOMAIN t
      PROVE  /\ t[j].id = t[k].id => j = k
             /\ t[j].status = "in_progress" /\ t[k].status = "in_progress" => j = k
  <2>1. (j \in 1 .. n \/ j = n + 1) /\ (k \in 1 .. n \/ k = n + 1)
    BY <1>5, <1>7
  <2> QED  BY <2>1, <1>2, <1>3, <1>4, <1>5, <1>8
<1> QED
  <2>1. t \in Seq(Step)
    BY <1>5
  <2>2. \A j, k \in DOMAIN t :
          /\ t[j].id = t[k].id => j = k
          /\ t[j].status = "in_progress" /\ t[k].status = "in_progress" => j = k
    BY <1>9
  <2>3. Coherent([p EXCEPT !.steps = t])
    BY <1>1, <2>1, <2>2, CoherentSteps
  <2> QED  BY <1>6, <2>3

\* A plan without one of its steps.
LEMMA RemovedStepFacts ==
  ASSUME NEW p, Coherent(p), NEW i \in DOMAIN p.steps
  PROVE  Coherent(RemoveStep(p, i))
<1> DEFINE s == p.steps  n == Len(s)  t == RemoveAt(s, i)
           old(j) == IF j < i THEN j ELSE j + 1
<1>1. s \in Seq(Step) /\ n \in Nat /\ DOMAIN s = 1 .. n /\ i \in 1 .. n
  BY DEF Coherent
<1>2. \A j, k \in 1 .. n : /\ s[j].id = s[k].id => j = k
                           /\ s[j].status = "in_progress" /\ s[k].status = "in_progress" => j = k
  BY <1>1 DEF Coherent
<1>3. t \in Seq(Step) /\ DOMAIN t = 1 .. n - 1 /\ \A j \in 1 .. n - 1 : t[j] = IF j < i THEN s[j] ELSE s[j + 1]
  BY <1>1, TakenOutFacts
<1>4. RemoveStep(p, i) = [p EXCEPT !.steps = t]
  BY DEF RemoveStep
<1>5. \A j \in 1 .. n - 1 : old(j) \in 1 .. n /\ t[j] = s[old(j)]
  BY <1>1, <1>3
<1>6. \A j, k \in 1 .. n - 1 : old(j) = old(k) => j = k
  BY <1>1
<1> HIDE DEF t, s, n, old
<1>7. \A j, k \in DOMAIN t :
        /\ t[j].id = t[k].id => j = k
        /\ t[j].status = "in_progress" /\ t[k].status = "in_progress" => j = k
  BY <1>2, <1>3, <1>5, <1>6
<1> QED
  <2>1. t \in Seq(Step)
    BY <1>3
  <2>2. \A j, k \in DOMAIN t :
          /\ t[j].id = t[k].id => j = k
          /\ t[j].status = "in_progress" /\ t[k].status = "in_progress" => j = k
    BY <1>7
  <2>3. Coherent([p EXCEPT !.steps = t])
    BY <1>1, <2>1, <2>2, CoherentSteps
  <2> QED  BY <1>4, <2>3

\* A new plan has its steps in order, none of them in progress.
LEMMA NewPlanFacts ==
  ASSUME NEW n \in Nat
  PROVE  Coherent(NewPlan(n))
<1> DEFINE s == [i \in 1 .. n |-> NewStep(i)]
<1>3. \A i \in 1 .. n : s[i] \in Step /\ s[i].id = i /\ s[i].status = "pending"
  BY DEF NewStep, Step, Statuses
<1>4. s \in Seq(Step) /\ DOMAIN s = 1 .. n
  <2>1. s \in [1 .. n -> Step]
    BY <1>3
  <2> QED  BY <2>1
<1> HIDE DEF s
<1>5. NewPlan(n) = [steps |-> s, mode |-> "execute"]
  BY DEF NewPlan, s
<1> DEFINE r == [steps |-> s, mode |-> "execute"]
<1>6. r \in [steps : Seq(Step), mode : {"execute", "propose"}] /\ r.steps = s
  BY <1>4
<1> HIDE DEF r
<1>7. Coherent(r)
  <2>1. \A i, j \in DOMAIN s :
          /\ s[i].id = s[j].id => i = j
          /\ s[i].status = "in_progress" /\ s[j].status = "in_progress" => i = j
    BY <1>3, <1>4
  <2> QED  BY <1>6, <2>1 DEF Coherent
<1> QED  BY <1>5, <1>7 DEF r

\* In the file a step is at the place of its number.
LEMMA FoundStep ==
  ASSUME NEW p, InFile(p), NEW id \in 1 .. Len(p.steps)
  PROVE  StepIndex(p, id) = id /\ id \in DOMAIN p.steps
<1> DEFINE I == {i \in 1 .. Len(p.steps) : p.steps[i].id = id}
<1>1. p.steps \in Seq(Step) /\ DOMAIN p.steps = 1 .. Len(p.steps) /\ \A i \in 1 .. Len(p.steps) : p.steps[i].id = i
  BY DEF InFile, Coherent
<1>2. I = {id} /\ I # {}
  BY <1>1
<1>3. StepIndex(p, id) = IF I # {} THEN Min(I) ELSE 0
  BY DEF StepIndex, SelectInSeq
<1> HIDE DEF I
<1>4. Min(I) = id
  BY <1>2 DEF Min
<1> QED  BY <1>1, <1>2, <1>3, <1>4

\* What an update makes of the plan in the file.
LEMMA UpdateAndAddFacts ==
  ASSUME NEW p, InFile(p), NEW i \in DOMAIN p.steps, NEW status \in Statuses \cup {""},
         NEW add
  PROVE  Coherent(UpdateAndAdd(p, i, status, add))
<1> DEFINE q == IF status = "" THEN p ELSE UpdateStep(p, i, status)
<1>1. /\ Coherent(q) /\ DOMAIN q.steps = DOMAIN p.steps
      /\ \A j \in DOMAIN p.steps : q.steps[j].id = j
  <2>1. CASE status = ""
    BY <2>1 DEF InFile
  <2>2. CASE status # ""
    <3>1. status \in Statuses /\ Coherent(p)
      BY <2>2 DEF InFile
    <3>2. /\ Coherent(UpdateStep(p, i, status)) /\ DOMAIN UpdateStep(p, i, status).steps = DOMAIN p.steps
          /\ \A j \in DOMAIN p.steps : UpdateStep(p, i, status).steps[j].id = p.steps[j].id
      BY <3>1, UpdatedFacts
    <3> QED  BY <2>2, <3>2 DEF InFile
  <2> QED  BY <2>1, <2>2
<1>2. UpdateAndAdd(p, i, status, add) = IF add THEN AddStepAfter(q, i) ELSE q
  BY DEF UpdateAndAdd
<1> HIDE DEF q
<1>4. CASE ~add
  BY <1>1, <1>2, <1>4
<1>5. CASE add
  <2>2. Coherent(AddStepAfter(q, i))
    BY <1>1, AddedStepFacts
  <2> QED  BY <1>2, <1>5, <2>2
<1> QED  BY <1>4, <1>5

\* A call that loads the plan keeps the invariant if its copy is coherent.
LEMMA LoadPlanKeeps ==
  ASSUME PlanInv, NEW c \in PlanCallers, NEW plan, plan = NoPlan \/ Coherent(plan), LoadPlan(c, plan)
  PROVE  PlanInv'
<1> DEFINE new == [at |-> "save", plan |-> plan]
<1>1. planFile' = planFile /\ planCall' = [planCall EXCEPT ![c] = new]
  BY DEF LoadPlan
<1>2. new = [at |-> new.at, plan |-> new.plan] /\ (new.plan = NoPlan \/ Coherent(new.plan))
  OBVIOUS
<1> HIDE DEF new
<1>3. planCall = [d \in PlanCallers |-> planCall[d]]
  BY DEF PlanInv
<1>4. \A d \in PlanCallers : planCall'[d] = IF d = c THEN new ELSE planCall[d]
  BY <1>1, <1>3
<1>5. planCall' = [d \in PlanCallers |-> planCall'[d]]
  BY <1>1, <1>3
<1>6. \A d \in PlanCallers :
        /\ planCall'[d] = [at |-> planCall'[d].at, plan |-> planCall'[d].plan]
        /\ planCall'[d].plan = NoPlan \/ Coherent(planCall'[d].plan)
  BY <1>2, <1>4 DEF PlanInv
<1> QED  BY <1>1, <1>5, <1>6 DEF PlanInv

\* Every step of a call keeps the file and the copies coherent.
LEMMA NextPlan == PlanInv /\ [PlanNext]_pvars => PlanInv'
<1> SUFFICES ASSUME PlanInv, [PlanNext]_pvars PROVE PlanInv'
  OBVIOUS
<1>0. planFile = NoPlan \/ InFile(planFile)
  BY DEF PlanInv
<1>1. ASSUME NEW c \in PlanCallers, PlanCreate(c) PROVE PlanInv'
  <2>1. PICK n \in 1 .. MaxSteps : planFile' = FormatAndParse(NewPlan(n))
    BY <1>1 DEF PlanCreate
  <2>4. n \in Nat
    BY PlanAssumption
  <2>2. planFile' = NoPlan \/ InFile(planFile')
    BY <2>1, <2>4, NewPlanFacts, SavedFacts
  <2>3. planCall' = planCall
    BY <1>1 DEF PlanCreate
  <2> QED  BY <2>2, <2>3 DEF PlanInv
<1>2. ASSUME NEW c \in PlanCallers, PlanUpdate(c) PROVE PlanInv'
  <2>1. planFile # NoPlan /\ InFile(planFile)
    BY <1>0, <1>2 DEF PlanUpdate
  <2>2. CASE \E id \in 1 .. Len(planFile.steps), status \in Statuses \cup {""}, add \in {FALSE, Room(planFile)} :
               LoadPlan(c, UpdateAndAdd(planFile, StepIndex(planFile, id), status, add))
    <3>1. PICK id \in 1 .. Len(planFile.steps), status \in Statuses \cup {""}, add \in {FALSE, Room(planFile)} :
                 LoadPlan(c, UpdateAndAdd(planFile, StepIndex(planFile, id), status, add))
      BY <2>2
    <3>2. StepIndex(planFile, id) \in DOMAIN planFile.steps
      BY <2>1, FoundStep
    <3>3. Coherent(UpdateAndAdd(planFile, StepIndex(planFile, id), status, add))
      BY <2>1, <3>2, UpdateAndAddFacts
    <3> QED  BY <3>1, <3>3, LoadPlanKeeps
  <2>3. CASE \E id \in 1 .. Len(planFile.steps) : LoadPlan(c, RemoveStep(planFile, StepIndex(planFile, id)))
    <3>1. PICK id \in 1 .. Len(planFile.steps) : LoadPlan(c, RemoveStep(planFile, StepIndex(planFile, id)))
      BY <2>3
    <3>2. StepIndex(planFile, id) \in DOMAIN planFile.steps /\ Coherent(planFile)
      BY <2>1, FoundStep DEF InFile
    <3>3. Coherent(RemoveStep(planFile, StepIndex(planFile, id)))
      BY <3>2, RemovedStepFacts
    <3> QED  BY <3>1, <3>3, LoadPlanKeeps
  <2> QED  BY <1>2, <2>2, <2>3 DEF PlanUpdate
<1>3. ASSUME NEW m \in {"execute", "propose"}, planFile # NoPlan PROVE Coherent([planFile EXCEPT !.mode = m])
  <2>1. Coherent(planFile)
    BY <1>0, <1>3 DEF InFile
  <2> QED  BY <2>1 DEF Coherent
<1>4. ASSUME NEW c \in PlanCallers, PlanMode(c) PROVE PlanInv'
  <2>1. PICK m \in {"execute", "propose"} : LoadPlan(c, [planFile EXCEPT !.mode = m])
    BY <1>4 DEF PlanMode
  <2>2. Coherent([planFile EXCEPT !.mode = m])
    BY <1>3, <1>4 DEF PlanMode
  <2> QED  BY <2>1, <2>2, LoadPlanKeeps
<1>5. ASSUME NEW c \in PlanCallers, ApproveActivePlan(c) PROVE PlanInv'
  <2>1. LoadPlan(c, [planFile EXCEPT !.mode = "execute"]) /\ Coherent([planFile EXCEPT !.mode = "execute"])
    BY <1>3, <1>5 DEF ApproveActivePlan
  <2> QED  BY <2>1, LoadPlanKeeps
<1>6. ASSUME NEW c \in PlanCallers, ClearActivePlan(c) PROVE PlanInv'
  BY <1>6, LoadPlanKeeps DEF ClearActivePlan
<1>7. ASSUME NEW c \in PlanCallers, Intercept(c) PROVE PlanInv'
  <2>1. InFile(planFile)
    BY <1>0, <1>7 DEF Intercept
  <2>2. LoadPlan(c, AppendStep(planFile))
    BY <1>7 DEF Intercept
  <2>3. Coherent(AppendStep(planFile))
    BY <2>1, AppendedStepFacts
  <2> QED  BY <2>2, <2>3, LoadPlanKeeps
<1>8. ASSUME NEW c \in PlanCallers, Save(c) PROVE PlanInv'
  <2>1. planFile' = NoPlan \/ InFile(planFile')
    <3>1. planCall[c].plan = NoPlan \/ Coherent(planCall[c].plan)
      BY DEF PlanInv
    <3>2. FormatAndParse(planCall[c].plan) = NoPlan \/ InFile(FormatAndParse(planCall[c].plan))
      BY <3>1, SavedFacts
    <3> QED  BY <1>0, <1>8, <3>2 DEF Save
  <2>2. planCall' = [planCall EXCEPT ![c] = NoPlanCall] /\ planCall = [d \in PlanCallers |-> planCall[d]]
    BY <1>8 DEF Save, PlanInv
  <2>3. \A d \in PlanCallers : planCall'[d] = IF d = c THEN NoPlanCall ELSE planCall[d]
    BY <2>2
  <2>4. planCall' = [d \in PlanCallers |-> planCall'[d]]
    BY <2>2
  <2>5. NoPlanCall = [at |-> NoPlanCall.at, plan |-> NoPlanCall.plan] /\ NoPlanCall.plan = NoPlan
    BY DEF NoPlanCall
  <2> QED  BY <2>1, <2>3, <2>4, <2>5 DEF PlanInv
<1>9. CASE UNCHANGED pvars
  BY <1>9 DEF PlanInv, pvars
<1> QED  BY <1>1, <1>2, <1>4, <1>5, <1>6, <1>7, <1>8, <1>9 DEF PlanNext

\* There is no plan at first.
LEMMA InitPlan == PlanInit => PlanInv
BY DEF PlanInit, PlanInv, NoPlanCall

\* A coherent plan is listed in full, and goes on where something is left.
LEMMA CoherentIsListed ==
  ASSUME NEW p, Coherent(p)
  PROVE  /\ Cardinality({i \in DOMAIN p.steps : p.steps[i].status = "in_progress"}) <= 1
         /\ Cardinality(FormatPrompt(p).listed) = Len(p.steps)
         /\ LET unfinished == {p.steps[i].id : i \in {j \in DOMAIN p.steps : p.steps[j].status \notin Terminal}}
            IN  IF unfinished = {} THEN FormatPrompt(p).next = 0 ELSE FormatPrompt(p).next \in unfinished
<1> DEFINE s == p.steps  n == Len(s)  ids == [i \in 1 .. n |-> s[i].id]
           undone == {j \in 1 .. n : s[j].status \notin Terminal}
<1>1. s \in Seq(Step) /\ n \in Nat /\ DOMAIN s = 1 .. n
  BY DEF Coherent
<1>2. \A i, j \in 1 .. n : /\ s[i].id = s[j].id => i = j
                           /\ s[i].status = "in_progress" /\ s[j].status = "in_progress" => i = j
  BY <1>1 DEF Coherent
<1>4. Cardinality({ids[i] : i \in 1 .. n}) = n
  <2>1. ids = [i \in 1 .. n |-> ids[i]] /\ \A i, j \in 1 .. n : ids[i] = ids[j] => i = j
    BY <1>2
  <2> HIDE DEF ids, n
  <2> QED  BY <1>1, <2>1, AsMany
<1>6. FormatPrompt(p).listed = {ids[i] : i \in 1 .. n}
  BY <1>1 DEF FormatPrompt
<1>7. Cardinality({i \in DOMAIN s : s[i].status = "in_progress"}) <= 1
  BY <1>1, <1>2, OneAtMost
<1>8. ResumeStep(p) = IF undone # {} THEN Min(undone) ELSE 0
  BY DEF ResumeStep, SelectInSeq
<1>9. FormatPrompt(p).next = IF IsComplete(p) \/ ResumeStep(p) = 0 THEN 0 ELSE s[ResumeStep(p)].id
  BY DEF FormatPrompt
<1>10. CASE undone = {}
  <2>1. FormatPrompt(p).next = 0
    BY <1>8, <1>9, <1>10
  <2>2. {s[i].id : i \in {j \in DOMAIN s : s[j].status \notin Terminal}} = {}
    BY <1>1, <1>10
  <2> QED  BY <1>4, <1>6, <1>7, <2>1, <2>2
<1>11. CASE undone # {}
  <2>1. undone \subseteq Nat
    BY <1>1
  <2>2. Min(undone) \in undone
    <3> HIDE DEF undone
    <3> QED  BY <1>11, <2>1, Smallest
  <2>3. ~IsComplete(p) /\ ResumeStep(p) = Min(undone) /\ Min(undone) # 0
    BY <1>1, <1>8, <1>11, <2>2 DEF IsComplete
  <2>4. FormatPrompt(p).next = s[Min(undone)].id
    BY <1>9, <2>3
  <2> DEFINE unfinished == {s[i].id : i \in {j \in DOMAIN s : s[j].status \notin Terminal}}
  <2>5. s[Min(undone)].id \in unfinished
    BY <1>1, <2>2
  <2> QED  BY <1>4, <1>6, <1>7, <2>4, <2>5
<1> QED  BY <1>10, <1>11

\* THE PLAN STAYS ONE PLAN: however calls overlap and overwrite one another's work, plan.md and every
\* copy of it has one step in progress at most, and a listing that shows every step by a number of its
\* own and goes on at one that is left (plan/plan.go:79, handlers.go:56), for any callers.
THEOREM PlanCoheres == PlanSpec => []PlanIsCoherent
<1>1. PlanInv => PlanIsCoherent
  <2> SUFFICES ASSUME PlanInv, NEW p \in Plans PROVE Coherent(p)
    BY CoherentIsListed DEF PlanIsCoherent
  <2> QED  BY DEF Plans, PlanInv, InFile
<1> QED  BY <1>1, InitPlan, NextPlan, PTL DEF PlanSpec

\* A call has loaded the plan or none.
CallsIdleOrSave == \A c \in PlanCallers : planCall[c].at \in {"idle", "save"}

\* For any calls, the file and every copy of it keep their kinds.
THEOREM PlanTyped == PlanSpec => []PlanTypeOK
<1>1. PlanInit => CallsIdleOrSave
  BY DEF PlanInit, CallsIdleOrSave, NoPlanCall
<1>2. PlanInv /\ CallsIdleOrSave /\ [PlanNext]_pvars => CallsIdleOrSave'
  <2> SUFFICES ASSUME PlanInv, CallsIdleOrSave, [PlanNext]_pvars PROVE CallsIdleOrSave'
    OBVIOUS
  <2>0. planCall = [c \in PlanCallers |-> planCall[c]]
    BY DEF PlanInv
  <2>1. ASSUME NEW c \in PlanCallers, NEW plan, LoadPlan(c, plan) PROVE CallsIdleOrSave'
    BY <2>0, <2>1 DEF LoadPlan, CallsIdleOrSave
  <2>2. ASSUME NEW c \in PlanCallers, Save(c) PROVE CallsIdleOrSave'
    BY <2>0, <2>2 DEF Save, CallsIdleOrSave, NoPlanCall
  <2>3. ASSUME NEW c \in PlanCallers, PlanCreate(c) PROVE CallsIdleOrSave'
    BY <2>3 DEF PlanCreate, CallsIdleOrSave
  <2>4. CASE UNCHANGED pvars
    BY <2>4 DEF pvars, CallsIdleOrSave
  <2>5. ASSUME NEW c \in PlanCallers, PlanUpdate(c) \/ PlanMode(c) \/ ApproveActivePlan(c) \/ ClearActivePlan(c) \/ Intercept(c)
        PROVE  \E plan : LoadPlan(c, plan)
    BY <2>5, Zenon DEF PlanUpdate, PlanMode, ApproveActivePlan, ClearActivePlan, Intercept
  <2> QED  BY <2>1, <2>2, <2>3, <2>4, <2>5 DEF PlanNext
<1>3. PlanInv /\ CallsIdleOrSave => PlanTypeOK
  <2> SUFFICES ASSUME PlanInv, CallsIdleOrSave, NEW p \in Plans
               PROVE  /\ p.mode \in {"execute", "propose"}
                      /\ \A i \in DOMAIN p.steps : p.steps[i].status \in Statuses
    BY DEF PlanTypeOK, CallsIdleOrSave
  <2>1. Coherent(p)
    BY DEF Plans, PlanInv, InFile
  <2>2. p.steps \in Seq(Step) /\ p.mode \in {"execute", "propose"}
    BY <2>1 DEF Coherent
  <2>3. \A i \in DOMAIN p.steps : p.steps[i] \in Step
    BY <2>2
  <2> QED  BY <2>2, <2>3 DEF Step
<1> QED  BY <1>1, <1>2, <1>3, InitPlan, NextPlan, PTL DEF PlanSpec

-----------------------------------------------------------------------------
(* The conversation and its compactions (Compaction).                      *)

ContextFact == [kind : {"file", "edit", "error", "cmd", "tool", "summary"}, file : Paths \cup {NoPath}, at : Nat]
FileLists == [read : SUBSET (Paths \cup {NoPath}), mod : SUBSET (Paths \cup {NoPath})]
Messages == [type : {"user", "assistant", "tool_result"}, size : 1 .. 4, lists : FileLists]
Handling == [at : {"idle", "extract", "clear", "write"}, left : Seq(ToolResults), read : Seq(Messages)]

Summary == Fact("summary", NoPath, 0)

\* Every fact once; those of the turn are the newest, but for a summary, and are there if they
\* are no more than a pruning leaves.
Once(fs) == \A i, j \in DOMAIN fs : i # j => fs[i] # fs[j]
Newer(fs, L) == \A i, j \in DOMAIN fs : i < j /\ fs[i] \in L => fs[j] \in L \cup {Summary}
Kept(fs, L) == Cardinality(L) <= MaxContextFacts - PruneCount => L \subseteq ToSet(fs)
Recent(L) == L \in SUBSET ContextFact /\ IsFiniteSet(L) /\ Summary \notin L

\* The limit with room for n facts of the turn, besides the summary that a compaction adds.
Fits(fs, n) == Len(fs) <= MaxContextFacts + 1 + n /\ (Len(fs) > MaxContextFacts + n => Summary \in ToSet(fs))
FewResults == \A rs \in TurnResults : Len(rs) < PruneCount
Limited(fs, H) ==
  FewResults =>
    /\ (\A c \in TurnHandlers : H[c].at # "extract") => Fits(fs, 0)
    /\ \A c \in TurnHandlers : H[c].at = "extract" =>
         Len(H[c].left) < PruneCount /\ Fits(fs, PruneCount - 1 - Len(H[c].left))
Alone(H) == \A c, d \in TurnHandlers : H[c].at = "extract" /\ H[d].at = "extract" => c = d

CompactionInv ==
  /\ msgs \in Seq(Messages) /\ turn \in Nat
  /\ facts \in Seq(ContextFact) /\ Once(facts)
  /\ handler \in [TurnHandlers -> Handling] /\ Alone(handler)
  /\ Recent(latest) /\ Newer(facts, latest) /\ Kept(facts, latest)
  /\ Limited(facts, handler)

\* What comes after another is f or came after it before.
InOrder(fs, gs, f) ==
  \A i, j \in DOMAIN gs : i < j => gs[j] = f \/ \E k, l \in DOMAIN fs : k < l /\ gs[i] = fs[k] /\ gs[j] = fs[l]

\* A fact that is set is the last; the others keep their order, and every fact is there once.
LEMMA SetFactFacts ==
  ASSUME NEW fs \in Seq(ContextFact), Once(fs), NEW f \in ContextFact
  PROVE  LET gs == SetFact(fs, f)
         IN  /\ gs \in Seq(ContextFact) /\ Len(gs) >= 1 /\ Once(gs) /\ f \in ToSet(gs)
             /\ Len(gs) = IF f \in ToSet(fs) THEN Len(fs) ELSE Len(fs) + 1
             /\ gs[Len(gs)] = f /\ ToSet(fs) \subseteq ToSet(gs) /\ InOrder(fs, gs, f)
<1> DEFINE n == Len(fs)  i == PlaceOf(fs, f)  I == {j \in 1 .. n : fs[j] = f}
           rs == IF i = 0 THEN fs ELSE RemoveAt(fs, i)
<1>1. n \in Nat /\ DOMAIN fs = 1 .. n /\ n = Len(fs) /\ SetFact(fs, f) = Append(rs, f)
  BY DEF SetFact
<1>2. (i = 0 /\ I = {}) \/ i \in I
  <2>1. i = IF I # {} THEN Min(I) ELSE 0
    BY DEF PlaceOf, SelectInSeq
  <2>2. I \subseteq Nat
    BY <1>1
  <2> HIDE DEF I, i
  <2> QED  BY <2>1, <2>2, Smallest
<1>3. (i \in I => i \in 1 .. n /\ fs[i] = f) /\ (f \in ToSet(fs) <=> I # {}) /\ 0 \notin I
  BY <1>1 DEF ToSet
<1>9. \A j, k \in 1 .. n : fs[j] = fs[k] => j = k
  BY <1>1 DEF Once
<1> HIDE DEF i, I, n
<1>4. CASE i = 0
  <2>1. rs = fs /\ f \notin ToSet(fs)
    BY <1>2, <1>3, <1>4
  <2> DEFINE gs == Append(fs, f)
  <2>2. gs \in Seq(ContextFact) /\ Len(gs) = n + 1 /\ gs[n + 1] = f /\ \A j \in 1 .. n : gs[j] = fs[j]
    BY <1>1, AppendProperties
  <2> HIDE DEF gs
  <2>3. fs # <<>> => n \in 1 .. n
    BY <1>1
  <2>4. \A x \in Nat : /\ x + 1 - 1 = x /\ (x + 1) - 1 = x /\ x + 1 >= 1 /\ x + 1 \in 1 .. x + 1
                       /\ \A j \in 1 .. x : j \in 1 .. x + 1
                       /\ \A j \in 1 .. x + 1 : j \in 1 .. x \/ j = x + 1
    OBVIOUS
  <2>5. SetFact(fs, f) = gs /\ DOMAIN gs = 1 .. n + 1
    BY <1>1, <2>1, <2>2 DEF gs
  <2>6. \A j \in 1 .. n : fs[j] # f
    BY <1>1, <2>1 DEF ToSet
  <2>7. Once(gs)
    <3> SUFFICES ASSUME NEW j \in 1 .. n + 1, NEW k \in 1 .. n + 1, gs[j] = gs[k] PROVE j = k
      BY <2>5 DEF Once
    <3>1. (j \in 1 .. n \/ j = n + 1) /\ (k \in 1 .. n \/ k = n + 1)
      BY <1>1, <2>4
    <3> QED  BY <1>9, <2>2, <2>6, <3>1, Zenon
  <2>8. f \in ToSet(gs)
    BY <1>1, <2>2, <2>4, <2>5 DEF ToSet
  <2>9. InOrder(fs, gs, f)
    <3> SUFFICES ASSUME NEW j \in 1 .. n + 1, NEW k \in 1 .. n + 1, j < k, gs[k] # f
                 PROVE  \E a, b \in 1 .. n : a < b /\ gs[j] = fs[a] /\ gs[k] = fs[b]
      BY <1>1, <2>5 DEF InOrder
    <3>1. j \in 1 .. n /\ k \in 1 .. n
      BY <1>1, <2>2
    <3> QED  BY <2>2, <3>1, Zenon
  <2>11. ToSet(fs) \subseteq ToSet(gs) /\ gs[Len(gs)] = f
    BY <1>1, <2>2, <2>4, <2>5 DEF ToSet
  <2>10. Len(gs) >= 1
    BY <1>1, <2>2, <2>4
  <2> QED  BY <1>1, <2>1, <2>2, <2>5, <2>7, <2>8, <2>9, <2>10, <2>11, Zenon
<1>5. CASE i # 0
  <2>1. i \in 1 .. n /\ fs[i] = f /\ f \in ToSet(fs)
    BY <1>2, <1>3, <1>5
  <2>2. rs = RemoveAt(fs, i)
    BY <1>5
  <2>3. /\ rs \in Seq(ContextFact) /\ DOMAIN rs = 1 .. n - 1
        /\ \A j \in 1 .. n - 1 : rs[j] = IF j < i THEN fs[j] ELSE fs[j + 1]
        /\ Len(rs) = n - 1
    BY <1>1, <2>1, <2>2, TakenOutFacts
  <2> HIDE DEF rs
  <2>4. i \in Nat /\ 1 <= i /\ i <= n /\ n - 1 \in Nat /\ n - 1 + 1 = n /\ (n - 1) + 1 = n
    BY <1>1, <2>1
  <2> DEFINE gs == Append(rs, f)  pos(j) == IF j = n THEN i ELSE IF j < i THEN j ELSE j + 1
  <2>5. gs \in Seq(ContextFact) /\ Len(gs) = n /\ gs[n] = f /\ \A j \in 1 .. n - 1 : gs[j] = rs[j]
    <3>1. gs \in Seq(ContextFact) /\ Len(gs) = (n - 1) + 1 /\ gs[(n - 1) + 1] = f /\ \A j \in 1 .. n - 1 : gs[j] = rs[j]
      BY <2>3, AppendProperties
    <3> QED  BY <2>4, <3>1
  <2>6. SetFact(fs, f) = gs
    BY <1>1
  <2> HIDE DEF gs
  <2>7. DOMAIN gs = 1 .. n /\ n \in 1 .. n
    BY <2>4, <2>5
  <2>8. \A x, y \in Nat : 1 <= x /\ x <= y =>
          \A j \in 1 .. y : /\ j # y => j \in 1 .. y - 1 /\ (~(j < x) => j + 1 \in 1 .. y)
                            /\ \A k \in 1 .. y : (IF j = y THEN x ELSE IF j < x THEN j ELSE j + 1)
                                                 = (IF k = y THEN x ELSE IF k < x THEN k ELSE k + 1) => j = k
    OBVIOUS
  <2>9. \A j \in 1 .. n : j # n => j \in 1 .. n - 1 /\ (~(j < i) => j + 1 \in 1 .. n)
    BY <1>1, <2>4, <2>8
  <2>10. \A j, k \in 1 .. n : pos(j) = pos(k) => j = k
    <3>1. n \in Nat /\ i \in Nat /\ 1 <= i /\ i <= n
      BY <1>1, <2>4
    <3> QED  BY ONLY <2>8, <3>1, Zenon
  <2>11. \A j \in 1 .. n : gs[j] = fs[pos(j)] /\ pos(j) \in 1 .. n
    BY <2>1, <2>3, <2>5, <2>9
  <2> HIDE DEF pos
  <2>12. Once(gs)
    <3> SUFFICES ASSUME NEW j \in 1 .. n, NEW k \in 1 .. n, gs[j] = gs[k] PROVE j = k
      BY <2>7 DEF Once
    <3>1. fs[pos(j)] = fs[pos(k)] /\ pos(j) \in 1 .. n /\ pos(k) \in 1 .. n
      BY <2>11, Zenon
    <3> QED  BY <1>9, <2>10, <3>1, Zenon
  <2>13. f \in ToSet(gs)
    BY <2>5, <2>7 DEF ToSet
  <2>14. DOMAIN fs = 1 .. n /\ DOMAIN gs = 1 .. n
    BY <1>1, <2>7, Zenon
  <2>17. n \in Nat
    BY <1>1, Zenon
  <2>18. InOrder(fs, gs, f)
    <3>9. ASSUME NEW j \in 1 .. n, NEW k \in 1 .. n, j < k, gs[k] # f
          PROVE  \E a, b \in 1 .. n : a < b /\ gs[j] = fs[a] /\ gs[k] = fs[b]
      <4>1. j # n /\ k # n
        <5>1. \A x \in Nat : \A a, b \in 1 .. x : a < b => a # x
          OBVIOUS
        <5> QED  BY ONLY <2>4, <2>5, <2>17, <5>1, <3>9, Zenon
      <4>2. \A x, y, a, b \in Nat : 1 <= x /\ a < b /\ a # y /\ b # y =>
              (IF a = y THEN x ELSE IF a < x THEN a ELSE a + 1) < (IF b = y THEN x ELSE IF b < x THEN b ELSE b + 1)
        OBVIOUS
      <4>3. pos(j) < pos(k)
        <5>1. j \in Nat /\ k \in Nat /\ i \in Nat /\ n \in Nat /\ 1 <= i
          BY <1>1, <2>4
        <5>2. (IF j = n THEN i ELSE IF j < i THEN j ELSE j + 1) < (IF k = n THEN i ELSE IF k < i THEN k ELSE k + 1)
          BY <3>9, <4>1, <4>2, <5>1, Zenon
        <5> QED  BY <5>2 DEF pos
      <4> QED  BY <2>11, <4>3, Zenon
    <3>10. \A j, k \in 1 .. n : j < k => gs[k] = f \/ \E a, b \in 1 .. n : a < b /\ gs[j] = fs[a] /\ gs[k] = fs[b]
      BY <3>9, Zenon
    <3> QED  BY ONLY <2>14, <3>10 DEF InOrder
  <2>15. Len(gs) >= 1 /\ Len(gs) = (IF f \in ToSet(fs) THEN Len(fs) ELSE Len(fs) + 1)
    BY <1>1, <2>1, <2>4, <2>5
  <2>16. ToSet(fs) \subseteq ToSet(gs)
    <3> SUFFICES ASSUME NEW k \in 1 .. n PROVE \E j \in 1 .. n : gs[j] = fs[k]
      BY <2>14, Zenon DEF ToSet
    <3>1. \E j \in 1 .. n : pos(j) = k
      <4>1. CASE k = i
        BY <2>7, <4>1 DEF pos
      <4>2. CASE k < i
        <5>1. k # n
          <6>1. \A x, y, z \in Nat : x < y /\ y <= z => x # z
            OBVIOUS
          <6>2. k \in Nat /\ i \in Nat /\ n \in Nat
            BY <1>1, <2>4
          <6> QED  BY <2>4, <4>2, <6>1, <6>2, Zenon
        <5> QED  BY <4>2, <5>1 DEF pos
      <4>3. CASE k # i /\ ~(k < i)
        <5>1. k - 1 \in 1 .. n /\ k - 1 # n /\ ~(k - 1 < i) /\ (k - 1) + 1 = k
          BY <1>1, <2>4, <4>3
        <5>2. pos(k - 1) = k
          BY <5>1 DEF pos
        <5> QED  BY <5>1, <5>2
      <4> QED  BY <4>1, <4>2, <4>3
    <3> QED  BY <2>11, <3>1
  <2> QED  BY <1>1, <2>5, <2>6, <2>12, <2>13, <2>18, <2>15, <2>16, Zenon
<1> QED  BY <1>4, <1>5

\* The facts of the turn stay the newest when one more of them is set, and when a summary is.
LEMMA NewerSet ==
  ASSUME NEW fs \in Seq(ContextFact), Once(fs), NEW f \in ContextFact, NEW L, Newer(fs, L), NEW N,
         (N = L \cup {f}) \/ (N = L /\ f = Summary)
  PROVE  Newer(SetFact(fs, f), N)
<1> DEFINE gs == SetFact(fs, f)
<1>1. gs \in Seq(ContextFact) /\ Once(gs) /\ gs[Len(gs)] = f /\ InOrder(fs, gs, f) /\ Len(gs) >= 1
  BY SetFactFacts
<1> HIDE DEF gs
<1> SUFFICES ASSUME NEW i \in DOMAIN gs, NEW j \in DOMAIN gs, i < j, gs[i] \in N
             PROVE  gs[j] \in N \cup {Summary}
  BY DEF Newer, gs
<1>2. CASE gs[j] = f
  BY <1>2
<1>3. CASE gs[j] # f
  <2>1. PICK k \in DOMAIN fs, l \in DOMAIN fs : k < l /\ gs[i] = fs[k] /\ gs[j] = fs[l]
    BY <1>1, <1>3, Zenon DEF InOrder
  <2>2. gs[i] # f
    <3>1. Len(gs) \in DOMAIN gs /\ i # Len(gs)
      BY <1>1
    <3> QED  BY <1>1, <3>1, Zenon DEF Once
  <2>3. fs[k] \in L
    BY <2>1, <2>2
  <2>4. fs[l] \in L \cup {Summary}
    BY <2>1, <2>3, Zenon DEF Newer
  <2> QED  BY <2>1, <2>4
<1> QED  BY <1>2, <1>3

\* Behind a fact of the turn there are no more than the others of the turn and a summary.
LEMMA FewBehind ==
  ASSUME NEW fs \in Seq(ContextFact), Once(fs), NEW L, Recent(L), Newer(fs, L), NEW i \in DOMAIN fs, fs[i] \in L
  PROVE  Len(fs) - i <= Cardinality(L) /\ Cardinality(L) \in Nat
<1> DEFINE n == Len(fs)  P == i .. n  T == L \cup {Summary}  g == [j \in P |-> fs[j]]
<1>1. n \in Nat /\ i \in 1 .. n /\ DOMAIN fs = 1 .. n /\ P \subseteq 1 .. n
  OBVIOUS
<1>2. IsFiniteSet(T) /\ Cardinality(T) <= Cardinality(L) + 1 /\ Cardinality(L) \in Nat /\ Cardinality(T) \in Nat
  <2>1. IsFiniteSet(L) /\ Summary \notin L
    BY DEF Recent
  <2>2. IsFiniteSet(L \cup {Summary}) /\ Cardinality(L \cup {Summary}) = Cardinality(L) + 1
    BY <2>1, FS_AddElement
  <2>3. Cardinality(L) \in Nat
    BY <2>1, FS_CardinalityType
  <2> QED  BY <2>2, <2>3
<1>3. Cardinality(P) = n - i + 1
  BY <1>1, FS_Interval
<1>4. \A j \in P : fs[j] \in T
  <2> SUFFICES ASSUME NEW j \in P PROVE fs[j] \in T
    OBVIOUS
  <2>1. CASE j = i
    BY <2>1
  <2>2. CASE j # i
    <3>1. i < j /\ j \in DOMAIN fs
      BY <1>1, <2>2
    <3> QED  BY <3>1, Zenon DEF Newer
  <2> QED  BY <2>1, <2>2
<1>5. \A j, k \in P : fs[j] = fs[k] => j = k
  BY <1>1 DEF Once
<1> HIDE DEF P, T
<1>6. g \in [P -> T] /\ \A j, k \in P : g[j] = g[k] => j = k
  BY <1>4, <1>5
<1> HIDE DEF g
<1>7. g \in Injection(P, T)
  BY <1>6 DEF Injection, IsInjective
<1>8. Cardinality(P) <= Cardinality(T)
  BY <1>2, <1>7, FS_Injection
<1> HIDE DEF n
<1>9. n - i <= Cardinality(L)
  BY <1>1, <1>2, <1>3, <1>8
<1> QED  BY <1>2, <1>9 DEF n

\* Pruning takes the oldest facts and none of the turn, unless the turn set very many.
LEMMA PrunedFacts ==
  ASSUME NEW fs \in Seq(ContextFact), Once(fs), NEW L, Recent(L), Newer(fs, L), Kept(fs, L)
  PROVE  /\ Prune(fs) \in Seq(ContextFact) /\ Once(Prune(fs)) /\ Newer(Prune(fs), L) /\ Kept(Prune(fs), L)
         /\ IF Len(fs) <= MaxContextFacts THEN Prune(fs) = fs ELSE Len(Prune(fs)) = Len(fs) - PruneCount
<1> DEFINE n == Len(fs)  p == PruneCount  hs == SubSeq(fs, p + 1, n)
<1>1. n \in Nat /\ DOMAIN fs = 1 .. n /\ p \in Nat /\ 1 < p /\ p < MaxContextFacts /\ MaxContextFacts \in Nat
  BY CompactionAssumption
<1>2. CASE n <= MaxContextFacts
  BY <1>2 DEF Prune
<1>3. CASE ~(n <= MaxContextFacts)
  <2>1. p + 1 \in Int /\ n \in Int /\ (\A j \in p + 1 .. n : fs[j] \in ContextFact) /\ p + 1 <= n
    BY <1>1, <1>3
  <2>2. /\ hs \in Seq(ContextFact) /\ Len(hs) = (IF p + 1 <= n THEN n - (p + 1) + 1 ELSE 0)
        /\ \A j \in 1 .. n - (p + 1) + 1 : hs[j] = fs[(p + 1) + j - 1]
    BY <2>1, SubSeqProperties
  <2>3. n - (p + 1) + 1 = n - p /\ \A j \in 1 .. n - p : (p + 1) + j - 1 = p + j /\ p + j \in 1 .. n
    BY <1>1
  <2>4. Prune(fs) = hs
    BY <1>3 DEF Prune
  <2> HIDE DEF hs
  <2>5. hs \in Seq(ContextFact) /\ DOMAIN hs = 1 .. n - p /\ Len(hs) = n - p /\ \A j \in 1 .. n - p : hs[j] = fs[p + j]
    BY <2>1, <2>2, <2>3
  <2>6. Once(hs)
    <3> SUFFICES ASSUME NEW j \in 1 .. n - p, NEW k \in 1 .. n - p, j # k PROVE hs[j] # hs[k]
      BY <2>5 DEF Once
    <3>1. p + j \in 1 .. n /\ p + k \in 1 .. n /\ p + j # p + k
      BY <1>1
    <3> QED  BY <1>1, <2>5, <3>1, Zenon DEF Once
  <2>7. Newer(hs, L)
    <3> SUFFICES ASSUME NEW j \in 1 .. n - p, NEW k \in 1 .. n - p, j < k, hs[j] \in L PROVE hs[k] \in L \cup {Summary}
      BY <2>5 DEF Newer
    <3>1. p + j \in 1 .. n /\ p + k \in 1 .. n /\ p + j < p + k
      BY <1>1
    <3> QED  BY <1>1, <2>5, <3>1, Zenon DEF Newer
  <2>8. Kept(hs, L)
    <3> SUFFICES ASSUME Cardinality(L) <= MaxContextFacts - p, NEW x \in L PROVE x \in ToSet(hs)
      BY DEF Kept
    <3>1. PICK i \in 1 .. n : fs[i] = x
      BY <1>1 DEF Kept, ToSet
    <3>2. n - i <= Cardinality(L) /\ Cardinality(L) \in Nat
      BY <1>1, <3>1, FewBehind
    <3>3. i - p \in 1 .. n - p /\ p + (i - p) = i
      <4> HIDE DEF n, p
      <4> QED  BY <1>1, <1>3, <3>2
    <3> QED  BY <2>5, <3>1, <3>3 DEF ToSet
  <2> QED  BY <1>3, <2>4, <2>5, <2>6, <2>7, <2>8
<1> QED  BY <1>2, <1>3

\* One handler moves on.
LEMMA HandlerMoves ==
  ASSUME NEW H \in [TurnHandlers -> Handling], NEW c \in TurnHandlers, NEW h \in Handling
  PROVE  LET J == [H EXCEPT ![c] = h]
         IN  /\ J \in [TurnHandlers -> Handling] /\ J[c] = h /\ \A d \in TurnHandlers : d # c => J[d] = H[d]
             /\ Alone(H) /\ (h.at = "extract" => \A d \in TurnHandlers \ {c} : H[d].at # "extract") => Alone(J)
BY DEF Alone

LEMMA IdleHandling ==
  /\ Idle \in Handling /\ Idle.at = "idle" /\ Handler("clear", <<>>, <<>>) \in Handling
  /\ \A ms \in Seq(Messages) : Handler("write", <<>>, ms) \in Handling
  /\ \A rs \in Seq(ToolResults) : Handler("extract", rs, <<>>) \in Handling
BY DEF Idle, Handler, Handling

\* A message that is cut is a message with the same lists.
LEMMA CutMessage ==
  ASSUME NEW m \in Messages
  PROVE  [m EXCEPT !.size = 1] \in Messages /\ [m EXCEPT !.size = 1].lists = m.lists
BY DEF Messages

\* Clearing leaves the newest messages alone.
LEMMA ClearedFacts ==
  ASSUME NEW ms \in Seq(Messages)
  PROVE  /\ Cleared(ms) \in Seq(Messages) /\ Len(Cleared(ms)) = Len(ms)
         /\ \A i \in 1 .. Len(ms) : i > Len(ms) - ClearTurns => Cleared(ms)[i] = ms[i]
<1> DEFINE n == Len(ms)  t == ClearOldToolResults(ms)
<1>1. n \in Nat /\ DOMAIN ms = 1 .. n /\ ClearTurns \in Nat
  BY CompactionAssumption
<1>2. DOMAIN t = 1 .. n /\ t = [i \in 1 .. n |-> t[i]]
  BY <1>1 DEF ClearOldToolResults
<1>3. \A i \in 1 .. n : t[i] \in Messages
  BY <1>1, CutMessage DEF ClearOldToolResults
<1>4. \A i \in 1 .. n : i > n - ClearTurns => t[i] = ms[i]
  BY <1>1 DEF ClearOldToolResults
<1> HIDE DEF t
<1>5. t \in Seq(Messages) /\ Len(t) = n
  <2>1. t \in [1 .. n -> Messages]
    BY <1>2, <1>3
  <2> HIDE DEF n
  <2> QED  BY <1>1, <2>1
<1> QED  BY <1>4, <1>5 DEF Cleared, t

\* So does the truncation before a compaction, and it leaves all lists of files.
LEMMA TruncatedFacts ==
  ASSUME NEW ms \in Seq(Messages)
  PROVE  LET t == TruncateToolResults(ms)
         IN  /\ t \in Seq(Messages) /\ Len(t) = Len(ms)
             /\ \A i \in 1 .. Len(ms) : t[i].lists = ms[i].lists /\ (i > Len(ms) - KeepRecent => t[i] = ms[i])
<1> DEFINE n == Len(ms)  t == TruncateToolResults(ms)
<1>1. n \in Nat /\ DOMAIN ms = 1 .. n /\ KeepRecent \in Nat
  BY CompactionAssumption
<1>2. DOMAIN t = 1 .. n /\ t = [i \in 1 .. n |-> t[i]]
  BY <1>1 DEF TruncateToolResults
<1>3. \A i \in 1 .. n : t[i] \in Messages /\ t[i].lists = ms[i].lists
  BY <1>1, CutMessage DEF TruncateToolResults
<1>4. \A i \in 1 .. n : i > n - KeepRecent => t[i] = ms[i]
  BY <1>1 DEF TruncateToolResults
<1> HIDE DEF t
<1>5. t \in Seq(Messages) /\ Len(t) = n
  <2>1. t \in [1 .. n -> Messages]
    BY <1>2, <1>3
  <2> HIDE DEF n
  <2> QED  BY <1>1, <2>1
<1> QED  BY <1>3, <1>4, <1>5 DEF t

\* The last part of a sequence that was put together.
LEMMA LastPart ==
  ASSUME NEW S, NEW a \in Seq(S), NEW b \in Seq(S)
  PROVE  SubSeq(a \o b, Len(a) + 1, Len(a) + Len(b)) = b
<1> DEFINE c == a \o b  m == Len(a)  k == Len(b)  r == SubSeq(c, m + 1, m + k)
<1>1. m \in Nat /\ k \in Nat /\ DOMAIN b = 1 .. k
  OBVIOUS
<1>2. c \in Seq(S) /\ Len(c) = m + k /\ \A j \in 1 .. m + k : c[j] = IF j <= m THEN a[j] ELSE b[j - m]
  BY ConcatProperties
<1> HIDE DEF c
<1>3. m + 1 \in Int /\ m + k \in Int /\ \A j \in m + 1 .. m + k : c[j] \in S
  <2>1. DOMAIN c = 1 .. m + k /\ \A j \in 1 .. m + k : c[j] \in S
    BY <1>2
  <2>2. \A j \in m + 1 .. m + k : j \in 1 .. m + k
    BY <1>1
  <2> QED  BY <1>1, <2>1, <2>2
<1>4. /\ r \in Seq(S) /\ Len(r) = (IF m + 1 <= m + k THEN m + k - (m + 1) + 1 ELSE 0)
      /\ \A j \in 1 .. m + k - (m + 1) + 1 : r[j] = c[(m + 1) + j - 1]
  <2> HIDE DEF m, k
  <2>1. (m + k) - (m + 1) + 1 = m + k - (m + 1) + 1
    BY <1>1
  <2> QED  BY <1>3, <2>1, SubSeqProperties
<1> HIDE DEF r, m, k
<1>5. \A x, y \in Nat : /\ (IF x + 1 <= x + y THEN x + y - (x + 1) + 1 ELSE 0) = y
                        /\ x + y - (x + 1) + 1 = y
                        /\ \A j \in 1 .. y : (x + 1) + j - 1 = x + j /\ x + j \in 1 .. x + y /\ ~(x + j <= x) /\ (x + j) - x = j
  OBVIOUS
<1>6. Len(r) = k /\ \A j \in 1 .. k : r[j] = c[m + j]
  BY <1>1, <1>4, <1>5
<1>7. ASSUME NEW j \in 1 .. k PROVE c[m + j] = b[j]
  <2>1. m + j \in 1 .. m + k /\ ~(m + j <= m) /\ (m + j) - m = j
    BY ONLY <1>1, <1>5, j \in 1 .. k
  <2>2. c[m + j] = b[(m + j) - m]
    BY <1>2, <2>1, Zenon
  <2> QED  BY <2>1, <2>2
<1>8. r = b
  <2>1. DOMAIN r = 1 .. k /\ r = [j \in 1 .. k |-> r[j]] /\ b = [j \in 1 .. k |-> b[j]]
    BY <1>1, <1>4, <1>6
  <2>2. \A j \in 1 .. k : r[j] = b[j]
    BY <1>6, <1>7
  <2> QED  BY <2>1, <2>2
<1> QED  BY <1>8 DEF r, c, m, k

\* The newest messages of two conversations that agree on them.
LEMMA SameSuffix ==
  ASSUME NEW S, NEW a \in Seq(S), NEW b \in Seq(S), NEW n \in Nat, n = Len(a), n = Len(b),
         NEW m \in Nat, 1 <= m, m <= n + 1, \A i \in m .. n : a[i] = b[i]
  PROVE  SubSeq(a, m, n) = SubSeq(b, m, n) /\ SubSeq(a, m, n) \in Seq(S) /\ Len(SubSeq(a, m, n)) = n - m + 1
<1> DEFINE r == SubSeq(a, m, n)  t == SubSeq(b, m, n)  k == n - m + 1
<1>1. DOMAIN a = 1 .. n /\ DOMAIN b = 1 .. n /\ \A j \in m .. n : j \in 1 .. n
  <2>1. DOMAIN a = 1 .. n /\ DOMAIN b = 1 .. n
    <3>1. DOMAIN a = 1 .. Len(a)
      BY ONLY a \in Seq(S)
    <3>2. DOMAIN b = 1 .. Len(b)
      BY ONLY b \in Seq(S)
    <3> QED  BY <3>1, <3>2, Zenon
  <2>2. \A x, y \in Nat : 1 <= x => \A j \in x .. y : j \in 1 .. y
    OBVIOUS
  <2>3. \A j \in m .. n : j \in 1 .. n
    BY ONLY <2>2, m \in Nat, n \in Nat, 1 <= m
  <2> QED  BY <2>1, <2>3
<1>2. \A j \in m .. n : a[j] \in S /\ b[j] \in S /\ a[j] = b[j]
  BY <1>1
<1>3. (IF m <= n THEN n - m + 1 ELSE 0) = k /\ k \in Nat /\ \A j \in 1 .. k : m + j - 1 \in m .. n
  OBVIOUS
<1>4. r \in Seq(S) /\ Len(r) = k /\ \A j \in 1 .. k : r[j] = a[m + j - 1]
  BY <1>2, <1>3, SubSeqProperties
<1>5. t \in Seq(S) /\ Len(t) = k /\ \A j \in 1 .. k : t[j] = b[m + j - 1]
  BY <1>2, <1>3, SubSeqProperties
<1> HIDE DEF r, t
<1>6. r = t
  <2>1. r = [j \in 1 .. k |-> r[j]] /\ t = [j \in 1 .. k |-> t[j]]
    BY <1>3, <1>4, <1>5
  <2>2. \A j \in 1 .. k : r[j] = t[j]
    BY <1>2, <1>3, <1>4, <1>5
  <2> HIDE DEF k
  <2> QED  BY <2>1, <2>2
<1> QED  BY <1>4, <1>6 DEF r, t

\* A turn adds its messages, and starts on its facts with none of them.
LEMMA TurnEndFacts ==
  ASSUME CompactionInv, NEW c \in TurnHandlers, TurnEnd(c)
  PROVE  CompactionInv' /\ turn' # turn /\ latest' = {} /\ ~Wrote(c)
<1>1. PICK rs \in TurnResults : \E size \in [DOMAIN rs -> 1 .. 4] :
       /\ msgs' = Append(msgs, Message("assistant", 1, NoLists))
                    \o [i \in DOMAIN rs |-> Message("tool_result", size[i], NoLists)]
       /\ handler' = [handler EXCEPT ![c] = Handler("extract", rs, <<>>)]
  BY DEF TurnEnd
<1>2. PICK size \in [DOMAIN rs -> 1 .. 4] :
       msgs' = Append(msgs, Message("assistant", 1, NoLists))
                    \o [i \in DOMAIN rs |-> Message("tool_result", size[i], NoLists)]
  BY <1>1
<1> DEFINE more == [i \in DOMAIN rs |-> Message("tool_result", size[i], NoLists)]
           h == Handler("extract", rs, <<>>)
<1>3. /\ msgs \in Seq(Messages) /\ turn \in Nat /\ handler \in [TurnHandlers -> Handling] /\ Alone(handler)
      /\ rs \in Seq(ToolResults) /\ PruneCount \in Nat /\ MaxContextFacts \in Nat /\ 1 < PruneCount
  BY CompactionAssumption DEF CompactionInv
<1>4. /\ turn' = turn + 1 /\ latest' = {} /\ facts' = facts
      /\ handler[c].at = "idle" /\ \A d \in TurnHandlers : handler[d].at # "extract"
  BY DEF TurnEnd, Extracting
<1>5. msgs' \in Seq(Messages)
  <2>1. NoLists \in FileLists
    BY DEF NoLists, Lists, FileLists
  <2>2. Message("assistant", 1, NoLists) \in Messages /\ \A k \in 1 .. 4 : Message("tool_result", k, NoLists) \in Messages
    BY <2>1 DEF Message, Messages
  <2>3. DOMAIN rs = 1 .. Len(rs) /\ Len(rs) \in Nat
    BY <1>3
  <2>4. more \in [1 .. Len(rs) -> Messages]
    BY <2>2, <2>3
  <2>5. more \in Seq(Messages)
    BY <2>3, <2>4, SeqDef
  <2>6. Append(msgs, Message("assistant", 1, NoLists)) \in Seq(Messages)
    BY <1>3, <2>2, AppendProperties
  <2> HIDE DEF more
  <2>7. msgs' = Append(msgs, Message("assistant", 1, NoLists)) \o more
    BY <1>2 DEF more
  <2> QED  BY <2>5, <2>6, <2>7, ConcatProperties
<1>6. h \in Handling /\ h.at = "extract" /\ h.left = rs
  BY <1>3, IdleHandling DEF Handler
<1> HIDE DEF h
<1>7. handler' = [handler EXCEPT ![c] = h]
  BY <1>1 DEF h
<1>8. /\ handler' \in [TurnHandlers -> Handling] /\ Alone(handler') /\ handler'[c] = h
      /\ \A d \in TurnHandlers : d # c => handler'[d] = handler[d]
  BY <1>3, <1>4, <1>6, <1>7, HandlerMoves
<1>9. Recent({}) /\ Newer(facts, {}) /\ Kept(facts, {})
  BY FS_EmptySet DEF Recent, Newer, Kept
<1>10. Limited(facts, handler')
  <2> SUFFICES ASSUME FewResults
               PROVE  /\ \E d \in TurnHandlers : handler'[d].at = "extract"
                      /\ \A d \in TurnHandlers : handler'[d].at = "extract" =>
                           Len(handler'[d].left) < PruneCount /\ Fits(facts, PruneCount - 1 - Len(handler'[d].left))
    BY DEF Limited
  <2>1. Len(rs) < PruneCount /\ Len(rs) \in Nat
    BY <1>3 DEF FewResults
  <2>2. Fits(facts, 0)
    BY <1>4 DEF CompactionInv, Limited
  <2>3. Len(facts) \in Nat
    BY DEF CompactionInv
  <2>4. Fits(facts, PruneCount - 1 - Len(rs))
    BY <1>3, <2>1, <2>2, <2>3 DEF Fits
  <2> QED  BY <1>4, <1>6, <1>8, <2>1, <2>4
<1>11. CompactionInv'
  <2>1. facts \in Seq(ContextFact) /\ Once(facts) /\ turn' \in Nat
    BY <1>3, <1>4 DEF CompactionInv
  <2> QED  BY <1>4, <1>5, <1>8, <1>9, <1>10, <2>1 DEF CompactionInv
<1> QED  BY <1>3, <1>4, <1>11 DEF Wrote

\* A result that becomes a fact.
LEMMA ExtractFacts ==
  ASSUME CompactionInv, NEW c \in TurnHandlers, ExtractToolResult(c)
  PROVE  CompactionInv' /\ turn' = turn /\ msgs' = msgs
<1> DEFINE left == handler[c].left  f == ExtractedFact(Head(left), turn)  h == [handler[c] EXCEPT !.left = Tail(left)]
<1>1. /\ handler \in [TurnHandlers -> Handling] /\ Alone(handler) /\ handler[c] \in Handling
      /\ turn \in Nat /\ facts \in Seq(ContextFact) /\ Once(facts) /\ PruneCount \in Nat /\ MaxContextFacts \in Nat
  BY CompactionAssumption DEF CompactionInv
<1>2. /\ handler[c].at = "extract" /\ left # <<>> /\ turn' = turn /\ msgs' = msgs
      /\ handler' = [handler EXCEPT ![c] = h]
      /\ (f # NoFact /\ facts' = SetFact(facts, f) /\ latest' = latest \cup {f}) \/ (facts' = facts /\ latest' = latest)
  BY DEF ExtractToolResult, Extracting
<1>3. left \in Seq(ToolResults) /\ Head(left) \in ToolResults /\ Tail(left) \in Seq(ToolResults)
      /\ Len(Tail(left)) = Len(left) - 1 /\ Len(left) \in Nat /\ Len(left) >= 1
  <2>1. left \in Seq(ToolResults)
    BY <1>1 DEF Handling
  <2> HIDE DEF left
  <2> QED  BY <1>2, <2>1, HeadTailProperties
<1>4. f = NoFact \/ (f \in ContextFact /\ f # Summary)
  <2> DEFINE r == Head(left)
  <2>1. r \in ToolResults /\ r.file \in Paths \cup {NoPath}
    BY <1>3 DEF ToolResults
  <2> HIDE DEF r, left
  <2>2. ExtractedFact(r, turn) = NoFact \/ (ExtractedFact(r, turn) \in ContextFact /\ ExtractedFact(r, turn).kind # "summary")
    BY <1>1, <2>1 DEF ExtractedFact, ContextFact, Fact
  <2>3. Summary.kind = "summary"
    BY DEF Summary, Fact
  <2> QED  BY <2>2, <2>3 DEF r
<1>5. h \in Handling /\ h.at = "extract" /\ h.left = Tail(left)
  BY <1>1, <1>2, <1>3 DEF Handling
<1> HIDE DEF f, left, h
<1>6. /\ handler' \in [TurnHandlers -> Handling] /\ Alone(handler') /\ handler'[c] = h
      /\ \A d \in TurnHandlers : d # c => handler'[d].at # "extract"
  <2>1. \A d \in TurnHandlers \ {c} : handler[d].at # "extract"
    BY <1>1, <1>2 DEF Alone
  <2> QED  BY <1>1, <1>2, <1>5, <2>1, HandlerMoves
<1>7. FewResults => Len(left) < PruneCount /\ Fits(facts, PruneCount - 1 - Len(left))
  BY <1>2 DEF CompactionInv, Limited, left
<1>8. ASSUME NEW gs \in Seq(ContextFact), Len(gs) = Len(facts) \/ Len(gs) = Len(facts) + 1, ToSet(facts) \subseteq ToSet(gs)
      PROVE  Limited(gs, handler')
  <2>1. ASSUME FewResults PROVE Len(h.left) < PruneCount /\ Fits(gs, PruneCount - 1 - Len(h.left))
    <3>1. Len(facts) \in Nat /\ Len(gs) \in Nat
      BY <1>1
    <3>2. PruneCount - 1 - Len(h.left) = (PruneCount - 1 - Len(left)) + 1 /\ Len(h.left) < PruneCount
      BY <1>1, <1>3, <1>5, <1>7, <2>1
    <3> DEFINE k == PruneCount - 1 - Len(left)
    <3>3. k \in Int /\ Fits(facts, k)
      BY <1>1, <1>3, <1>7, <2>1
    <3> HIDE DEF k
    <3>4. Fits(gs, k + 1)
      BY <1>1, <1>8, <3>1, <3>3 DEF Fits
    <3> QED  BY <3>2, <3>4 DEF k
  <2> QED  BY <1>5, <1>6, <2>1 DEF Limited
<1>9. Recent(latest) /\ Newer(facts, latest) /\ Kept(facts, latest)
  BY DEF CompactionInv
<1>10. CASE facts' = facts /\ latest' = latest
  <2>1. Limited(facts', handler')
    BY <1>1, <1>8, <1>10
  <2> QED  BY <1>1, <1>2, <1>6, <1>9, <1>10, <2>1 DEF CompactionInv
<1>11. CASE f # NoFact /\ facts' = SetFact(facts, f) /\ latest' = latest \cup {f}
  <2>1. f \in ContextFact /\ f # Summary
    BY <1>4, <1>11
  <2> DEFINE gs == SetFact(facts, f)  N == latest \cup {f}
  <2>2. /\ gs \in Seq(ContextFact) /\ Once(gs) /\ f \in ToSet(gs) /\ ToSet(facts) \subseteq ToSet(gs)
        /\ Len(gs) = IF f \in ToSet(facts) THEN Len(facts) ELSE Len(facts) + 1
    BY <1>1, <2>1, SetFactFacts, Zenon
  <2>3. Newer(gs, N)
    BY <1>1, <1>9, <2>1, NewerSet
  <2>4. Recent(N) /\ (Cardinality(N) <= MaxContextFacts - PruneCount => Cardinality(latest) <= MaxContextFacts - PruneCount)
    <3>1. IsFiniteSet(latest) /\ latest \in SUBSET ContextFact /\ Summary \notin latest
      BY <1>9 DEF Recent
    <3>2. IsFiniteSet(N) /\ Cardinality(N) \in Nat /\ Cardinality(latest) \in Nat /\ Cardinality(latest) <= Cardinality(N)
      <4>1. IsFiniteSet(N) /\ Cardinality(N) = IF f \in latest THEN Cardinality(latest) ELSE Cardinality(latest) + 1
        BY <3>1, FS_AddElement
      <4>2. Cardinality(N) \in Nat /\ Cardinality(latest) \in Nat
        BY <3>1, <4>1, FS_CardinalityType
      <4> HIDE DEF N
      <4> QED  BY <4>1, <4>2
    <3> HIDE DEF N
    <3>3. Cardinality(N) <= MaxContextFacts - PruneCount => Cardinality(latest) <= MaxContextFacts - PruneCount
      BY <1>1, <3>2
    <3> QED  BY <2>1, <3>1, <3>2, <3>3 DEF Recent, N
  <2> HIDE DEF gs
  <2>5. Kept(gs, N)
    BY <1>9, <2>2, <2>4 DEF Kept
  <2>6. Limited(gs, handler')
    BY <1>8, <2>2
  <2> HIDE DEF N
  <2>7. facts' = gs /\ latest' = N
    BY <1>11 DEF gs, N
  <2>8. msgs \in Seq(Messages)
    BY DEF CompactionInv
  <2> QED  BY <1>1, <1>2, <1>6, <2>2, <2>3, <2>4, <2>5, <2>6, <2>7, <2>8 DEF CompactionInv
<1> QED  BY <1>2, <1>10, <1>11

\* Pruning at the end of a turn.
LEMMA PruneFacts ==
  ASSUME CompactionInv, NEW c \in TurnHandlers, PruneIfNeeded(c)
  PROVE  CompactionInv' /\ turn' = turn /\ msgs' = msgs
<1> DEFINE h == Handler("clear", <<>>, <<>>)
<1>1. /\ handler \in [TurnHandlers -> Handling] /\ Alone(handler) /\ msgs \in Seq(Messages) /\ turn \in Nat
      /\ facts \in Seq(ContextFact) /\ Once(facts) /\ PruneCount \in Nat /\ MaxContextFacts \in Nat
      /\ 1 < PruneCount /\ Recent(latest) /\ Newer(facts, latest) /\ Kept(facts, latest)
  BY CompactionAssumption DEF CompactionInv
<1>2. /\ handler[c].at = "extract" /\ handler[c].left = <<>> /\ facts' = Prune(facts)
      /\ handler' = [handler EXCEPT ![c] = h] /\ UNCHANGED <<msgs, turn, latest>>
  BY DEF PruneIfNeeded, Extracting
<1>3. h \in Handling /\ h.at = "clear"
  BY IdleHandling DEF Handler
<1> HIDE DEF h
<1>4. /\ handler' \in [TurnHandlers -> Handling] /\ Alone(handler')
      /\ \A d \in TurnHandlers : handler'[d].at # "extract"
  <2>1. \A d \in TurnHandlers \ {c} : handler[d].at # "extract"
    BY <1>1, <1>2 DEF Alone
  <2> QED  BY <1>1, <1>2, <1>3, <2>1, HandlerMoves
<1>5. /\ facts' \in Seq(ContextFact) /\ Once(facts') /\ Newer(facts', latest) /\ Kept(facts', latest)
      /\ IF Len(facts) <= MaxContextFacts THEN facts' = facts ELSE Len(facts') = Len(facts) - PruneCount
  BY <1>1, <1>2, PrunedFacts
<1>6. ASSUME FewResults PROVE Fits(facts', 0)
  <2>1. Fits(facts, PruneCount - 1)
    <3>1. Fits(facts, PruneCount - 1 - Len(handler[c].left))
      BY <1>2, <1>6 DEF CompactionInv, Limited
    <3>2. PruneCount - 1 - Len(handler[c].left) = PruneCount - 1
      BY <1>1, <1>2
    <3> QED  BY <3>1, <3>2
  <2>2. Len(facts) \in Nat /\ Len(facts') \in Nat
    BY <1>1, <1>5
  <2> QED  BY <1>1, <1>5, <2>1, <2>2 DEF Fits
<1>7. Limited(facts', handler')
  BY <1>4, <1>6 DEF Limited
<1> QED  BY <1>1, <1>2, <1>4, <1>5, <1>7 DEF CompactionInv

\* Where no turn's facts are under way at this handler, before and after, its moves change nothing.
LEMMA StillLimited ==
  ASSUME NEW fs, NEW H \in [TurnHandlers -> Handling], Limited(fs, H), NEW c \in TurnHandlers, NEW h \in Handling,
         H[c].at # "extract", h.at # "extract"
  PROVE  Limited(fs, [H EXCEPT ![c] = h])
<1> DEFINE J == [H EXCEPT ![c] = h]
<1>1. J[c] = h /\ \A d \in TurnHandlers : d # c => J[d] = H[d]
  OBVIOUS
<1> HIDE DEF J
<1>2. \A d \in TurnHandlers : (J[d].at = "extract" <=> H[d].at = "extract") /\ (H[d].at = "extract" => J[d] = H[d])
  BY <1>1
<1>3. Limited(fs, J)
  BY <1>2 DEF Limited
<1> QED  BY <1>3 DEF J

\* The clearer's reading, and its writing.
LEMMA ClearFacts ==
  ASSUME CompactionInv, NEW c \in TurnHandlers, ClearerReads(c) \/ ClearerWrites(c)
  PROVE  /\ CompactionInv' /\ turn' = turn /\ facts' = facts /\ latest' = latest /\ handler' # handler
         /\ \A d \in TurnHandlers : Wrote(d) =>
              d = c /\ (msgs' = msgs \/ msgs' = Cleared(handler[d].read)) /\ handler[d].read \in Seq(Messages)
<1>1. /\ handler \in [TurnHandlers -> Handling] /\ Alone(handler) /\ msgs \in Seq(Messages) /\ turn \in Nat
      /\ facts \in Seq(ContextFact) /\ Once(facts) /\ Recent(latest) /\ Newer(facts, latest) /\ Kept(facts, latest)
      /\ Limited(facts, handler) /\ handler[c].read \in Seq(Messages)
  BY DEF CompactionInv, Handling
<1>2. PICK h \in Handling : h.at # handler[c].at /\ h.at # "extract" /\ handler' = [handler EXCEPT ![c] = h]
  <2>1. CASE ClearerReads(c)
    <3>1. PICK next \in {Idle} \cup (IF Cleared(msgs) = msgs THEN {} ELSE {Handler("write", <<>>, msgs)}) :
            handler' = [handler EXCEPT ![c] = next]
      BY <2>1 DEF ClearerReads
    <3>2. next \in Handling /\ next.at \in {"idle", "write"}
      BY <1>1, <3>1, IdleHandling DEF Idle, Handler
    <3> QED  BY <2>1, <3>1, <3>2 DEF ClearerReads
  <2>2. CASE ClearerWrites(c)
    BY <2>2, IdleHandling DEF ClearerWrites
  <2> QED  BY <2>1, <2>2
<1>3. handler[c].at # "extract" /\ UNCHANGED <<turn, facts, latest>>
  BY DEF ClearerReads, ClearerWrites
<1>4. /\ handler' \in [TurnHandlers -> Handling] /\ Alone(handler') /\ handler'[c] = h
      /\ \A d \in TurnHandlers : d # c => handler'[d] = handler[d]
  BY <1>1, <1>2, HandlerMoves
<1>5. Limited(facts, handler')
  BY <1>1, <1>2, <1>3, StillLimited
<1>6. msgs' \in Seq(Messages) /\ (msgs' = msgs \/ msgs' = Cleared(handler[c].read))
  <2>1. Cleared(handler[c].read) \in Seq(Messages)
    BY <1>1, ClearedFacts
  <2> QED  BY <1>1, <2>1 DEF ClearerReads, ClearerWrites
<1>7. CompactionInv'
  BY <1>1, <1>3, <1>4, <1>5, <1>6 DEF CompactionInv
<1>8. handler' # handler /\ \A d \in TurnHandlers : Wrote(d) => d = c
  BY <1>2, <1>4 DEF Wrote
<1> QED  BY <1>1, <1>3, <1>6, <1>7, <1>8

\* The lists of a conversation and of the facts.
LEMMA ListsFacts ==
  ASSUME NEW ms \in Seq(Messages), facts \in Seq(ContextFact)
  PROVE  Named(ms) \in FileLists /\ BuildFactSummary.lists \in FileLists
<1>1. \A i \in DOMAIN ms : ms[i].lists \in FileLists
  <2>1. \A i \in DOMAIN ms : ms[i] \in Messages
    OBVIOUS
  <2> QED  BY <2>1 DEF Messages
<1>2. UNION {ms[i].lists.read : i \in DOMAIN ms} \subseteq Paths \cup {NoPath}
  BY <1>1 DEF FileLists
<1>3. UNION {ms[i].lists.mod : i \in DOMAIN ms} \subseteq Paths \cup {NoPath}
  BY <1>1 DEF FileLists
<1>4. \A i \in DOMAIN facts : facts[i].file \in Paths \cup {NoPath}
  <2>1. \A i \in DOMAIN facts : facts[i] \in ContextFact
    OBVIOUS
  <2> QED  BY <2>1 DEF ContextFact
<1>5. PathsOf("file") \subseteq Paths \cup {NoPath} /\ PathsOf("edit") \subseteq Paths \cup {NoPath}
  BY <1>4 DEF PathsOf
<1> QED  BY <1>2, <1>3, <1>5 DEF Named, BuildFactSummary, Lists, FileLists

\* What a compaction leaves: the newest messages, and the files in the summary.
LEMMA CompactFacts ==
  ASSUME CompactionInv, Compact
  PROVE  /\ CompactionInv' /\ turn' = turn /\ handler' = handler
         /\ Newest(msgs', KeepRecent) = Newest(msgs, KeepRecent)
         /\ ~modelAsked' => /\ Named(msgs).read \cup PathsOf("file") \subseteq Named(msgs').read
                            /\ Named(msgs).mod \cup PathsOf("edit") \subseteq Named(msgs').mod
<1> DEFINE cut == TruncateToolResults(msgs)
           summary == MergeFileLists(BuildFactSummary, ExtractPriorFileLists(cut))
           facts1 == IF summary.empty THEN facts ELSE SetFact(facts, Summary)
           items == GatherCriticalContext(facts1)
           kept == SubSeq(cut, Len(cut) - KeepRecent + 1, Len(cut))
           more == IF items = <<>> THEN <<>> ELSE <<Message("user", 1, NoLists)>>
<1>0. msgs \in Seq(Messages) /\ facts \in Seq(ContextFact) /\ turn \in Nat /\ KeepRecent \in Nat
  BY CompactionAssumption DEF CompactionInv
<1>1. PICK refined \in {FALSE, TRUE} :
        LET lists == IF refined THEN NoLists ELSE summary.lists
        IN  /\ modelAsked' = refined
            /\ facts' = facts1
            /\ msgs' = <<Message("user", 1, lists)>> \o more \o kept
  BY DEF Compact, Summary
<1> DEFINE lists == IF refined THEN NoLists ELSE summary.lists
           first == Message("user", 1, lists)
           head == <<first>> \o more
<1>2. cut \in Seq(Messages) /\ Len(cut) = Len(msgs)
      /\ \A i \in 1 .. Len(msgs) : cut[i].lists = msgs[i].lists /\ (i > Len(msgs) - KeepRecent => cut[i] = msgs[i])
  BY <1>0, TruncatedFacts
<1> HIDE DEF cut
<1>3. Named(cut) = Named(msgs)
  <2>1. DOMAIN cut = 1 .. Len(msgs) /\ DOMAIN msgs = 1 .. Len(msgs)
    BY <1>0, <1>2
  <2>2. {cut[i].lists.read : i \in DOMAIN cut} = {msgs[i].lists.read : i \in DOMAIN msgs}
    BY <1>2, <2>1
  <2>3. {cut[i].lists.mod : i \in DOMAIN cut} = {msgs[i].lists.mod : i \in DOMAIN msgs}
    BY <1>2, <2>1
  <2> QED  BY <2>2, <2>3 DEF Named
<1>4. /\ summary.lists \in FileLists
      /\ Named(msgs).read \cup PathsOf("file") \subseteq summary.lists.read
      /\ Named(msgs).mod \cup PathsOf("edit") \subseteq summary.lists.mod
  <2>1. Named(msgs) \in FileLists /\ BuildFactSummary.lists \in FileLists
    BY <1>0, ListsFacts
  <2>2. BuildFactSummary.lists.read = PathsOf("file") /\ BuildFactSummary.lists.mod = PathsOf("edit")
    BY DEF BuildFactSummary, Lists
  <2>3. CASE Named(msgs) = NoLists
    <3>1. summary = BuildFactSummary
      BY <1>3, <2>3 DEF MergeFileLists, ExtractPriorFileLists
    <3>2. Named(msgs).read = {} /\ Named(msgs).mod = {}
      BY <2>3 DEF NoLists, Lists
    <3> QED  BY <2>1, <2>2, <3>1, <3>2
  <2>4. CASE Named(msgs) # NoLists
    <3> DEFINE b == BuildFactSummary.lists  n == Named(msgs)
    <3>1. summary.lists = Lists(b.read \cup n.read, b.mod \cup n.mod)
      BY <1>3, <2>4 DEF MergeFileLists, ExtractPriorFileLists
    <3> HIDE DEF b, n, summary
    <3>2. b \in FileLists /\ n \in FileLists /\ b.read = PathsOf("file") /\ b.mod = PathsOf("edit")
      BY <2>1, <2>2 DEF b, n
    <3>3. summary.lists \in FileLists /\ summary.lists.read = b.read \cup n.read /\ summary.lists.mod = b.mod \cup n.mod
      BY <3>1, <3>2 DEF Lists, FileLists
    <3> QED  BY <3>2, <3>3 DEF n
  <2> QED  BY <2>3, <2>4
<1>5. /\ facts1 \in Seq(ContextFact) /\ Once(facts1) /\ Limited(facts1, handler)
      /\ Newer(facts1, latest) /\ Kept(facts1, latest)
  <2>1. Summary \in ContextFact
    BY DEF Fact, ContextFact, Summary
  <2> HIDE DEF summary
  <2>2. CASE summary.empty
    BY <2>2 DEF CompactionInv
  <2>3. CASE ~summary.empty
    <3>1. facts1 = SetFact(facts, Summary)
      BY <2>3
    <3> HIDE DEF facts1
    <3>2. /\ facts1 \in Seq(ContextFact) /\ Once(facts1) /\ Summary \in ToSet(facts1)
          /\ Len(facts1) = IF Summary \in ToSet(facts) THEN Len(facts) ELSE Len(facts) + 1
      BY <1>0, <2>1, <3>1, SetFactFacts DEF CompactionInv
    <3>3. ToSet(facts) \subseteq ToSet(facts1)
      BY <1>0, <2>1, <3>1, SetFactFacts DEF CompactionInv
    <3>4. ASSUME NEW n \in Int, Fits(facts, n) PROVE Fits(facts1, n)
      <4>1. Len(facts) \in Nat /\ Len(facts1) \in Nat /\ MaxContextFacts \in Nat
        BY <1>0, <3>2, CompactionAssumption
      <4> QED  BY <3>2, <3>4, <4>1 DEF Fits
    <3>5. Limited(facts1, handler)
      <4>1. \A c \in TurnHandlers : PruneCount - 1 - Len(handler[c].left) \in Int
        <5>1. \A c \in TurnHandlers : handler[c] \in Handling
          BY DEF CompactionInv
        <5>2. \A c \in TurnHandlers : Len(handler[c].left) \in Nat
          BY <5>1 DEF Handling
        <5> QED  BY <5>2, CompactionAssumption
      <4>2. Limited(facts, handler)
        BY DEF CompactionInv
      <4> QED  BY <3>4, <4>1, <4>2 DEF Limited
    <3>6. Newer(facts1, latest)
      BY <1>0, <2>1, <3>1, NewerSet DEF CompactionInv
    <3>7. Kept(facts1, latest)
      BY <3>3 DEF CompactionInv, Kept
    <3> QED  BY <3>2, <3>5, <3>6, <3>7
  <2> QED  BY <2>2, <2>3
<1> HIDE DEF summary
<1>6. NoLists \in FileLists
  BY DEF NoLists, Lists, FileLists
<1>7. first \in Messages /\ first.lists = lists
  BY <1>4, <1>6 DEF Message, Messages
<1>8. Message("user", 1, NoLists) \in Messages
  BY <1>6 DEF Message, Messages
<1> HIDE DEF first, items, facts1
<1>9. more \in Seq(Messages)
  BY <1>8
<1> HIDE DEF more
<1>10. head \in Seq(Messages) /\ Len(head) >= 1 /\ Len(head) \in Nat /\ head[1] = first
  <2>1. <<first>> \in Seq(Messages) /\ Len(<<first>>) = 1 /\ <<first>>[1] = first
    BY <1>7
  <2> DEFINE one == <<first>>
  <2> HIDE DEF one
  <2>2. Len(one \o more) = Len(one) + Len(more) /\ one \o more \in Seq(Messages)
        /\ \A i \in 1 .. Len(one) + Len(more) : (one \o more)[i] = IF i <= Len(one) THEN one[i] ELSE more[i - Len(one)]
    BY <2>1, <1>9, ConcatProperties DEF one
  <2>3. Len(more) \in Nat /\ 1 \in 1 .. 1 + Len(more)
    BY <1>9
  <2> QED  BY <2>1, <2>2, <2>3 DEF one
<1> HIDE DEF head
<1>11. Len(msgs) >= KeepRecent
  BY <1>0 DEF Compact
<1>12. /\ kept = SubSeq(msgs, Len(msgs) - KeepRecent + 1, Len(msgs))
       /\ kept \in Seq(Messages) /\ Len(kept) = KeepRecent
  <2> DEFINE n == Len(cut)  m == Len(cut) - KeepRecent + 1
  <2>1. /\ n \in Nat /\ m \in Nat /\ 1 <= m /\ m <= n + 1 /\ n = Len(cut) /\ n = Len(msgs)
        /\ m = Len(msgs) - KeepRecent + 1 /\ n - m + 1 = KeepRecent
        /\ \A i \in m .. n : i \in 1 .. Len(msgs) /\ i > Len(msgs) - KeepRecent
    BY <1>0, <1>2, <1>11
  <2>2. kept = SubSeq(cut, m, n)
    OBVIOUS
  <2> HIDE DEF kept, m, n
  <2>3. \A i \in m .. n : cut[i] = msgs[i]
    BY <1>2, <2>1
  <2>4. SubSeq(cut, m, n) = SubSeq(msgs, m, n) /\ SubSeq(cut, m, n) \in Seq(Messages) /\ Len(SubSeq(cut, m, n)) = n - m + 1
    BY <1>0, <1>2, <2>1, <2>3, SameSuffix
  <2> QED  BY <2>1, <2>2, <2>4, Zenon
<1> HIDE DEF kept
<1>13. msgs' = head \o kept
  BY <1>1 DEF head, first
<1>14. msgs' \in Seq(Messages) /\ Len(msgs') = Len(head) + KeepRecent /\ msgs'[1] = first /\ 1 \in DOMAIN msgs'
  <2>1. /\ msgs' \in Seq(Messages) /\ Len(msgs') = Len(head) + Len(kept)
        /\ \A i \in 1 .. Len(head) + Len(kept) : msgs'[i] = IF i <= Len(head) THEN head[i] ELSE kept[i - Len(head)]
    BY <1>10, <1>12, <1>13, ConcatProperties
  <2>2. 1 \in 1 .. Len(head) + Len(kept) /\ 1 <= Len(head) /\ DOMAIN msgs' = 1 .. Len(msgs')
    BY <1>0, <1>10, <1>12, <2>1
  <2> QED  BY <1>10, <1>12, <2>1, <2>2
<1>15. SubSeq(msgs', Len(msgs') - KeepRecent + 1, Len(msgs')) = kept
  <2>1. SubSeq(head \o kept, Len(head) + 1, Len(head) + Len(kept)) = kept
    BY <1>10, <1>12, LastPart
  <2>2. Len(msgs') - KeepRecent + 1 = Len(head) + 1 /\ Len(msgs') = Len(head) + Len(kept)
    BY <1>0, <1>10, <1>12, <1>14
  <2> QED  BY <1>13, <2>1, <2>2
<1>16. ASSUME ~modelAsked'
       PROVE  /\ Named(msgs).read \cup PathsOf("file") \subseteq Named(msgs').read
              /\ Named(msgs).mod \cup PathsOf("edit") \subseteq Named(msgs').mod
  <2>1. msgs'[1].lists = summary.lists
    BY <1>1, <1>7, <1>14, <1>16
  <2>2. summary.lists.read \subseteq Named(msgs').read /\ summary.lists.mod \subseteq Named(msgs').mod
    BY <1>14, <2>1 DEF Named, Lists
  <2> QED  BY <1>4, <2>2
<1>17. turn' = turn /\ facts' = facts1 /\ handler' = handler /\ latest' = latest
  BY <1>1 DEF Compact
<1>18. Newest(msgs', KeepRecent) = Newest(msgs, KeepRecent)
  BY <1>12, <1>15 DEF Newest
<1> QED  BY <1>0, <1>5, <1>14, <1>16, <1>17, <1>18 DEF CompactionInv

\* Without facts all of it holds.
LEMMA NothingKept ==
  /\ <<>> \in Seq(ContextFact) /\ Once(<<>>) /\ Newer(<<>>, {}) /\ Kept(<<>>, {}) /\ Recent({})
  /\ \A H \in [TurnHandlers -> Handling] :
       (\A c \in TurnHandlers : H[c].at = "extract" /\ FewResults => Len(H[c].left) < PruneCount) => Limited(<<>>, H)
<1>1. Recent({}) /\ Kept(<<>>, {}) /\ <<>> \in Seq(ContextFact) /\ Once(<<>>) /\ Newer(<<>>, {})
  BY FS_EmptySet DEF Recent, Kept, Once, Newer
<1>2. MaxContextFacts \in Nat /\ PruneCount \in Nat /\ Len(<<>>) = 0
  BY CompactionAssumption
<1>3. \A n \in Nat : Fits(<<>>, n)
  BY <1>2 DEF Fits
<1> SUFFICES ASSUME NEW H \in [TurnHandlers -> Handling], FewResults,
                    \A c \in TurnHandlers : H[c].at = "extract" => Len(H[c].left) < PruneCount
             PROVE  /\ Fits(<<>>, 0)
                    /\ \A c \in TurnHandlers : H[c].at = "extract" => Fits(<<>>, PruneCount - 1 - Len(H[c].left))
  BY <1>1 DEF Limited
<1>4. \A c \in TurnHandlers : Len(H[c].left) \in Nat
  <2>1. \A c \in TurnHandlers : H[c].left \in Seq(ToolResults)
    BY DEF Handling
  <2> QED  BY <2>1
<1>5. \A c \in TurnHandlers : H[c].at = "extract" => PruneCount - 1 - Len(H[c].left) \in Nat
  BY <1>2, <1>4
<1> QED  BY <1>3, <1>5

\* A new session of the agent.
LEMMA ResetFacts ==
  ASSUME CompactionInv, ContextReset
  PROVE  CompactionInv' /\ turn' = turn /\ msgs' = msgs /\ handler' = handler
<1>1. facts' = <<>> /\ latest' = {} /\ UNCHANGED <<msgs, turn, handler>>
  BY DEF ContextReset
<1>2. Limited(facts', handler)
  <2>1. handler \in [TurnHandlers -> Handling] /\ Limited(facts, handler)
    BY DEF CompactionInv
  <2>2. \A c \in TurnHandlers : handler[c].at = "extract" /\ FewResults => Len(handler[c].left) < PruneCount
    BY <2>1 DEF Limited
  <2> QED  BY <1>1, <2>1, <2>2, NothingKept
<1> QED  BY <1>1, <1>2, NothingKept DEF CompactionInv

\* Every step keeps the kinds of messages and facts.
LEMMA NextCompaction == CompactionInv /\ [CompactionNext]_mvars => CompactionInv'
<1> SUFFICES ASSUME CompactionInv, [CompactionNext]_mvars PROVE CompactionInv'
  OBVIOUS
<1>1. ASSUME NEW c \in TurnHandlers, TurnEnd(c) PROVE CompactionInv'
  BY <1>1, TurnEndFacts
<1>2. ASSUME NEW c \in TurnHandlers, ExtractToolResult(c) PROVE CompactionInv'
  BY <1>2, ExtractFacts
<1>3. ASSUME NEW c \in TurnHandlers, PruneIfNeeded(c) PROVE CompactionInv'
  BY <1>3, PruneFacts
<1>4. ASSUME NEW c \in TurnHandlers, ClearerReads(c) \/ ClearerWrites(c) PROVE CompactionInv'
  BY <1>4, ClearFacts
<1>5. CASE ContextReset
  BY <1>5, ResetFacts
<1>6. CASE Compact
  BY <1>6, CompactFacts
<1>7. CASE UNCHANGED mvars
  BY <1>7 DEF mvars, CompactionInv, Once, Newer, Kept, Recent, Limited, Fits, Alone
<1> QED  BY <1>1, <1>2, <1>3, <1>4, <1>5, <1>6, <1>7 DEF CompactionNext

\* A session starts without messages and facts.
LEMMA InitCompaction == CompactionInit => CompactionInv
<1> SUFFICES ASSUME CompactionInit PROVE CompactionInv
  OBVIOUS
<1>1. /\ handler \in [TurnHandlers -> Handling] /\ Alone(handler)
      /\ \A c \in TurnHandlers : handler[c].at # "extract"
  BY IdleHandling DEF CompactionInit, Alone
<1>2. Limited(facts, handler)
  BY <1>1, NothingKept DEF CompactionInit
<1> QED  BY <1>1, <1>2, NothingKept DEF CompactionInit, CompactionInv

\* Kinds and limits as the runs check them follow.
LEMMA CompactionIsTyped == CompactionInv => CompactionTypeOK
<1> SUFFICES ASSUME CompactionInv PROVE CompactionTypeOK
  OBVIOUS
<1>1. \A i \in DOMAIN msgs : msgs[i] \in Messages
  BY DEF CompactionInv
<1>2. \A i \in DOMAIN msgs : msgs[i].type \in {"user", "assistant", "tool_result"} /\ msgs[i].size \in 1 .. 4
  BY <1>1 DEF Messages
<1>3. ASSUME FewResults, \A c \in TurnHandlers : ~Extracting(c) PROVE Len(facts) <= MaxContextFacts + 1
  <2>1. Fits(facts, 0)
    BY <1>3 DEF CompactionInv, Limited, Extracting
  <2> QED  BY <2>1, CompactionAssumption DEF Fits
<1>4. \A i, j \in DOMAIN facts : i # j => facts[i] # facts[j]
  BY DEF CompactionInv, Once
<1> QED  BY <1>2, <1>3, <1>4 DEF CompactionTypeOK, FewResults

\* A clearer's writing of what it read keeps the length and the newest messages.
LEMMA WroteFacts ==
  ASSUME NEW ms \in Seq(Messages)
  PROVE  Len(Cleared(ms)) = Len(ms) /\ Newest(Cleared(ms), ClearTurns) = Newest(ms, ClearTurns)
<1> DEFINE n == Len(ms)  t == Cleared(ms)  m == n - ClearTurns + 1
<1>1. t \in Seq(Messages) /\ Len(t) = n /\ \A i \in 1 .. n : i > n - ClearTurns => t[i] = ms[i]
  BY ClearedFacts
<1>2. n \in Nat /\ ClearTurns \in Nat /\ n = Len(ms)
  BY CompactionAssumption
<1>3. CASE n <= ClearTurns + 1
  <2>1. t = ms
    BY <1>3 DEF Cleared
  <2> QED  BY <2>1
<1>4. CASE ~(n <= ClearTurns + 1)
  <2> HIDE DEF t, n
  <2>1. m \in Nat /\ 1 <= m /\ m <= n + 1 /\ \A i \in m .. n : i \in 1 .. n /\ i > n - ClearTurns
    BY <1>2, <1>4
  <2> HIDE DEF m
  <2>2. SubSeq(t, m, n) = SubSeq(ms, m, n)
    BY <1>1, <1>2, <2>1, SameSuffix
  <2>3. Newest(t, ClearTurns) = SubSeq(t, m, n) /\ Newest(ms, ClearTurns) = SubSeq(ms, m, n)
    BY <1>1, <1>2 DEF Newest, m
  <2> QED  BY <1>1, <1>2, <2>2, <2>3 DEF t
<1> QED  BY <1>3, <1>4

NewestStayStep ==
  /\ Compacted => Newest(msgs', KeepRecent) = Newest(msgs, KeepRecent)
  /\ \A c \in TurnHandlers : Wrote(c) /\ handler[c].read = msgs =>
       Len(msgs') = Len(msgs) /\ Newest(msgs', ClearTurns) = Newest(msgs, ClearTurns)
  /\ latest # {} /\ latest' = latest /\ Cardinality(latest) <= MaxContextFacts - PruneCount =>
       latest \subseteq ToSet(facts')

\* THE NEWEST STAY: the newest messages are not lost in a compaction, nor touched by a clearer that
\* nothing overtook, and pruning takes no fact of the turn that it ends where the turn set no more
\* than a pruning leaves (memory/register.go:167, clearer.go:69-112, extractor.go:131), for any
\* results of turns, lengths and limits, whatever handlers, resets and compactions come in between.
THEOREM NewestRemain == CompactionSpec => NewestStay
<1>1. CompactionInv /\ CompactionInv' /\ [CompactionNext]_mvars => [NewestStayStep]_mvars
  <2> SUFFICES ASSUME CompactionInv, CompactionInv', CompactionNext PROVE NewestStayStep
    OBVIOUS
  <2>1. Compacted => Newest(msgs', KeepRecent) = Newest(msgs, KeepRecent)
    <3> SUFFICES ASSUME Compacted PROVE Newest(msgs', KeepRecent) = Newest(msgs, KeepRecent)
      OBVIOUS
    <3>1. msgs' # msgs /\ turn' = turn /\ handler' = handler
      BY DEF Compacted
    <3>2. \A c \in TurnHandlers : ~TurnEnd(c) /\ ~ExtractToolResult(c) /\ ~PruneIfNeeded(c) /\ ~ClearerReads(c) /\ ~ClearerWrites(c)
      BY <3>1, TurnEndFacts, ExtractFacts, PruneFacts, ClearFacts
    <3>3. ~ContextReset
      BY <3>1, ResetFacts
    <3> QED  BY <3>2, <3>3, CompactFacts DEF CompactionNext
  <2>2. ASSUME NEW c \in TurnHandlers, Wrote(c), handler[c].read = msgs
        PROVE  Len(msgs') = Len(msgs) /\ Newest(msgs', ClearTurns) = Newest(msgs, ClearTurns)
    <3>1. msgs \in Seq(Messages)
      BY DEF CompactionInv
    <3>2. msgs' = msgs \/ msgs' = Cleared(msgs)
      <4>1. ASSUME NEW d \in TurnHandlers, ClearerReads(d) \/ ClearerWrites(d) PROVE msgs' = msgs \/ msgs' = Cleared(msgs)
        BY <2>2, <4>1, ClearFacts
      <4>2. ASSUME NEW d \in TurnHandlers, ExtractToolResult(d) \/ PruneIfNeeded(d) PROVE msgs' = msgs
        BY <4>2, ExtractFacts, PruneFacts
      <4>3. ASSUME NEW d \in TurnHandlers, TurnEnd(d) PROVE FALSE
        <5>1. d # c
          BY <2>2, <4>3, TurnEndFacts
        <5>2. PICK rs \in TurnResults : handler' = [handler EXCEPT ![d] = Handler("extract", rs, <<>>)]
          BY <4>3 DEF TurnEnd
        <5>3. handler \in [TurnHandlers -> Handling]
          BY DEF CompactionInv
        <5> QED  BY <2>2, <5>1, <5>2, <5>3 DEF Wrote
      <4>4. ContextReset => msgs' = msgs
        BY ResetFacts
      <4>5. ~Compact
        BY <2>2 DEF Compact, Wrote
      <4> QED  BY <4>1, <4>2, <4>3, <4>4, <4>5 DEF CompactionNext
    <3> QED  BY <3>1, <3>2, WroteFacts
  <2>3. ASSUME latest' = latest, Cardinality(latest) <= MaxContextFacts - PruneCount
        PROVE  latest \subseteq ToSet(facts')
    BY <2>3 DEF CompactionInv, Kept
  <2> QED  BY <2>1, <2>2, <2>3 DEF NewestStayStep
<1> QED  BY <1>1, InitCompaction, NextCompaction, PTL DEF CompactionSpec, NewestStay, NewestStayStep

\* FILES STAY LISTED: the files that earlier summaries and the facts name are in the next summary,
\* unless the model that rewrote it left them out (memory/compact_helpers.go:72), through any number
\* of turns, resets and compactions.
THEOREM FilesListed == CompactionSpec => FilesStayListed
<1>1. CompactionInv /\ [CompactionNext]_mvars =>
        [Compacted /\ ~modelAsked' =>
           /\ Named(msgs).read \cup PathsOf("file") \subseteq Named(msgs').read
           /\ Named(msgs).mod \cup PathsOf("edit") \subseteq Named(msgs').mod]_mvars
  <2> SUFFICES ASSUME CompactionInv, CompactionNext, Compacted, ~modelAsked'
               PROVE  /\ Named(msgs).read \cup PathsOf("file") \subseteq Named(msgs').read
                      /\ Named(msgs).mod \cup PathsOf("edit") \subseteq Named(msgs').mod
    OBVIOUS
  <2>1. msgs' # msgs /\ turn' = turn /\ handler' = handler
    BY DEF Compacted
  <2>2. \A c \in TurnHandlers : ~TurnEnd(c) /\ ~ExtractToolResult(c) /\ ~PruneIfNeeded(c) /\ ~ClearerReads(c) /\ ~ClearerWrites(c)
    BY <2>1, TurnEndFacts, ExtractFacts, PruneFacts, ClearFacts
  <2>3. ~ContextReset
    BY <2>1, ResetFacts
  <2> QED  BY <2>2, <2>3, CompactFacts DEF CompactionNext
<1> QED  BY <1>1, InitCompaction, NextCompaction, PTL DEF CompactionSpec, FilesStayListed

\* For any paths, results of turns and limits, the conversation and the facts keep their kinds,
\* every fact is there once, and once pruned they are one more at most than the limit, where turns
\* bring fewer results than a pruning takes.
THEOREM CompactionTyped == CompactionSpec => []CompactionTypeOK
BY InitCompaction, NextCompaction, CompactionIsTyped, PTL DEF CompactionSpec

-----------------------------------------------------------------------------
(* The tools and commands that change schedules.yaml and the agent of      *)
(* launchd (CronExtension).                                                 *)

ExtensionKinds ==
  /\ schedules \in {Missing, Corrupt} \cup TaskMaps
  /\ flatFile \in {Missing, Corrupt} \cup TaskMaps
  /\ cronPc \in [CronCallers -> {"idle", "heal", "loaded", "bootout", "bootstrap", "remove"}]
  /\ cronCall \in [CronCallers -> Calls \cup {NoCronCall}]
  /\ cfg \in [CronCallers -> TaskMaps]
  /\ {plist, agent, mixed, refused} \subseteq BOOLEAN
  /\ stale \subseteq CronCallers

\* Where a call stands tells what it is.
CallStands(c) ==
  /\ cronPc[c] = "idle" <=> cronCall[c] = NoCronCall
  /\ cronPc[c] \in {"heal", "loaded"} => cronCall[c].op \in {"add", "remove", "view"}
  /\ cronPc[c] = "bootout" => cronCall[c].op \in {"install", "uninstall"}
  /\ cronPc[c] = "bootstrap" => cronCall[c].op = "install"
  /\ cronPc[c] = "remove" => cronCall[c].op = "uninstall"

\* A call that nothing was changed under works on what a load would still give it.
Fresh(c) ==
  cronPc[c] \in {"heal", "loaded"} /\ c \notin stale =>
    cfg[c] = Loaded /\ (cronPc[c] = "heal" => ~Readable(schedules))

\* An agent is there without its property list, or with one about to go, only if launchctl
\* would not unload it or an install and an uninstall have overlapped.
AgentKept ==
  /\ \A c, d \in CronCallers : cronCall[c].op = "install" /\ cronCall[d].op = "uninstall" => mixed
  /\ agent => plist \/ mixed \/ refused
  /\ \A c \in CronCallers : cronPc[c] = "remove" => (agent => mixed \/ refused)

ExtensionInv == ExtensionKinds /\ (\A c \in CronCallers : CallStands(c) /\ Fresh(c)) /\ AgentKept

\* The map without tasks is one, and NoCronCall is no call.
LEMMA MapFacts ==
  /\ NoTasks \in TaskMaps /\ DOMAIN NoTasks = {}
  /\ \A m \in TaskMaps : Readable(m) /\ DOMAIN m \subseteq TaskNames /\ (\A n \in DOMAIN m : m[n] \in Configs)
  /\ \A k \in Calls : k # NoCronCall /\ k.op \in {"add", "remove", "view", "install", "uninstall"}
  /\ NoCronCall.op = "none"
<1>1. NoTasks \in [{} -> Configs] /\ {} \in SUBSET TaskNames /\ DOMAIN NoTasks = {}
  BY DEF NoTasks
<1>2. NoTasks \in TaskMaps
  BY <1>1 DEF TaskMaps
<1>3. ASSUME NEW m \in TaskMaps
      PROVE  Readable(m) /\ DOMAIN m \subseteq TaskNames /\ (\A n \in DOMAIN m : m[n] \in Configs)
  <2>1. PICK S \in SUBSET TaskNames : m \in [S -> Configs]
    BY <1>3 DEF TaskMaps
  <2>2. Readable(m)
    BY CronExtensionAssumption DEF Readable
  <2> QED  BY <2>1, <2>2
<1>4. NoCronCall.op = "none"
  BY DEF NoCronCall
<1>5. \A k \in Calls : k.op \in {"add", "remove", "view", "install", "uninstall"}
  BY DEF Calls
<1> QED  BY <1>1, <1>2, <1>3, <1>4, <1>5

\* A change of one task gives a map of tasks, and is one of that task only.
LEMMA ChangedFacts ==
  ASSUME ExtensionKinds, NEW c \in CronCallers, cronCall[c].op \in {"add", "remove"},
         cronCall[c] \in Calls
  PROVE  /\ Changed(c) \in TaskMaps
         /\ \A n \in TaskNames : n \notin NamedBy(cronCall[c]) =>
              TaskIn(Changed(c), n) = TaskIn(cfg[c], n)
<1> DEFINE k == cronCall[c]
<1>0. cfg[c] \in TaskMaps
  BY DEF ExtensionKinds
<1>1. PICK S \in SUBSET TaskNames : cfg[c] \in [S -> Configs]
  BY <1>0 DEF TaskMaps
<1>2. k.name \in TaskNames /\ NamedBy(k) = {k.name} /\ (k.op = "add" => k.task \in Configs)
  BY DEF Calls, NamedBy
<1>3. CASE k.op = "add"
  <2>1. Changed(c) = [n \in S \cup {k.name} |-> IF n = k.name THEN k.task ELSE cfg[c][n]]
    BY <1>1, <1>3 DEF Changed, WithTask
  <2>2. Changed(c) \in [S \cup {k.name} -> Configs]
    BY <1>1, <1>2, <1>3, <2>1
  <2>3. Changed(c) \in TaskMaps
    BY <1>2, <2>2 DEF TaskMaps
  <2>4. Readable(Changed(c)) /\ Readable(cfg[c])
    BY <1>0, <2>3, MapFacts
  <2> QED  BY <1>1, <1>2, <2>1, <2>3, <2>4 DEF TaskIn
<1>4. CASE k.op = "remove"
  <2>1. Changed(c) = [n \in S \ {k.name} |-> cfg[c][n]]
    BY <1>1, <1>4 DEF Changed, WithoutTask
  <2>2. Changed(c) \in [S \ {k.name} -> Configs]
    BY <1>1, <2>1
  <2>3. Changed(c) \in TaskMaps
    BY <2>2 DEF TaskMaps
  <2>4. Readable(Changed(c)) /\ Readable(cfg[c])
    BY <1>0, <2>3, MapFacts
  <2> QED  BY <1>1, <1>2, <2>1, <2>3, <2>4 DEF TaskIn
<1> QED  BY <1>3, <1>4

\* What is loaded is a map of tasks.
LEMMA LoadedIsMap == ASSUME ExtensionKinds PROVE Loaded \in TaskMaps
BY MapFacts DEF ExtensionKinds, Loaded, Readable

\* Every step keeps the kinds and where calls stand.
LEMMA ExtensionKindsStep ==
  ASSUME ExtensionInv, CronExtensionNext
  PROVE  ExtensionKinds' /\ \A c \in CronCallers : CallStands(c)'
<1> USE DEF ExtensionInv
<1>0. ExtensionKinds /\ NoTasks \in TaskMaps /\ Loaded \in TaskMaps
  BY LoadedIsMap, MapFacts
<1> DEFINE Ops == {"add", "remove", "view", "install", "uninstall"}
<1>n. NoCronCall.op = "none" /\ \A k \in Calls : k # NoCronCall /\ k.op \in Ops
  BY MapFacts
<1>1. CASE EditByHand
  BY <1>0, <1>1 DEF EditByHand, Write, ExtensionKinds, CallStands, files, launchd
<1>2. ASSUME NEW c \in CronCallers, LoadSchedules(c) PROVE ExtensionKinds' /\ \A d \in CronCallers : CallStands(d)'
  <2>1. PICK k \in Calls : k.op \in {"add", "remove", "view"} /\ cronCall' = [cronCall EXCEPT ![c] = k]
    BY <1>2 DEF LoadSchedules
  <2>2. ExtensionKinds'
    BY <1>0, <1>2, <2>1 DEF LoadSchedules, ExtensionKinds, files, launchd, Continue
  <2>3. \A d \in CronCallers : CallStands(d)'
    BY <1>0, <1>n, <1>2, <2>1 DEF LoadSchedules, ExtensionKinds, CallStands, Continue
  <2> QED  BY <2>2, <2>3
<1>3. ASSUME NEW c \in CronCallers, Heal(c) PROVE ExtensionKinds' /\ \A d \in CronCallers : CallStands(d)'
  BY <1>0, <1>3 DEF Heal, Write, ExtensionKinds, CallStands, launchd, Continue
<1>4. ASSUME NEW c \in CronCallers, View(c) \/ NoSuchTask(c) PROVE ExtensionKinds' /\ \A d \in CronCallers : CallStands(d)'
  <2>1. ExtensionKinds'
    BY <1>0, <1>4 DEF View, NoSuchTask, Return, Continue, ExtensionKinds, files, launchd
  <2>2. \A d \in CronCallers : CallStands(d)'
    BY <1>0, <1>4 DEF View, NoSuchTask, Return, Continue, ExtensionKinds, CallStands
  <2> QED  BY <2>1, <2>2
<1>5. ASSUME NEW c \in CronCallers, SaveConfig(c) PROVE ExtensionKinds' /\ \A d \in CronCallers : CallStands(d)'
  <2>0. cronCall[c] \in Calls /\ cronCall[c].op \in {"add", "remove"}
    BY <1>0, <1>n, <1>5 DEF SaveConfig, ExtensionKinds, CallStands
  <2>3. Changed(c) \in TaskMaps
    BY <1>0, <2>0, ChangedFacts
  <2>1. ExtensionKinds'
    BY <1>0, <1>5, <2>3 DEF SaveConfig, Return, Continue, Write, ExtensionKinds, launchd
  <2>2. \A d \in CronCallers : CallStands(d)'
    BY <1>0, <1>5 DEF SaveConfig, Return, Continue, ExtensionKinds, CallStands
  <2> QED  BY <2>1, <2>2
<1>6. ASSUME NEW c \in CronCallers, Install(c) PROVE ExtensionKinds' /\ \A d \in CronCallers : CallStands(d)'
  <2>1. [op |-> "install"] \in Calls
    BY DEF Calls
  <2>2. ExtensionKinds'
    BY <1>0, <1>6, <2>1 DEF Install, Continue, ExtensionKinds, files
  <2>3. \A d \in CronCallers : CallStands(d)'
    BY <1>0, <1>n, <1>6, <2>1 DEF Install, Continue, ExtensionKinds, CallStands
  <2> QED  BY <2>2, <2>3
<1>7. ASSUME NEW c \in CronCallers, Uninstall(c) PROVE ExtensionKinds' /\ \A d \in CronCallers : CallStands(d)'
  <2>1. [op |-> "uninstall"] \in Calls
    BY DEF Calls
  <2>2. ExtensionKinds'
    BY <1>0, <1>7, <2>1 DEF Uninstall, Continue, ExtensionKinds, files
  <2>3. \A d \in CronCallers : CallStands(d)'
    BY <1>0, <1>n, <1>7, <2>1 DEF Uninstall, Continue, ExtensionKinds, CallStands
  <2> QED  BY <2>2, <2>3
<1>8. ASSUME NEW c \in CronCallers, Bootout(c) PROVE ExtensionKinds' /\ \A d \in CronCallers : CallStands(d)'
  BY <1>0, <1>8 DEF Bootout, Continue, ExtensionKinds, CallStands, files
<1>9. ASSUME NEW c \in CronCallers, Bootstrap(c) \/ RemovePlist(c) PROVE ExtensionKinds' /\ \A d \in CronCallers : CallStands(d)'
  <2>1. ExtensionKinds'
    BY <1>0, <1>9 DEF Bootstrap, RemovePlist, Return, Continue, ExtensionKinds, files
  <2>2. \A d \in CronCallers : CallStands(d)'
    BY <1>0, <1>9 DEF Bootstrap, RemovePlist, Return, Continue, ExtensionKinds, CallStands
  <2> QED  BY <2>1, <2>2
<1> QED  BY <1>1, <1>2, <1>3, <1>4, <1>5, <1>6, <1>7, <1>8, <1>9 DEF CronExtensionNext

\* A write that changes the file makes every other call stale.
LEMMA WriteKeepsFresh ==
  ASSUME ExtensionKinds, NEW f, NEW W, Write(f, W), UNCHANGED <<flatFile, cfg>>,
         NEW d \in CronCallers, d \notin W, cronPc'[d] = cronPc[d], Fresh(d)
  PROVE  Fresh(d)'
<1>1. CASE f = schedules
  BY <1>1 DEF Write, Fresh, Loaded
<1>2. CASE f # schedules
  BY <1>2 DEF Write, Fresh
<1> QED  BY <1>1, <1>2

\* Every step keeps what is known of a call that nothing was changed under.
LEMMA FreshStep ==
  ASSUME ExtensionInv, CronExtensionNext, NEW d \in CronCallers
  PROVE  Fresh(d)'
<1>0. ExtensionKinds /\ NoTasks \in TaskMaps /\ Loaded \in TaskMaps /\ Fresh(d)
  BY LoadedIsMap, MapFacts DEF ExtensionInv
<1>1. CASE EditByHand
  <2>1. PICK f \in {Corrupt, Missing} \cup TaskMaps : Write(f, {})
    BY <1>1 DEF EditByHand
  <2> QED  BY <1>0, <1>1, <2>1, WriteKeepsFresh DEF EditByHand
<1>2. ASSUME NEW c \in CronCallers, LoadSchedules(c) PROVE Fresh(d)'
  <2>1. CASE d = c
    BY <1>0, <1>2, <2>1 DEF LoadSchedules, Fresh, Loaded, ExtensionKinds, Continue, files
  <2>2. CASE d # c
    BY <1>0, <1>2, <2>2 DEF LoadSchedules, Fresh, Loaded, ExtensionKinds, Continue, files
  <2> QED  BY <2>1, <2>2
<1>3. ASSUME NEW c \in CronCallers, Heal(c) PROVE Fresh(d)'
  <2>1. CASE UNCHANGED <<schedules, stale>>
    BY <1>0, <1>3, <2>1 DEF Heal, Fresh, Loaded, ExtensionKinds, Continue
  <2>2. CASE Write(cfg[c], {c})
    <3>1. CASE d = c
      <4>1. schedules' = cfg[c] /\ Readable(cfg[c])
        BY <1>0, <2>2, MapFacts DEF Write, ExtensionKinds
      <4>2. Loaded' = cfg[c] /\ cfg' = cfg /\ cronPc'[d] = "loaded"
        BY <1>0, <1>3, <3>1, <4>1 DEF Loaded, Readable, Heal, Continue, ExtensionKinds
      <4> QED  BY <3>1, <4>2 DEF Fresh
    <3>2. CASE d # c
      BY <1>0, <1>3, <2>2, <3>2, WriteKeepsFresh DEF Heal, Continue, ExtensionKinds
    <3> QED  BY <3>1, <3>2
  <2> QED  BY <1>3, <2>1, <2>2 DEF Heal
<1>4. ASSUME NEW c \in CronCallers, SaveConfig(c) PROVE Fresh(d)'
  <2>1. CASE d = c
    BY <1>0, <1>4, <2>1 DEF SaveConfig, Return, Continue, Fresh, ExtensionKinds
  <2>2. CASE d # c
    <3>1. cronPc'[d] = cronPc[d] /\ cfg'[d] = cfg[d] /\ flatFile' = flatFile
      BY <1>0, <1>4, <2>2 DEF SaveConfig, Return, Continue, ExtensionKinds
    <3>2. CASE schedules' = schedules /\ stale' = stale
      BY <1>0, <3>1, <3>2 DEF Fresh, Loaded
    <3>3. CASE Write(Changed(c), {c}) /\ schedules' # schedules
      BY <3>1, <3>3, <2>2, <1>0 DEF Write, Fresh
    <3>4. Write(Changed(c), {c}) /\ schedules' = schedules => stale' = stale
      BY DEF Write
    <3> QED  BY <1>4, <3>2, <3>3, <3>4 DEF SaveConfig
  <2> QED  BY <2>1, <2>2
<1>5. ASSUME NEW c \in CronCallers,
             \/ View(c) \/ NoSuchTask(c) \/ Install(c) \/ Uninstall(c)
             \/ Bootout(c) \/ Bootstrap(c) \/ RemovePlist(c)
      PROVE  Fresh(d)'
  <2>1. UNCHANGED <<schedules, flatFile, stale>>
    BY <1>5 DEF View, NoSuchTask, Install, Uninstall, Bootout, Bootstrap, RemovePlist, files
  <2>2. (cronPc'[d] = cronPc[d] /\ cfg'[d] = cfg[d]) \/ cronPc'[d] \notin {"heal", "loaded"}
    <3>1. CASE View(c) \/ NoSuchTask(c) \/ Bootstrap(c) \/ RemovePlist(c)
      BY <1>0, <3>1 DEF View, NoSuchTask, Bootstrap, RemovePlist, Return, Continue, ExtensionKinds
    <3>2. CASE Install(c) \/ Uninstall(c) \/ Bootout(c)
      BY <1>0, <3>2 DEF Install, Uninstall, Bootout, Continue, ExtensionKinds
    <3> QED  BY <1>5, <3>1, <3>2
  <2> QED  BY <1>0, <2>1, <2>2 DEF Fresh, Loaded
<1> QED  BY <1>1, <1>2, <1>3, <1>4, <1>5 DEF CronExtensionNext

\* Every step keeps the property list with the agent.
LEMMA AgentKeptStep ==
  ASSUME ExtensionInv, CronExtensionNext
  PROVE  AgentKept'
<1>0. ExtensionKinds /\ AgentKept /\ NoCronCall.op = "none"
  BY MapFacts DEF ExtensionInv
<1>1. CASE EditByHand
  BY <1>0, <1>1 DEF EditByHand, launchd, AgentKept
<1>2. ASSUME NEW c \in CronCallers, LoadSchedules(c) PROVE AgentKept'
  <2>1. PICK k \in Calls : k.op \in {"add", "remove", "view"} /\ cronCall' = [cronCall EXCEPT ![c] = k]
    BY <1>2 DEF LoadSchedules
  <2> QED  BY <1>0, <1>2, <2>1 DEF LoadSchedules, AgentKept, ExtensionKinds, launchd, Continue
<1>3. ASSUME NEW c \in CronCallers, Heal(c) PROVE AgentKept'
  BY <1>0, <1>3 DEF Heal, AgentKept, ExtensionKinds, launchd, Continue
<1>4. ASSUME NEW c \in CronCallers, View(c) \/ NoSuchTask(c) \/ SaveConfig(c) PROVE AgentKept'
  BY <1>0, <1>4 DEF View, NoSuchTask, SaveConfig, Return, AgentKept, ExtensionKinds, launchd, Continue
<1>5. ASSUME NEW c \in CronCallers, Install(c) PROVE AgentKept'
  <2>1. mixed => mixed'
    BY <1>5 DEF Install
  <2>2. \A d \in CronCallers : cronCall[d].op = "uninstall" /\ d # c => mixed'
    BY <1>5 DEF Install, Others
  <2> QED  BY <1>0, <1>5, <2>1, <2>2 DEF Install, AgentKept, ExtensionKinds, Continue
<1>6. ASSUME NEW c \in CronCallers, Uninstall(c) PROVE AgentKept'
  <2>1. mixed => mixed'
    BY <1>6 DEF Uninstall
  <2>2. \A d \in CronCallers : cronCall[d].op = "install" /\ d # c => mixed'
    BY <1>6 DEF Uninstall, Others
  <2> QED  BY <1>0, <1>6, <2>1, <2>2 DEF Uninstall, AgentKept, ExtensionKinds, Continue
<1>7. ASSUME NEW c \in CronCallers, Bootout(c) PROVE AgentKept'
  BY <1>0, <1>7 DEF Bootout, AgentKept, ExtensionKinds, Continue
<1>8. ASSUME NEW c \in CronCallers, Bootstrap(c) PROVE AgentKept'
  <2>1. cronCall[c].op = "install"
    BY <1>8 DEF Bootstrap, ExtensionInv, CallStands
  <2>2. \A d \in CronCallers : cronPc[d] = "remove" => mixed
    BY <1>0, <2>1 DEF AgentKept, ExtensionInv, CallStands
  <2> QED  BY <1>0, <1>8, <2>2 DEF Bootstrap, Return, AgentKept, ExtensionKinds, Continue
<1>9. ASSUME NEW c \in CronCallers, RemovePlist(c) PROVE AgentKept'
  BY <1>0, <1>9 DEF RemovePlist, Return, AgentKept, ExtensionKinds, Continue
<1> QED  BY <1>1, <1>2, <1>3, <1>4, <1>5, <1>6, <1>7, <1>8, <1>9 DEF CronExtensionNext

\* The invariant holds at the start.
LEMMA InitExtension == CronExtensionInit => ExtensionInv
<1> SUFFICES ASSUME CronExtensionInit PROVE ExtensionInv
  OBVIOUS
<1>1. ExtensionKinds
  BY MapFacts DEF CronExtensionInit, ExtensionKinds
<1>2. \A c \in CronCallers : CallStands(c) /\ Fresh(c)
  BY DEF CronExtensionInit, CallStands, Fresh
<1>3. AgentKept
  BY MapFacts DEF CronExtensionInit, AgentKept
<1> QED  BY <1>1, <1>2, <1>3 DEF ExtensionInv

\* The invariant is kept, by steps that change nothing too.
LEMMA NextExtension == ExtensionInv /\ [CronExtensionNext]_cronvars => ExtensionInv'
<1>1. ASSUME ExtensionInv, CronExtensionNext PROVE ExtensionInv'
  BY <1>1, ExtensionKindsStep, FreshStep, AgentKeptStep DEF ExtensionInv
<1>2. ASSUME ExtensionInv, UNCHANGED cronvars PROVE ExtensionInv'
  BY <1>2 DEF ExtensionInv, ExtensionKinds, CallStands, Fresh, Loaded, AgentKept, cronvars, files, launchd
<1> QED  BY <1>1, <1>2

\* The agent is left loaded without the property list that removes it again only where launchctl
\* failed to unload it, which an uninstall does not look at, or where an install and an uninstall
\* have overlapped (cron/commands.go:236, 252, 254).
THEOREM AgentRemovable == CronExtensionSpec => []AgentHasItsPlist
<1>1. ExtensionInv => AgentHasItsPlist
  BY DEF ExtensionInv, AgentKept, AgentHasItsPlist
<1> QED  BY <1>1, InitExtension, NextExtension, PTL DEF CronExtensionSpec

\* What a call that nothing was changed under writes.
LEMMA CallsWrite ==
  ASSUME ExtensionInv, CronExtensionNext, NEW c \in CronCallers, cronPc[c] # cronPc'[c],
         schedules' # schedules, c \notin stale, NEW n \in TaskNames,
         TaskIn(schedules', n) # TaskIn(schedules, n)
  PROVE  \/ n \in NamedBy(cronCall[c])
         \/ ~Readable(schedules) /\ TaskIn(flatFile, n) = TaskIn(schedules', n)
<1>0. ExtensionKinds /\ Fresh(c) /\ CallStands(c)
  BY DEF ExtensionInv
<1>1. (Heal(c) /\ Write(cfg[c], {c})) \/ (SaveConfig(c) /\ Write(Changed(c), {c}))
  <2>1. cronPc' # cronPc /\ schedules' # schedules
    OBVIOUS
  <2>2. ~EditByHand
    BY <2>1 DEF EditByHand
  <2>3. PICK d \in CronCallers : Heal(d) \/ SaveConfig(d)
    BY <2>1, <2>2 DEF CronExtensionNext, LoadSchedules, View, NoSuchTask, Install, Uninstall, Bootout,
         Bootstrap, RemovePlist, files
  <2>4. \E v : cronPc' = [cronPc EXCEPT ![d] = v]
    BY <2>3 DEF Heal, SaveConfig, Return, Continue
  <2>5. d = c
    BY <1>0, <2>4 DEF ExtensionKinds
  <2>6. Heal(c) => Write(cfg[c], {c})
    BY <2>1 DEF Heal
  <2>7. SaveConfig(c) => Write(Changed(c), {c})
    BY <2>1 DEF SaveConfig
  <2> QED  BY <2>3, <2>5, <2>6, <2>7
<1>2. cfg[c] = Loaded
  BY <1>0, <1>1 DEF Heal, SaveConfig, Fresh
<1>3. TaskIn(schedules', n) = TaskIn(Loaded, n) => ~Readable(schedules) /\ TaskIn(flatFile, n) = TaskIn(schedules', n)
  <2>1. CASE Readable(schedules)
    BY <2>1 DEF Loaded
  <2>2. CASE ~Readable(schedules) /\ Readable(flatFile)
    BY <2>2 DEF Loaded
  <2>3. CASE ~Readable(schedules) /\ ~Readable(flatFile)
    <3>1. Loaded = NoTasks /\ TaskIn(NoTasks, n) = Missing /\ TaskIn(flatFile, n) = Missing
      BY <2>3, MapFacts DEF Loaded, TaskIn
    <3> QED  BY <2>3, <3>1
  <2> QED  BY <2>1, <2>2, <2>3
<1>4. CASE Heal(c) /\ Write(cfg[c], {c})
  BY <1>2, <1>3, <1>4 DEF Write
<1>5. CASE SaveConfig(c) /\ Write(Changed(c), {c})
  <2>1. cronCall[c] \in Calls /\ cronCall[c].op \in {"add", "remove"}
    BY <1>0, <1>5, MapFacts DEF SaveConfig, ExtensionKinds, CallStands
  <2>2. n \notin NamedBy(cronCall[c]) => TaskIn(Changed(c), n) = TaskIn(cfg[c], n)
    BY <1>0, <2>1, ChangedFacts
  <2> QED  BY <1>2, <1>3, <1>5, <2>2 DEF Write
<1> QED  BY <1>1, <1>4, <1>5

\* A call changes no task but the one it names, and never replaces a file that can be read by an
\* older state of it, unless the file was changed under it since it read it (cron/config.go
\* LoadConfig, SaveConfig; there is no lock).
THEOREM SchedulesKept == CronExtensionSpec => OnlyStaleCallsDestroy
<1>1. ExtensionInv /\ [CronExtensionNext]_cronvars =>
        [\A c \in CronCallers : cronPc[c] # cronPc'[c] /\ schedules' # schedules =>
            \/ c \in stale
            \/ \A n \in TaskNames : TaskIn(schedules', n) # TaskIn(schedules, n) =>
                \/ n \in NamedBy(cronCall[c])
                \/ ~Readable(schedules) /\ TaskIn(flatFile, n) = TaskIn(schedules', n)]_cronvars
  BY CallsWrite
<1> QED  BY <1>1, InitExtension, NextExtension, PTL DEF CronExtensionSpec, OnlyStaleCallsDestroy

\* For any tasks, configurations and callers, schedules.yaml and the calls keep their kinds.
THEOREM ExtensionTyped == CronExtensionSpec => []CronExtensionTypeOK
<1>1. ExtensionInv => CronExtensionTypeOK
  BY DEF ExtensionInv, ExtensionKinds, CallStands, CronExtensionTypeOK
<1> QED  BY <1>1, InitExtension, NextExtension, PTL DEF CronExtensionSpec

-----------------------------------------------------------------------------
(* The handlers of a session's events (SessionEvents).  A title is being    *)
(* asked for by one handler only while there is none (Titles); a call that  *)
(* looks for a suggestion saw the cooldown run out, or was overtaken by one *)
(* that was shown since; a warning is remembered by the flag that prevents  *)
(* the next (Warns).                                                        *)

SessionCalls == {NoTurn, [at |-> "titling"]} \cup [at : {"suggesting", "showing"}, overtaken : BOOLEAN]

SessionKinds ==
  /\ fired \in BOOLEAN /\ titles \in {0, 1}
  /\ cooldown \in Nat /\ quiet \in Nat
  /\ handling \in [Handlers -> SessionCalls]

Seen == IsFiniteSet(suggested) /\ suggested \subseteq Suggestions /\ Cardinality(suggested) <= MaxSeen + 1

Titling == {h \in Handlers : handling[h].at = "titling"}
Titles ==
  /\ fired <=> titles = 1 \/ Titling # {}
  /\ titles = 1 => Titling = {}
  /\ \A g, h \in Titling : g = h

Budget == Window * Percent
Warns ==
  /\ gauge.turns \in Nat /\ gauge.warned \in BOOLEAN
  /\ tally \in [1 .. gauge.turns -> Nat] /\ warnings \subseteq 1 .. gauge.turns
  /\ gauge.warned <=> warnings # {}
  /\ \A t, u \in warnings : t = u
  /\ \A u \in 1 .. gauge.turns :
       Window > 0 /\ Percent > 0 /\ 100 * tally[u] >= Budget => \E t \in warnings : t <= u
  /\ \A t \in warnings : 100 * tally[t] > Budget - 100

SessionIInv == SessionKinds /\ Seen /\ Titles /\ SuggestionsAreSpaced /\ Warns

\* The constants are numbers, and so is what the window holds.
LEMMA SessionNumbers == /\ Cooldown \in Nat /\ MaxSeen \in Nat /\ Window \in Nat /\ Percent \in Nat
                        /\ Budget \in Nat
<1>1. Cooldown \in Nat /\ MaxSeen \in Nat /\ Window \in Nat /\ Percent \in Nat
  BY SessionAssumption
<1>2. Window * Percent \in Nat
  BY <1>1
<1> QED  BY <1>1, <1>2 DEF Budget

\* A session begins without title, suggestion or warning.
LEMMA SessionInitIInv == SessionInit => SessionIInv
<1> SUFFICES ASSUME SessionInit PROVE SessionIInv
  OBVIOUS
<1> USE SessionNumbers
<1>1. SessionKinds /\ SuggestionsAreSpaced
  <2>1. \A h \in Handlers : handling[h].at = "idle"
    BY DEF SessionInit, NoTurn
  <2>2. NoTurn \in SessionCalls
    BY DEF SessionCalls
  <2>3. handling \in [Handlers -> SessionCalls]
    BY <2>2 DEF SessionInit
  <2>4. SessionKinds
    BY <2>3 DEF SessionInit, SessionKinds
  <2> QED  BY <2>1, <2>4 DEF SessionInit, SuggestionsAreSpaced, Suggesting
<1>2. Seen
  BY FS_EmptySet DEF SessionInit, Seen
<1>3. Titles
  BY DEF SessionInit, Titles, Titling, NoTurn
<1>4. Warns
  <2>1. gauge.turns = 0 /\ gauge.warned = FALSE /\ tally = <<>> /\ warnings = {} /\ 1 .. 0 = {}
    BY DEF SessionInit
  <2>2. tally \in [1 .. 0 -> Nat]
    BY <2>1
  <2>3. \A u \in 1 .. gauge.turns : FALSE
    BY <2>1
  <2>4. gauge.turns \in Nat /\ tally \in [1 .. gauge.turns -> Nat]
    BY <2>1, <2>2
  <2> HIDE DEF SessionIInv
  <2> QED  BY <2>1, <2>3, <2>4 DEF Warns
<1> QED  BY <1>1, <1>2, <1>3, <1>4 DEF SessionIInv

\* Steps of autotitle keep the invariant.
LEMMA TitleStep ==
  ASSUME SessionIInv, NEW h \in Handlers, AgentEnd(h) \/ Titled(h)
  PROVE  SessionIInv'
<1> USE SessionNumbers DEF SessionIInv
<1>1. UNCHANGED <<suggestvars, gatevars>>
  BY DEF AgentEnd, Titled
<1>2. Seen' /\ Warns'
  BY <1>1 DEF Seen, Warns, suggestvars, gatevars
<1>3. PICK c \in {NoTurn, [at |-> "titling"]} : handling' = [handling EXCEPT ![h] = c]
  BY DEF AgentEnd, Titled
<1>4. /\ handling' \in [Handlers -> SessionCalls] /\ handling'[h] = c
      /\ \A g \in Handlers \ {h} : handling'[g] = handling[g]
  BY <1>3 DEF SessionKinds, SessionCalls
<1>5. c.at \in {"idle", "titling"}
  BY DEF NoTurn
<1>6. SuggestionsAreSpaced'
  BY <1>1, <1>4, <1>5 DEF SuggestionsAreSpaced, Suggesting, suggestvars
<1>7. CASE AgentEnd(h)
  <2>1. handling'[h].at = "titling" /\ ~fired /\ fired' /\ titles' = titles /\ Titling = {} /\ titles = 0
    BY <1>4, <1>7 DEF AgentEnd, MayTitle, Titles, SessionKinds
  <2>2. \A g : g \in Titling' <=> g = h
    BY <1>4, <2>1 DEF Titling
  <2>3. SessionKinds'
    BY <1>1, <1>4, <1>7 DEF AgentEnd, SessionKinds, suggestvars
  <2>4. Titles'
    BY <2>1, <2>2 DEF Titles
  <2> QED  BY <1>2, <1>6, <2>3, <2>4
<1>8. CASE Titled(h)
  <2>1. h \in Titling /\ handling' = [handling EXCEPT ![h] = NoTurn] /\ titles = 0
    BY <1>8 DEF Titled, Titling, Titles, SessionKinds
  <2>2. fired = TRUE
    BY <2>1 DEF Titles, SessionKinds
  <2>3. \A g : g \notin Titling'
    BY <1>4, <2>1 DEF Titling, Titles, NoTurn, SessionKinds
  <2>4. (fired' = TRUE /\ titles' = 1) \/ (fired' = FALSE /\ titles' = 0)
    <3>1. (titles' = titles + 1 /\ fired' = fired) \/ (fired' = FALSE /\ titles' = titles)
      BY <1>8 DEF Titled, Released
    <3>2. titles = 0 /\ titles + 1 = 1
      BY <2>1
    <3> QED  BY ONLY <2>2, <3>1, <3>2
  <2>5. SessionKinds'
    BY <1>1, <1>4, <2>4 DEF SessionKinds, suggestvars
  <2>6. Titles'
    BY <2>3, <2>4 DEF Titles
  <2> QED  BY <1>2, <1>6, <2>5, <2>6
<1> QED  BY <1>7, <1>8

\* SessionCalls of other handlers do not ask for titles.
LEMMA NotTitling ==
  ASSUME SessionKinds, Titles, UNCHANGED titlevars, NEW h \in Handlers, handling[h].at # "titling",
         NEW c \in SessionCalls, c.at # "titling", handling' = [handling EXCEPT ![h] = c]
  PROVE  Titles' /\ handling' \in [Handlers -> SessionCalls]
<1>1. handling' \in [Handlers -> SessionCalls] /\ handling'[h] = c /\ \A g \in Handlers \ {h} : handling'[g] = handling[g]
  BY DEF SessionKinds
<1>2. \A g : g \in Titling' <=> g \in Titling
  BY <1>1 DEF Titling
<1> QED  BY <1>1, <1>2 DEF Titles, titlevars

\* Steps of suggest keep the invariant.
LEMMA SuggestStep ==
  ASSUME SessionIInv, NEW h \in Handlers,
         ShouldSuggest(h) \/ NothingToShow(h) \/ Show(h) \/ \E t \in Suggestions : Generated(h, t)
  PROVE  SessionIInv'
<1> USE SessionNumbers DEF SessionIInv
<1>1. UNCHANGED <<titlevars, gatevars>>
  BY DEF ShouldSuggest, NothingToShow, Show, Generated, suggestvars
<1>2. Warns'
  BY <1>1 DEF Warns, gatevars
<1>3. NoTurn \in SessionCalls /\ NoTurn.at = "idle" /\ handling[h] \in SessionCalls
  BY DEF NoTurn, SessionCalls, SessionKinds
<1>4. ASSUME NEW c \in SessionCalls, c.at # "titling", handling[h].at # "titling",
             handling' = [handling EXCEPT ![h] = c],
             Suggesting(c) /\ ~c.overtaken => quiet' = Cooldown,
             \A g \in Handlers \ {h} : Suggesting(handling[g]) /\ ~handling[g].overtaken => quiet' = Cooldown,
             cooldown' \in Nat, quiet' \in Nat, cooldown' + quiet' = Cooldown, Seen'
      PROVE  SessionIInv'
  <2>1. Titles' /\ handling' \in [Handlers -> SessionCalls]
    BY <1>1, <1>4, NotTitling
  <2>2. \A g \in Handlers : handling'[g] = IF g = h THEN c ELSE handling[g]
    BY <1>4 DEF SessionKinds
  <2>3. SuggestionsAreSpaced'
    BY <1>4, <2>2 DEF SuggestionsAreSpaced
  <2>4. SessionKinds'
    BY <1>1, <1>4, <2>1 DEF SessionKinds, titlevars
  <2> QED  BY <1>2, <1>4, <2>1, <2>3, <2>4
<1>9. ~Suggesting(NoTurn)
  BY <1>3 DEF Suggesting
<1>5. CASE ShouldSuggest(h)
  <2>1. /\ handling[h].at = "idle" /\ UNCHANGED suggested
        /\ cooldown' = IF cooldown > 0 THEN cooldown - 1 ELSE 0
        /\ quiet' = IF cooldown > 0 THEN AddQuiet ELSE quiet
    BY <1>3, <1>5 DEF ShouldSuggest
  <2>2. cooldown' \in Nat /\ quiet' \in Nat /\ cooldown' + quiet' = Cooldown
    BY <2>1 DEF AddQuiet, SuggestionsAreSpaced, SessionKinds
  <2>3. Seen'
    BY <2>1 DEF Seen
  <2>4. CASE cooldown > 0
    <3>1. handling' = handling
      BY <1>5, <2>4 DEF ShouldSuggest
    <3>2. handling' = [handling EXCEPT ![h] = handling[h]]
      BY <3>1 DEF SessionKinds
    <3>3. quiet # Cooldown
      BY <2>4 DEF SuggestionsAreSpaced, SessionKinds
    <3>4. \A g \in Handlers : ~(Suggesting(handling[g]) /\ ~handling[g].overtaken)
      BY <3>3 DEF SuggestionsAreSpaced
    <3> QED  BY <1>3, <1>4, <2>1, <2>2, <2>3, <3>2, <3>4
  <2>5. CASE ~(cooldown > 0)
    <3>1. quiet = Cooldown /\ quiet' = Cooldown
      BY <2>1, <2>5 DEF SuggestionsAreSpaced, SessionKinds
    <3> DEFINE c == [at |-> "suggesting", overtaken |-> FALSE]
    <3>2. c \in SessionCalls /\ c.at = "suggesting"
      BY DEF SessionCalls
    <3>3. handling' = [handling EXCEPT ![h] = c]
      BY <1>5, <2>5 DEF ShouldSuggest
    <3> HIDE DEF c
    <3> QED  BY <1>4, <2>1, <2>2, <2>3, <3>1, <3>2, <3>3
  <2> QED  BY <2>4, <2>5
<1>6. CASE NothingToShow(h)
  <2>1. handling[h].at = "suggesting" /\ handling' = [handling EXCEPT ![h] = NoTurn] /\ UNCHANGED suggestvars
    BY <1>6 DEF NothingToShow
  <2>2. Seen' /\ cooldown' \in Nat /\ quiet' \in Nat /\ cooldown' + quiet' = Cooldown /\ quiet' = quiet
    BY <2>1 DEF Seen, SuggestionsAreSpaced, SessionKinds, suggestvars
  <2>3. \A g \in Handlers : Suggesting(handling[g]) /\ ~handling[g].overtaken => quiet' = Cooldown
    BY <2>2 DEF SuggestionsAreSpaced
  <2> QED  BY <1>3, <1>4, <1>9, <2>1, <2>2, <2>3
<1>7. CASE Show(h)
  <2>1. /\ handling[h].at = "showing"
        /\ handling' = [g \in Handlers |-> IF g = h THEN NoTurn ELSE Overtaken(handling[g])]
        /\ cooldown' = Cooldown /\ quiet' = 0 /\ UNCHANGED suggested
    BY <1>7 DEF Show, ResetCooldown
  <2>2. Seen' /\ cooldown' + quiet' = Cooldown
    BY <2>1 DEF Seen
  <2>3. ASSUME NEW g \in Handlers
        PROVE  /\ handling'[g] \in SessionCalls
               /\ handling'[g].at = "titling" <=> handling[g].at = "titling"
               /\ ~(Suggesting(handling'[g]) /\ ~handling'[g].overtaken)
    <3>1. handling[g] \in SessionCalls
      BY DEF SessionKinds
    <3>2. CASE g = h
      BY <1>3, <1>9, <2>1, <3>2
    <3>3. CASE g # h /\ Suggesting(handling[g])
      <4>1. handling'[g] = [handling[g] EXCEPT !.overtaken = TRUE]
        BY <2>1, <3>3 DEF Overtaken
      <4>2. handling[g] \in [at : {"suggesting", "showing"}, overtaken : BOOLEAN]
        BY <3>1, <3>3, <1>9 DEF SessionCalls, Suggesting
      <4> QED  BY <4>1, <4>2 DEF SessionCalls
    <3>4. CASE g # h /\ ~Suggesting(handling[g])
      <4>1. handling'[g] = handling[g]
        BY <2>1, <3>4 DEF Overtaken
      <4> QED  BY <3>1, <3>4, <4>1
    <3> QED  BY <3>2, <3>3, <3>4
  <2>4. SessionKinds'
    <3>1. handling' \in [Handlers -> SessionCalls]
      BY <2>1, <2>3
    <3> QED  BY <1>1, <2>1, <3>1 DEF SessionKinds, titlevars
  <2>5. Titling' = Titling
    BY <2>3 DEF Titling
  <2>6. Titles'
    BY <1>1, <2>5 DEF Titles, titlevars
  <2>7. SuggestionsAreSpaced'
    BY <2>2, <2>3 DEF SuggestionsAreSpaced
  <2> QED  BY <1>2, <2>2, <2>4, <2>6, <2>7
<1>8. ASSUME NEW t \in Suggestions, Generated(h, t) PROVE SessionIInv'
  <2> DEFINE c == [at |-> "showing", overtaken |-> handling[h].overtaken]
  <2>1. /\ handling[h].at = "suggesting" /\ handling' = [handling EXCEPT ![h] = c] /\ UNCHANGED <<cooldown, quiet>>
        /\ suggested' = (IF Cardinality(suggested) > MaxSeen THEN {} ELSE suggested) \cup {t}
    BY <1>8 DEF Generated
  <2>2. handling[h] \in [at : {"suggesting", "showing"}, overtaken : BOOLEAN]
    BY <1>3, <2>1 DEF SessionCalls
  <2>3. c \in SessionCalls /\ c.at = "showing" /\ c.overtaken = handling[h].overtaken
    BY <2>2 DEF SessionCalls
  <2>4. Seen'
    <3> DEFINE kept == IF Cardinality(suggested) > MaxSeen THEN {} ELSE suggested
    <3>1. Cardinality(suggested) \in Nat
      BY FS_CardinalityType DEF Seen
    <3>2. IsFiniteSet(kept) /\ Cardinality(kept) \in Nat /\ Cardinality(kept) <= MaxSeen /\ kept \subseteq Suggestions
      BY <3>1, FS_EmptySet DEF Seen
    <3> HIDE DEF kept
    <3>3. /\ IsFiniteSet(kept \cup {t})
          /\ \/ Cardinality(kept \cup {t}) = Cardinality(kept)
             \/ Cardinality(kept \cup {t}) = Cardinality(kept) + 1
      BY <3>2, FS_AddElement
    <3>4. suggested' = kept \cup {t}
      BY <2>1 DEF kept
    <3> QED  BY <3>2, <3>3, <3>4 DEF Seen
  <2>5. cooldown' \in Nat /\ quiet' \in Nat /\ cooldown' + quiet' = Cooldown /\ quiet' = quiet
    BY <2>1 DEF SuggestionsAreSpaced, SessionKinds
  <2>6. \A g \in Handlers : Suggesting(handling[g]) /\ ~handling[g].overtaken => quiet' = Cooldown
    BY <2>5 DEF SuggestionsAreSpaced
  <2>7. Suggesting(handling[h])
    BY <2>1 DEF Suggesting
  <2>8. Suggesting(c) /\ ~c.overtaken => quiet' = Cooldown
    BY <2>3, <2>6, <2>7
  <2> HIDE DEF c
  <2> QED  BY <1>4, <2>1, <2>3, <2>4, <2>5, <2>6, <2>8
<1> QED  BY <1>5, <1>6, <1>7, <1>8

\* Recording a turn warns when it fills the window so far, if none did before.
LEMMA UsageStep == ASSUME SessionIInv, NEW fill \in Fills, RecordUsage(fill) PROVE SessionIInv'
<1> USE SessionNumbers DEF SessionIInv
<1> DEFINE n == gauge.turns
<1>1. n \in Nat /\ fill \in Nat /\ n + 1 \in Nat
  BY SessionAssumption DEF Warns
<1>2. /\ gauge'.turns = n + 1 /\ gauge'.warned = (gauge.warned \/ Crossed(fill))
      /\ tally' = [t \in 1 .. n + 1 |-> IF t > n THEN fill ELSE tally[t]]
      /\ warnings' = IF Crossed(fill) THEN warnings \cup {n + 1} ELSE warnings
      /\ UNCHANGED <<handling, titlevars, suggestvars>>
  BY DEF RecordUsage
<1>3. SessionKinds' /\ Seen' /\ Titles' /\ SuggestionsAreSpaced'
  BY <1>2 DEF SessionKinds, Seen, Titles, Titling, SuggestionsAreSpaced, titlevars, suggestvars
<1>4. /\ tally' \in [1 .. n + 1 -> Nat] /\ tally'[n + 1] = fill
      /\ \A u \in 1 .. n : u \in 1 .. n + 1 /\ tally'[u] = tally[u]
  BY <1>1, <1>2 DEF Warns
<1>5. \A u \in 1 .. n + 1 : u \in 1 .. n \/ u = n + 1
  BY <1>1
<1>6. Crossed(fill) => ~gauge.warned /\ 100 * fill > Budget - 100
  BY <1>1 DEF Crossed, Threshold, Budget
<1>7. ~Crossed(fill) => gauge.warned \/ ~(Window > 0 /\ Percent > 0 /\ 100 * fill >= Budget)
  BY <1>1 DEF Crossed, Threshold, Budget
<1> HIDE DEF n
<1>8. /\ warnings \subseteq 1 .. n /\ \A t, u \in warnings : t = u
      /\ gauge.warned <=> warnings # {}
  BY DEF Warns, n
<1>9. /\ warnings' \subseteq 1 .. n + 1 /\ warnings \subseteq warnings' /\ \A t, u \in warnings' : t = u
      /\ gauge'.warned <=> warnings' # {}
  <2>1. CASE Crossed(fill)
    <3>1. warnings = {} /\ warnings' = {n + 1} /\ gauge'.warned
      BY <1>2, <1>6, <1>8, <2>1 DEF n
    <3> QED  BY <1>1, <3>1
  <2>2. CASE ~Crossed(fill)
    <3>1. warnings' = warnings /\ (gauge'.warned <=> gauge.warned)
      BY <1>2, <2>2
    <3> QED  BY <1>1, <1>8, <3>1
  <2> QED  BY <2>1, <2>2
<1>10. \A t \in warnings' : 100 * tally'[t] > Budget - 100
  BY <1>2, <1>4, <1>6, <1>8 DEF Warns
<1>11. \A u \in 1 .. n + 1 :
         Window > 0 /\ Percent > 0 /\ 100 * tally'[u] >= Budget => \E t \in warnings' : t <= u
  <2> SUFFICES ASSUME NEW u \in 1 .. n + 1, Window > 0, Percent > 0, 100 * tally'[u] >= Budget
               PROVE  \E t \in warnings' : t <= u
    OBVIOUS
  <2>1. CASE u \in 1 .. n
    <3>1. \E t \in warnings : t <= u
      BY <1>4, <2>1 DEF Warns, n
    <3> QED  BY <1>9, <3>1
  <2>2. CASE u = n + 1
    <3>1. CASE Crossed(fill)
      BY <1>1, <1>2, <2>2, <3>1
    <3>2. CASE ~Crossed(fill)
      <4>1. PICK t \in warnings : TRUE
        BY <1>4, <1>7, <1>8, <2>2, <3>2
      <4>2. t <= u
        BY <1>1, <1>8, <2>2
      <4> QED  BY <1>9, <4>2
    <3> QED  BY <3>1, <3>2
  <2> QED  BY <1>5, <2>1, <2>2
<1>12. gauge'.warned \in BOOLEAN
  BY <1>2, <1>8
<1>13. Warns'
  BY <1>1, <1>2, <1>4, <1>9, <1>10, <1>11, <1>12 DEF Warns
<1> QED  BY <1>3, <1>13

\* Every step keeps the invariant.
LEMMA SessionNextIInv == SessionIInv /\ [SessionNext]_evars => SessionIInv'
<1> SUFFICES ASSUME SessionIInv, [SessionNext]_evars PROVE SessionIInv'
  OBVIOUS
<1>1. CASE UNCHANGED evars
  BY <1>1 DEF evars, SessionIInv, SessionKinds, Seen, Titles, Titling, SuggestionsAreSpaced, Warns
<1> QED  BY <1>1, TitleStep, SuggestStep, UsageStep DEF SessionNext

(* For any handlers, cooldown, window and percentage: one title; a whole    *)
(* cooldown before a suggestion, unless its handler had passed the cooldown *)
(* before the last one was shown; and one warning, no later than the window *)
(* fills (autotitle/register.go:41, suggest/suggest.go:86,                  *)
(* tokengate/budget.go:63).                                                 *)
THEOREM TurnsCounted == SessionSpec => [](SessionTypeOK /\ TurnsAreCounted)
<1>1. SessionIInv => SessionTypeOK
  BY SessionNumbers DEF SessionIInv, SessionKinds, Seen, SuggestionsAreSpaced, Warns, SessionTypeOK
<1>2. SessionIInv => TitledOnce
  <2> SUFFICES ASSUME SessionIInv PROVE TitledOnce
    OBVIOUS
  <2>1. Cardinality(Titling) <= 1
    BY OneAtMost DEF SessionIInv, Titles
  <2> QED  BY <2>1 DEF SessionIInv, SessionKinds, Titles, Titling, TitledOnce
<1>3. SessionIInv => WarnedAtTheCrossing
  <2> SUFFICES ASSUME SessionIInv PROVE WarnedAtTheCrossing
    OBVIOUS
  <2>1. Cardinality(warnings) <= 1
    BY OneAtMost DEF SessionIInv, Warns
  <2> QED  BY <2>1 DEF SessionIInv, Warns, Budget, WarnedAtTheCrossing
<1>4. SessionIInv => TurnsAreCounted
  BY <1>2, <1>3 DEF SessionIInv, TurnsAreCounted
<1> QED  BY <1>1, <1>4, SessionInitIInv, SessionNextIInv, PTL DEF SessionSpec

-----------------------------------------------------------------------------
(* The composition: whichever of them runs, the others stay as they are.    *)

\* A behaviour of the composition is one of each module.
LEMMA EachRuns ==
  StoresSpec => CacheSpec /\ PlanSpec /\ RecallSpec /\ CronExtensionSpec /\ SessionSpec /\ CompactionSpec
<1>1. StoresInit => CacheInit /\ PlanInit /\ RecallInit /\ CronExtensionInit /\ SessionInit /\ CompactionInit
  BY DEF StoresInit
<1>2. [StoresNext]_storesvars =>
        /\ [CacheNext]_cvars /\ [PlanNext]_pvars /\ [RecallNext]_rvars
        /\ [CronExtensionNext]_cronvars /\ [SessionNext]_evars /\ [CompactionNext]_mvars
  BY DEF StoresNext, storesvars
<1> QED  BY <1>1, <1>2, PTL DEF StoresSpec, CacheSpec, PlanSpec, RecallSpec, CronExtensionSpec, SessionSpec, CompactionSpec

\* For any values of the constants, the variables of every module that keeps something keep their
\* kinds, whichever of them runs.
THEOREM StoresTyped == StoresSpec => []StoresTypeOK
BY EachRuns, CacheTyped, PlanTyped, RecallTyped, ExtensionTyped, TurnsCounted, CompactionTyped, PTL DEF StoresTypeOK

\* WHAT IS KEPT IS WHOLE: what the cache hands out and what a Set left, the plan in plan.md and in
\* every copy, and the index of every process, whatever calls and crashes come in between
\* (cache/cache.go:41, plan/store.go:30, recall/index.go:105); and the agent of launchd has its property
\* list unless launchctl failed or calls overlapped (cron/commands.go:252).
THEOREM WholeStores == StoresSpec => []StoresAreWhole
BY EachRuns, CacheKeeps, PlanCoheres, DocumentsFound, AgentRemovable, PTL DEF StoresAreWhole

\* NOTHING ELSE IS DROPPED: what is kept goes only for what is newer, or where a file or the
\* conversation was changed under the call (recall/index.go:163, memory/register.go:170,
\* memory/clearer.go:69, cron/tools.go:184).
THEOREM OnlyOlderDropped == StoresSpec => NothingElseIsDropped
BY EachRuns, NewestKept, NewestRemain, FilesListed, SchedulesKept, PTL DEF NothingElseIsDropped

=============================================================================
