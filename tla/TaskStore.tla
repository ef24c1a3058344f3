------------------------------ MODULE TaskStore ------------------------------
(***************************************************************************)
(* The task store of the tasklist extension (tasklist/store.go,            *)
(* store_write.go, task.go and the tools over them): a tree of tasks kept  *)
(* in memory by each session and rewritten to one JSON file per project    *)
(* after every change.                                                     *)
(*                                                                         *)
(* Store.mu covers a whole operation, so an operation is one step of its   *)
(* session; sessions share only the file.  Titles, notes, links and times  *)
(* are left out, a task is what the tree needs.  A tool resolves its query *)
(* to an id and then calls the operation in a second critical section, so  *)
(* the operation is given any id: what Resolve saw may be gone.            *)
(***************************************************************************)
CONSTANTS
    Ids,        \* what slugify can produce
    Root,       \* the empty string: the parent of a root task, and the id of a bare title
    Groups,     \* the groups in use: a free string for the store, "todo" or "backlog" in its docs
    Sessions    \* piglet processes opened on the same project

Addressable == Ids \ {Root}     \* requireStoreAndResolve and the commands refuse an empty id

Task == [parent : Ids \cup {Root}, status : {"active", "done"}, group : Groups]
Data == UNION {[D -> Task] : D \in SUBSET Ids}
Empty == [x \in {} |-> x]

VARIABLES
    mem,        \* mem[s]: Store.data of a session
    disk,       \* the contents of the JSON file
    open        \* the sessions that have a store

vars == <<mem, disk, open>>

Init ==
    /\ mem = [s \in Sessions |-> Empty]
    /\ disk = Empty
    /\ open = {}

-----------------------------------------------------------------------------
(* Walks over the tree                                                     *)

Children(d, p) == {x \in DOMAIN d : d[x].parent = p /\ p # Root}

\* The walk of Done, Undone and Delete: a task and all its descendants.
Below(d, id) == {x \in DOMAIN d : \A S \in SUBSET DOMAIN d :
    id \in S /\ (\A p \in S : Children(d, p) \subseteq S) => x \in S}

\* What isDescendant passes on its way up from a task.
Above(d, id) == {x \in DOMAIN d : \A S \in SUBSET DOMAIN d :
    (\A y \in S \cup {id} : d[y].parent \in (DOMAIN d \ {Root}) => d[y].parent \in S) => x \in S}

-----------------------------------------------------------------------------
(* Sessions                                                                *)

\* OnInit: NewStore loads the file.
Load(s) ==
    /\ s \notin open
    /\ open' = open \cup {s}
    /\ mem' = [mem EXCEPT ![s] = disk]
    /\ UNCHANGED disk

\* The process ends, between operations or inside a flush: either way memory is gone.
Exit(s) ==
    /\ s \in open
    /\ open' = open \ {s}
    /\ mem' = [mem EXCEPT ![s] = Empty]
    /\ UNCHANGED disk

\* The map is changed first and written afterwards; when the write fails the caller gets
\* an error and the map keeps the change.
Store(s, d) ==
    /\ s \in open
    /\ mem' = [mem EXCEPT ![s] = d]
    /\ disk' \in {d, disk}
    /\ UNCHANGED open

-----------------------------------------------------------------------------
(* Operations                                                              *)

Add(s, id, group, parent) ==
    /\ id \notin DOMAIN mem[s]
    /\ parent # Root => parent \in DOMAIN mem[s]
    /\ Store(s, [x \in DOMAIN mem[s] \cup {id} |->
           IF x = id THEN [parent |-> parent, status |-> "active", group |-> group] ELSE mem[s][x]])

\* Update, AppendNotes and Link change what is not modelled and flush.
Touch(s, id) ==
    /\ id \in DOMAIN mem[s]
    /\ Store(s, mem[s])

\* Faulty: the walk visits every task that has a parent.
SetStatusOfAll(s, id, status) ==
    /\ id \in DOMAIN mem[s]
    /\ Store(s, [x \in DOMAIN mem[s] |-> [mem[s][x] EXCEPT !.status = status]])

\* Done and Undone.
SetStatus(s, id, status) ==
    /\ id \in DOMAIN mem[s]
    /\ Store(s, [x \in DOMAIN mem[s] |->
           IF x \in Below(mem[s], id) THEN [mem[s][x] EXCEPT !.status = status] ELSE mem[s][x]])

\* Faulty: the entries are set to nil, not removed.
DeleteToNil(s, id) ==
    /\ id \in DOMAIN mem[s]
    /\ Store(s, [x \in DOMAIN mem[s] |-> IF x \in Below(mem[s], id) THEN Root ELSE mem[s][x]])

Delete(s, id) ==
    /\ id \in DOMAIN mem[s]
    /\ Store(s, [x \in DOMAIN mem[s] \ Below(mem[s], id) |-> mem[s][x]])

\* Naming one of the two groups reactivates the task.
Regrouped(t, group) ==
    [t EXCEPT !.group = IF group = "" THEN @ ELSE group,
              !.status = IF group \in {"todo", "backlog"} THEN "active" ELSE @]

\* Faulty: the new parent may be a descendant.
MayAdoptAny(d, id, parent) == parent # id /\ parent \in DOMAIN d

MayAdopt(d, id, parent) ==
    /\ parent # id
    /\ parent \in DOMAIN d
    /\ id \notin Above(d, parent)

\* An empty parent leaves the task where it is.
Moved(t, group, parent) ==
    [Regrouped(t, group) EXCEPT !.parent = IF parent = Root THEN @ ELSE parent]

Move(s, id, group, parent) ==
    /\ id \in DOMAIN mem[s]
    /\ parent # Root => MayAdopt(mem[s], id, parent)
    /\ Store(s, [mem[s] EXCEPT ![id] = Moved(@, group, parent)])

\* The group is set before the parent is looked at and stays set when the parent is refused.
MoveRefused(s, id, group, parent) ==
    /\ s \in open
    /\ id \in DOMAIN mem[s]
    /\ parent # Root
    /\ ~MayAdopt(mem[s], id, parent)
    /\ mem' = [mem EXCEPT ![s][id] = Regrouped(@, group)]
    /\ UNCHANGED <<disk, open>>

Operation(s) ==
    \/ \E id \in Ids, g \in Groups, p \in Ids \cup {Root} : Add(s, id, g, p)
    \/ \E id \in Addressable :
         \/ Touch(s, id)
         \/ \E st \in {"active", "done"} : SetStatus(s, id, st)
         \/ Delete(s, id)
         \/ \E g \in Groups \cup {""}, p \in Ids \cup {Root} :
              Move(s, id, g, p) \/ MoveRefused(s, id, g, p)

Next == \E s \in Sessions : Load(s) \/ Exit(s) \/ Operation(s)

Spec == Init /\ [][Next]_vars

-----------------------------------------------------------------------------
TypeOK ==
    /\ mem \in [Sessions -> Data]
    /\ disk \in Data
    /\ open \subseteq Sessions

\* Every parent of a task is a task.
NoOrphans(d) == \A x \in DOMAIN d : d[x].parent # Root => d[x].parent \in DOMAIN d

\* No task is its own ancestor: every set of tasks has one whose parent is outside it.
Acyclic(d) == \A S \in (SUBSET DOMAIN d) \ {{}} :
    \E x \in S : d[x].parent = Root \/ d[x].parent \notin S

IsForest(d) == NoOrphans(d) /\ Acyclic(d)

\* Whatever is moved, deleted, refused, half saved or overwritten by another session, what a
\* session holds and what the file holds is a forest: the walks of isDescendant, Done and
\* Delete, which run with the mutex held and carry no visited set, come to an end.
Forests == IsForest(disk) /\ \A s \in Sessions : IsForest(mem[s])

\* An operation removes or re-marks tasks of one tree at most: two root tasks never change
\* together, except when a session opens or ends.
OneTree == [][\A s \in Sessions : s \in open /\ s \in open' =>
    \A x, y \in DOMAIN mem[s] :
        /\ mem[s][x].parent = Root /\ mem[s][y].parent = Root
        /\ \A z \in {x, y} : z \notin DOMAIN mem'[s] \/ mem'[s][z] # mem[s][z]
        => x = y]_vars
=============================================================================
