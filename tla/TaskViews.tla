------------------------------ MODULE TaskViews ------------------------------
(***************************************************************************)
(* What the tasklist shows and how its tools and its command name a task   *)
(* (tasklist/store.go, store_write.go, tools*.go, command.go, prompt.go):  *)
(* ids, their resolution, the lists, the counts, the prompt section and    *)
(* the operation each call comes to.  TaskStore models what the operations *)
(* do to the tree and the file.                                            *)
(*                                                                         *)
(* An id and a query are sequences of letters, which are numbers, <<>> the *)
(* empty string, and a store a function from ids to tasks [status, group,  *)
(* parent, updated, words], where words are what a search finds in the     *)
(* title and the notes and no two tasks were updated at the same time.     *)
(***************************************************************************)
EXTENDS Naturals, SequencesExt

NoTask == <<0>>    \* no letter is 0
Cut == <<0, 0>>
RootsOnly == "!"

Error == [op |-> "error"]

-----------------------------------------------------------------------------
(* Ids. *)

(* A letter that stands for the number which tells equal titles apart. *)
Numbered(slug, i) == IF i = 1 THEN slug ELSE Append(slug, i)

(* Add: the slug of the title, or the first numbered one that is free. *)
FreshID(d, slug) ==
    LET free == {i \in 1 .. Cardinality(DOMAIN d) + 1 : Numbered(slug, i) \notin DOMAIN d} IN
    Numbered(slug, CHOOSE i \in free : \A j \in free : i <= j)

(* The exact id, else the only one that begins with the query, else the    *)
(* only one that ends with it, even if it begins several.                  *)
ResolveID(d, query) ==
    LET prefixed == {id \in DOMAIN d : IsPrefix(query, id)}
        suffixed == {id \in DOMAIN d : IsSuffix(query, id)} IN
    IF query \in DOMAIN d THEN query
    ELSE IF Cardinality(prefixed) = 1 THEN CHOOSE id \in prefixed : TRUE
    ELSE IF Cardinality(suffixed) = 1 THEN CHOOSE id \in suffixed : TRUE
    ELSE NoTask

-----------------------------------------------------------------------------
(* Lists: active tasks first, the latest change first. *)

Newest(d, S) ==
    LET newer(x) == {y \in S : d[y].updated > d[x].updated} IN
    [k \in 1 .. Cardinality(S) |-> CHOOSE x \in S : Cardinality(newer(x)) = k - 1]

TaskList(d, status, group, parent) ==
    LET shown == {x \in DOMAIN d : /\ status # "" => d[x].status = status
                                   /\ group # "" => d[x].group = group
                                   /\ d[x].parent = IF parent = RootsOnly THEN <<>> ELSE parent} IN
    Newest(d, {x \in shown : d[x].status = "active"}) \o Newest(d, {x \in shown : d[x].status # "active"})

SearchTasks(d, word) == Newest(d, {x \in DOMAIN d : word \in d[x].words})

ChildrenOf(d, p) == Newest(d, {x \in DOMAIN d : d[x].parent = p})

ActiveTasks(d) == Newest(d, {x \in DOMAIN d : d[x].status = "active" /\ d[x].group = "todo" /\ d[x].parent = <<>>})

Stats(d) ==
    LET done == {x \in DOMAIN d : d[x].status = "done"}
        backlog == {x \in DOMAIN d \ done : d[x].group = "backlog"} IN
    [done |-> Cardinality(done), backlog |-> Cardinality(backlog),
     active |-> Cardinality(DOMAIN d \ (done \cup backlog))]

(* Tasks, each with what is shown below it. *)
Unfolded(tasks, below) ==
    LET upto[k \in 0 .. Len(tasks)] ==
            IF k = 0 THEN <<>> ELSE upto[k - 1] \o <<tasks[k]>> \o below[tasks[k]] IN
    upto[Len(tasks)]

(* The prompt section: active root tasks, each with its active children;   *)
(* nothing at all without these, a done task and one in the backlog.       *)
Section(d) ==
    LET tasks == ActiveTasks(d)
        under(x) == Newest(d, {c \in DOMAIN d : d[c].parent = x /\ d[c].status = "active"}) IN
    IF tasks = <<>> /\ Stats(d).backlog = 0 /\ Stats(d).done = 0 THEN <<>>
    ELSE <<Stats(d)>> \o Unfolded(tasks, [x \in DOMAIN d |-> under(x)])

(* It is cut off after 4000 characters, room for so many whole lines; what *)
(* shows of the next line and the notice that follows is Cut.              *)
Prompt(d, room) ==
    IF Len(Section(d)) <= room THEN Section(d) ELSE Append(SubSeq(Section(d), 1, room), Cut)

(* /todo without words: active tasks of both groups, the first with all    *)
(* their children; a notice if no root task is active.                     *)
Overview(d) ==
    LET todo == TaskList(d, "active", "todo", RootsOnly) IN
    IF TaskList(d, "active", "", <<>>) = <<>> THEN <<"no active tasks">>
    ELSE <<Stats(d)>> \o Unfolded(todo, [x \in DOMAIN d |-> ChildrenOf(d, x)])
                      \o TaskList(d, "active", "backlog", RootsOnly)

-----------------------------------------------------------------------------
(* Calls. *)

(* A tool: its query is resolved, and the operation given the id. *)
Tool(d, name, args) ==
    LET id == IF args.query = <<>> THEN NoTask ELSE ResolveID(d, args.query)
        On(op) == IF id = NoTask THEN Error ELSE op @@ [id |-> id] IN
    CASE name = "add" -> IF args.title = <<>> THEN Error ELSE [op |-> "add", group |-> args.group, parent |-> args.parent]
      [] name = "list" -> [op |-> "shown", tasks |-> TaskList(d, args.status, args.group, args.parent)]
      [] name = "search" -> IF args.text = "" THEN Error ELSE [op |-> "shown", tasks |-> SearchTasks(d, args.text)]
      [] name = "status" -> [op |-> "counts", counts |-> Stats(d)]
      [] name = "get" -> On([op |-> "get"])
      [] name = "update" -> On([op |-> "update"])
      [] name = "done" -> On([op |-> "done"])
      [] name = "undone" -> On([op |-> "undone"])
      [] name = "delete" -> On([op |-> "delete"])
      [] name = "move" -> On([op |-> "move", group |-> args.group, parent |-> args.parent])
      [] name = "plan" -> CASE args.action \in {"", "read"} -> On([op |-> "get"])
                            [] args.action = "replace" /\ args.text # "" -> On([op |-> "update"])
                            [] args.action = "append" /\ args.text # "" -> On([op |-> "append"])
                            [] OTHER -> Error
      [] name = "link" -> IF args.field = "" \/ args.text = "" THEN Error ELSE On([op |-> "link"])

(* /todo: its first word, an id or a title, and a text. *)
TodoCommand(d, word, query, text) ==
    LET id == IF query = <<>> THEN NoTask ELSE ResolveID(d, query)
        On(op) == IF id = NoTask THEN Error ELSE op @@ [id |-> id] IN
    CASE word = "" -> [op |-> "shown", tasks |-> Overview(d)]
      [] word = "add" -> IF query = <<>> THEN Error ELSE [op |-> "add", group |-> "todo", parent |-> <<>>]
      [] word = "done" -> On([op |-> "done"])
      [] word = "delete" -> On([op |-> "delete"])
      [] word = "backlog" -> On([op |-> "move", group |-> "backlog", parent |-> <<>>])
      [] word = "plan" -> On([op |-> IF text = "" THEN "get" ELSE "append"])
      [] word = "list" -> [op |-> "shown", tasks |->
             CASE text = "done" -> TaskList(d, "done", "", <<>>)
               [] text = "backlog" -> TaskList(d, "active", "backlog", <<>>)
               [] text = "all" -> TaskList(d, "", "", <<>>)
               [] OTHER -> TaskList(d, "active", "", <<>>)]
      [] OTHER -> Error

-----------------------------------------------------------------------------

(* store.go:58-101, store_write.go:23-28: a new task takes the id of no    *)
(* other and answers to its own id; a query names a task only if it is one *)
(* end of its id, and the whole id of a task names that task whatever else *)
(* begins or ends with it; whatever the tools and the command make of the  *)
(* same query is done to the same task.                                    *)
QueriesAreCertain(d, slug, query) ==
    LET id == FreshID(d, slug)
        added == [status |-> "active", group |-> "todo", parent |-> <<>>, updated |-> 9, words |-> {}]
        after == [x \in {id} \cup DOMAIN d |-> IF x = id THEN added ELSE d[x]]
        found == ResolveID(d, query)
        args == [query |-> query, group |-> "backlog", parent |-> <<>>, action |-> "append", text |-> "a", field |-> "url"] IN
    /\ id \notin DOMAIN d /\ IsPrefix(slug, id)
    /\ ResolveID(after, id) = id
    /\ found # NoTask => /\ IsPrefix(query, found) \/ IsSuffix(query, found)
                         /\ found # query => query \notin DOMAIN d /\
                                \/ \A other \in DOMAIN d : IsPrefix(query, other) => other = found
                                \/ \A other \in DOMAIN d : IsSuffix(query, other) => other = found
    /\ \A name \in {"done", "delete"} : Tool(d, name, args) = TodoCommand(d, name, query, "")
    /\ Tool(d, "move", args) = TodoCommand(d, "backlog", query, "")
    /\ Tool(d, "plan", args) = TodoCommand(d, "plan", query, "a")

(* store.go:146-196, prompt.go:11-44, command.go:28-67: the counts part    *)
(* the tasks; the prompt shows only active todo tasks at the root and      *)
(* their active children, none of these without its parent before it, all  *)
(* of them if it is not cut off, and each once unless a task has the empty *)
(* id, below which every root task stands; /todo shows all of them, and no *)
(* task that is done elsewhere than below one.                             *)
SummariesAgree(d, room) ==
    LET counts == Stats(d)
        shown == Prompt(d, room)
        lines == {k \in 2 .. Len(shown) : shown[k] # Cut}
        told == {shown[k] : k \in lines}
        overview == Overview(d)
        todo == {x \in DOMAIN d : d[x].status = "active" /\ d[x].group = "todo" /\ d[x].parent = <<>>}
        below == {x \in DOMAIN d : d[x].status = "active" /\ d[x].parent \in todo} IN
    /\ counts.done + counts.backlog + counts.active = Cardinality(DOMAIN d)
    /\ shown = <<>> => todo = {}
    /\ told \subseteq todo \cup below
    /\ \A k \in lines : shown[k] \in todo \/ \E i \in lines : i < k /\ shown[i] = d[shown[k]].parent
    /\ shown # <<>> /\ Len(shown) <= room => told = todo \cup below
    /\ <<>> \notin DOMAIN d => \A i, j \in lines : i # j => shown[i] # shown[j]
    /\ todo # {} => /\ todo \cup below \subseteq Range(Tail(overview))
                    /\ \A x \in Range(Tail(overview)) \ todo :
                           d[x].parent \in todo \/ (d[x].group = "backlog" /\ d[x].status = "active")
=============================================================================
