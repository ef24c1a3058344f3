# Verification of piglet-extensions

TLA+ models of the stateful parts of piglet-extensions, TLC runs over small
instances, and TLAPS proofs. Everything is translated from the Go source; a line
such as `lsp/transport.go:185` names a file under `src/`.

## 1. The system

piglet-extensions is a set of Go packages, one per extension. A pack (`packs/*`)
is a process that registers several of them and speaks JSON-RPC over its standard
input and output to the host, *piglet*, through the `sdk` module (not in the
repository). The host calls tools, commands, event handlers and interceptors; the
sdk runs each call in a goroutine of its own with a context that the host may
cancel, so every extension is a concurrent server whose state is what its mutexes
and files make of it. Next to the packs there are command-line tools (`cmd/*`),
one of which, `piglet-cron`, is started by launchd every minute.

Extensions do not call each other. They meet in three places: the file system
(under `~/.config/piglet`, shared by all sessions of a user), the host's registry
of prompt sections and events, and `internal/xdg`, which writes files through a
temporary name and a rename.

### Components, their state and what is hard

| Component | State | Operations | Hard part | What makes it correct |
|---|---|---|---|---|
| `lsp` transport | `nextID`, `pending`, `done`, two pipes | `callRaw`, `notify`, `readLoop` | concurrent callers, one reader, a server that dies, cancellation | every call gets its own answer or an error and returns; no entry leaks; the reader never blocks |
| `lsp` manager, client | `clients`, `starting`, a condition, `openFiles`, server processes | `ForFile`, `EnsureFileOpen`, queries, `Shutdown` | the lock is released around the start; waiters; a start that fails; a server bound to a context | one start at a time, nobody waits for ever, one `didOpen` per file |
| `lspq` | none | one call of the manager, `Shutdown` | - | as the manager |
| `tasklist` | a tree of tasks in memory and in a file per project | add, update, note, done, delete, move, list | several sessions on one file, failed flushes, chains of moves | the tree stays a forest, an operation touches one tree |
| `inbox` | `seen`, ack files, the directory | scan, process, prune, register | crash between effects, repeated ids, half-written files, races for a path | at-most-once per memory, no repetition of what is acknowledged, everything is judged |
| `pipeline` | one `Run`; definition files | main steps, groups, finally steps, retries, iterations; load, expand, preview, create | nested errgroup limits, halting, an ending context; defaults, ranges and references | barriers, limits, status and report agree, finally steps are attempted, a run ends; the preview shows what a run does |
| `cron` daemon | lock file, history, schedules | lock, collect, execute, record, rotate, release | overlapping instances, kills, rotation | one instance at a time, no run repeated, no due run missed |
| `cron` extension | `schedules.yaml`, the property list and agent of launchd | add, remove, list, history, install, uninstall | read-modify-write without a lock | only calls that overlap an edit lose anything; an agent has its property list |
| `memory` store | facts and symmetric relations per project in a file, extraction counters | set, delete, relate, clear, extract | list in one lock region, delete in others; several processes on one file; relations to deleted facts | relations stay symmetric and refer to facts; a reset forgets; facts of the user stay |
| `memory` context | the conversation, context facts of the session | truncate, extract, clear, compact, reinject | handlers that rewrite the conversation one after the other, summaries of summaries | the newest turns are untouched, files stay listed through compactions |
| `repomap` | map, `builtAt`, `building`, disk cache | `Build`, `Stale`, `Dirty`, `SaveCache`, `LoadCache` | builds started by events, a `Dirty` during a build, an older build that ends last | a change is seen by some later build |
| `repomap` algorithms | none | scan, parse, rank, spend the budget, render, filter | maps and goroutines that decide orders, budgets, comments | results do not depend on order, no file is forgotten or repeated |
| `plan` | `plan.md`, plan mode | propose, update, mode, checkpoint, interceptor | two locked regions per update | whatever is lost, file and copies hold one coherent plan |
| `loop` | `running`, `cancel`, `done`, counter | `Start`, `Stop`, tick | stop from within a tick, start between stop and the end of the goroutine | at most one ticking goroutine, no tick after `Stop` |
| `cache`, `internal/xdg` | files with an expiry, one temporary name per file | `Get`, `Set`, `Delete`, `Purge`, GC | several writers of one temporary file, crashes | what is handed out is whole, an undisturbed `Set` is found |
| `mcp` | connections, tools by server | connect all, discover, call, close | a mutex held over a remote call | one failing server does not hide the others |
| `coordinator`, `bulk` | none beyond a call | plan, scan, filter, dispatch over an errgroup, merge | bounded parallelism, partial failures, an ending context | every item has exactly one result, the call ends |
| `depgraph` | the graph, cached by `cmd/depgraph` | load, traverse, find cycles and paths, show | traversal orders, output that is cut | distances, cycles and counts are right |
| `background` | the id of the one background agent | start, cancel, status | check, then act, across host calls | at most one agent |
| `subagent` | a window and a result file | dispatch, poll | timeout against a late result | a finished agent is reported |
| `recall` | index of sessions, index file | add, search, save, load | `Save` encodes after its unlock | document frequencies agree with the documents |
| `route` | registry, learned triggers, feedback log | register, score, record, learn | a read-modify-write of the triggers | learning is a function of the log |
| `provider` | key cache | stream a reply, list models | a stream cut in the middle | deltas add up to the reply |
| `webfetch` | session store, browser, limits per host | fetch, search | fallback order, one browser | the first provider that works answers |
| `suggest`, `autotitle`, `tokengate`, `usage`, `distill`, `behavior` | counters and flags per session | handlers of turn and message events | events that overlap, one-shot flags | fires once, counts add up |
| `safeguard` | rules, audit log | interceptor | classification by patterns | - |
| `selfupdate` | cached version check | check, upgrade | stale cache | - |
| `session-tools` | none | handoff, summary, fork | host calls that fail half way | - |
| `eval`, `cmd/extest` | one suite run, one child process | run a suite; drive one extension | timeouts, a child that dies | every case has one verdict |
| one-shot tools (`admin`, `changelog`, `clipboard`, `confirm`, `depgraph`, `export`, `extensions-list`, `fossil`, `gitcontext`, `modelsdev`, `prompts`, `rtk`, `scaffold`, `sift`, `skill`, `toolsearch`, `undo`) | none kept, or loaded once | read files or run a command and format the result | - | - |

`PROJECT.json` lists the same components with their files, and under `hazards`
the places where the code is hard to test, at their lines, with the properties that
watch them. A hazard without a property says why.

## 2. Plan

The order puts first what is concurrent, persistent or both, and what other
parts rely on. Every point is modelled and checked; what is left is proofs.

1. `RequestReply`, `LspTransport`, `LspTransportProofs`: the transport,
   its abstract service, the refinement and its proof.
2. `LspManager`, `LspManagerProofs`: it uses the transport only through calls that answer or
   fail, which is what `RequestReply` promises.
3. `TaskStore`, `StoreProofs`, `TaskViews`: several sessions on one file.
4. `Inbox`, `InboxProofs`: delivery from a shared directory.
5. `Pipeline`, `PipelineData`: one run, and the definition it runs.
6. `Cron`, `CronProofs`, `CronExtension`, `CronViews`: the daemon, the tools that edit what it
   reads, and what both compute of a schedule.
7. `Memory`, `MemoryProofs`, `Compaction`: facts and relations, and what the
   handlers make of the conversation.
8. `RepoMap`, `RepoMapProofs`, with `RepoScan`, `LineParsers` and `RepoRank` for its algorithms.
9. `CacheFiles`: several writers of one path through one temporary name.
10. `Plan`: plan mode, interceptor and updates.
11. `LoopScheduler`, `Subagent`: start, stop, poll and their races.
12. `Coordinator`, `Bulk`: dispatch over a group of bounded size.
13. `McpManager`, `Recall`, `Route`, `Depgraph`, `SessionEvents`; `WorkProofs` for
    `Pipeline`, `McpManager` and the modules of 11 and 12, and `StoreProofs` for `Compaction`,
    `CronExtension`, `CacheFiles`, `Plan`, `Recall`, `SessionEvents` and their composition.

Proved so far (section 5): the transport and its refinement, and for every other module that
keeps state its types and the safety properties the runs check; and for `RepoScan`,
`LineParsers`, `RepoRank`, `CronViews` and `TaskViews` that what they compute is right for every
input. What is left is
what section 5 lists as out of reach.

## 3. Modules

An `MC` module defines the values of the constants that a configuration cannot
write down. `RepoMapMC`, `WorkMC` and `StoresMC` put modules together that share no
state: a variable `focus` picks, in the first state, the one that runs, so that one
exploration serves them all. Where modules compute from data without keeping any
state, the one step of a behaviour picks an input (in `RepoMapMC`, also those of
`AnswerCases`), and an invariant speaks of what the operators make of it.

Operators whose name is that of an action with a word added
(`DeliverTwice`, `LeaveWithoutDelete`, ...) are faulty versions of the action:
they are no part of any specification and document which mistake in the code a
property would notice.

### LspTransport and RequestReply (`lsp/transport.go`)

A member of `Calls` is one execution of `callRaw`, and `pc` is where it stands:
take an id under `mu`, register a channel in `pending`, lock `writeMu`, write the
header, write the body, unlock, wait in the select, delete the entry, return. Each
lock region and each write is a step, so calls interleave as goroutines do. The
two pipes are queues of at most `PipeCap` elements; a full pipe blocks a writer.
`readLoop` is three actions: read a frame and look its id up (`ReadFrame`), send
it to the one-place channel (`Deliver`, enabled when there is room), and close
`done` at the end of the stream (`ReaderExit`). The server reads, answers in any
order, notifies, sends requests under its own ids (`ServerIds`) and dies at any
time; a context may end at any time. A frame is reduced to kind and id, because
`readLoop` looks at nothing else. `notify` is a `send` without an entry; a blocked
one is like a blocked call.

`RequestReply` is what a caller may rely on: a request ends at most once, and with
a reply only after the peer has replied to it. `LspTransport!Service` maps `pc`
and `outcome` to phases and `answered` to the callers whose request is answered.

### LspManager (`lsp/manager.go`, `lsp/client.go`, `cmd/lspq`)

One request is one tool call: `ForFile` (`UseClient`, `WaitForStart`,
`BeginStart`), the start with its candidates outside the lock (`Spawn`,
`Initialized`, `InitializeFails`, `TryNext`, `NotFound`), `Install`, then
`EnsureFileOpen` (`MarkOpen`, `ReadFile`, `DidOpen`) and one query. `starting` and
the condition variable are kept apart: `woken` holds the waiters a `Broadcast` has
woken and that have not got the lock back. A server runs under the context of
the call that started it (`exec.CommandContext`, `client.go:32`): `KillWithContext`.
The five queries are one action; they differ in the result, which no property
looks at.

### TaskStore (`tasklist/store.go`, `store_write.go`, `store_query.go`, `task.go`)

`mem[s]` is the map in a session, `disk` the file of the project; several sessions
open one file. Every operation is one action because the store holds its mutex
throughout, and every operation that changes the map ends in `flush`, which fails
or not (`Store`); after a failed flush memory keeps the change. A task is its
parent, status and group; titles, notes and times are left out. The recursive
walks (`descendants`, `isDescendant`) are the least sets closed under the step,
`Below` and `Above`. A session may exit and load again at any time. `Root` is the
empty string: an id may be empty, too, since `slugify` gives a title of
punctuation the empty id (`task.go:40`); no tool addresses such a task
(`Addressable`).

### Inbox (`inbox/inbox.go`, `process.go`, `register.go`)

Writers drop envelopes, perhaps in two steps and perhaps where another one lies;
the kind of an envelope says what `processFile` finds, a file there is no right to read
among them ("locked"). The scanner is one
goroutine; every effect, the hand-over to the host, the entry in `seen`, the ack
file and the removal, is a step, so a crash, an exit or a writer can come between
any two. A scan works through its listing by modification time (`process.go:43`), which
the writer chooses (`TimesOf`): a file renamed into place keeps the time of its writing, so
the order is not that of arrival, and of files with one time either comes first. A read may
fail, which leaves the file where it is for the next scan (`ReadFails`). Ack files survive a
crash, `seen` does not; `seen` is emptied at
`DedupCap` (1000 in the code). Ack writes and removals may fail, acks may be
pruned. The history variables `sent`, `told`, `judged` and `due` serve the
properties only.

Two things are in the model and no property speaks against them, since the code does
them: a half-written file is judged as what it is by then and removed without an ack
(`RejectUnread`, `process.go:74`), and a scanner that was not started because there was no
configuration directory is never started later (`AgentStartFails`, `register.go:40`).

### Pipeline (`pipeline/execute.go`, `step.go`)

One `Run`: main steps in sequence, groups one after the other with at most
`Concurrency` steps at a time, finally steps. `executeStep` is `Begin`,
`StartCommand` / `StartRefused` / `EndCommand` for every retry or iteration, and
`Return`. A command is a unit that ends well or badly; an ended context makes a
start be refused but does not end the run at once. The error policy is chosen at
the start. Predicates have a fixed answer; templates and outputs are left out. A timeout of
a step is one way for its command to end; what it does to processes that the shell has
started is under fairness, below.

### Cron (`cmd/piglet-cron/main.go`, `cron/lock.go`, `cron.go`, `history.go`, `schedules.go`)

`Agent` is the instance launchd starts again and again, the others are started by
`/cron test`. An instance opens the lock file, tries to `flock` it, reads the
history, runs what is due, appends the outcomes after all have ended, trims the
history, unlocks, and removes the path. The lock is that of an inode, so a file
that is unlinked and created again has another lock. An instance may be killed
wherever it stands, and a failed append exits without the release. Schedules are
intervals, days with an hour or weeks with a day and an hour, evaluated as in
`ShouldRun`; the clock ticks whenever it likes. `lastOk`, `cause`, `stolen` and
`overlap` are history variables.

### Memory (`memory/store.go`, `extractor.go`, `register.go`, `command.go`, `cmd/memory`)

`mem[s]` is the map of a process, `disk` the file of the project, which packs and the
command line share; a process loads it once and overwrites it with each flush, which may
fail. The operations of the store hold its mutex throughout and are one action each. The
handlers are not: the reset at `EventAgentStart`, `/memory clear context` and the pruning
list facts in one critical section (`BeginSweep`, `Prune`) and delete them one at a time
in others (`DeleteListed`), with tools and other handlers between; extraction sets one
fact per tool result (`ExtractResult`). A fact is its kind (of the user, of the category
`_context`, or one of the user too long for the scanner of `load`) and its relations.
Which facts are the oldest is left open, so pruning takes any `PruneCount`. `since[h]`
is a history variable: the keys set in the process of `h` since it listed.

### PipelineData (`pipeline/pipeline.go`, `loops.go`, `template.go`, `handlers.go`)

What `Pipeline` leaves out, as operators: which definitions `Validate` accepts, the
defaults, the ranges of a loop and their product, what a reference in a step sees of
the steps before it, the preview of a dry run, and the commands that find, list and
create definition files. `CanHappen` relates these to outcomes of a run.

### CronExtension and CronViews (`cron/tools.go`, `commands.go`, `config.go`, `internal/xdg/yaml.go`)

`CronExtension` has the tools as they run: a call loads `schedules.yaml` (or the flat
file of earlier versions), changes one task and saves the whole file, without a lock and
between other calls and edits by hand; a file that is no YAML is replaced. `/cron install`
and `/cron uninstall` write or remove the property list and load or unload the agent in
two steps. The unloading may fail, in which case its error is discarded and the property list
is removed all the same (`Bootout`; `refused` says that the last one left the agent loaded).
`CronViews` has what is computed: `ParseSchedule`, `ShouldRun`, `NextRun`, the
summaries, the history that is shown, the outcome of an executed task.

### TaskViews (`tasklist/store.go`, `tools.go`, `tools_plan.go`, `command.go`, `prompt.go`)

Ids and how a query finds one, lists and counts, the prompt section, and the operation of
`TaskStore` that each tool or `/todo` comes to. Ids are sequences of letters, so that
prefixes and the suffixes of equal titles are the ones of the code. The section is cut at 4000
characters (`prompt.go:38`), which `Prompt` counts in lines, of any number (`room`): a long
list shows its beginning and a mark. A root task with the empty id has the root tasks for
children (`Children("")`), which lists them twice; it is among the cases, and that each task is
shown once is claimed of stores without one.

### Compaction (`memory/extractor.go`, `clearer.go`, `overflow.go`, `compactor.go`, `compact_helpers.go`, `reinject.go`)

A turn brings any number of results. They enter truncated, unless the file for the overflow
cannot be written (`Overflow`, `overflow.go:33`), and the handlers of the turn's end take
them in turn, each handler a process of its own: the extractor makes each result a fact (or
fails to) and prunes, least recently updated first (`ExtractToolResult`, `PruneIfNeeded`); the
clearer, which has the lower priority, reads the conversation from the host and writes it
back in a second call (`ClearerReads`, `ClearerWrites`), and either may fail. A turn, a
compaction or another clearer may come between the two and is then overwritten
(`clearer.go:56-118`). Compaction keeps the newest messages and replaces the others by a
summary with the lists of files, which an answer of the model may replace, and by the facts
that matter most; it is one step, since it is handed the conversation by the host and its
answer replaces it. Extractions do not overlap. A message is its size class and the files it
lists, a fact its kind and the file or the turn it is about. The history variable `latest`
holds the facts set since the last turn ended.

### RepoMap, RepoScan, LineParsers, RepoRank (`repomap/`)

`RepoMap` is the life of the map of one process: a build scans (or hits its timeout),
stats each file, parses each, publishes under the lock, takes a snapshot and renames the
cache file; several builds overlap, in the background, after a turn, on request. The user
edits and removes files meanwhile; a turn marks the map dirty; the process ends and starts
from the cache file. A file's content is its version and so is its time of modification. A
version may not parse (`Unparsable`): the file is then left out of the map while its time is
recorded, and it is not tried again until some file changes (`parse_dispatch.go:51-54`). The
text with source lines is made from the files as they are when it is asked for
(`render_lines.go:70`), so it may show newer lines than the ones that were ranked; `text`
holds both, the ranking it is of and the contents it was made from. The walk is as
`scanner.go:198` has it, the root directory's own name included: a repository in a directory
named `build` or `tmp` is scanned as empty where git would list it.
The three others hold the algorithms: which files are scanned with and without git, the
symbols of Go, ctags and of the line parsers, inventory and filters; the ranking, the
budget and what is rendered. `Ordered` stands for the sorts of the code; the loops that add up
bytes or follow comments are recursive functions over the number of files or lines done.

### Plan (`plan/`)

`plan.md` and the calls that load it under the lock of the store, change their copy, and
save it under the lock again, with other calls in between; a save may fail. Formatting and
parsing are one operator, which loses the numbers of the steps. No handler looks at the text
of a step and several steps may say the same (`handlers.go:168`), so a step is its number and
its status. Notes and checkpoint commits are left out, and so are edits of `plan.md` by hand.

### CacheFiles (`cache/cache.go`, `internal/xdg/atomic.go`)

`WriteFileAtomic` step by step, with the open file of each writer: another writer's rename
moves it to the final name, so that a writer may write into the live file. An expired
entry is removed after the read that found it, whatever is there by then. The garbage
collector goes by times of modification, of which only the order is kept (`older`); a
rename keeps the time of its file. A process may die at any step.

### LoopScheduler, Subagent, Coordinator, Bulk, McpManager

`LoopScheduler` (`loop/loop.go`): `Start`, the goroutine with its select, and `Stop` in its three
steps: take the fields, cancel, wait. `Subagent` (`subagent/dispatch.go`): the polls for the
result file, the two deadlines and the activity of the pane, on a clock of polls. Killing the
pane is left to tmux, whose error is ignored (`dispatch.go:165`): it may go on working.
`Coordinator` (`coordinator/`): the plan of the model, its limits, agents in a group of three, the
merge. `Bulk` (`bulk/`, `cmd/bulk`): the arguments of tool and command line, the scan, the
filter and the command over groups, the summary. The directories a scan enters are the least set
closed under its step (`Visited`) instead of a recursion, and a sort by name is any order that
`slices.SortFunc` may leave, which does not keep equal names as they were (`NameOrders`). `McpManager` (`mcp/`): connections side by
side, tools asked for one server after the other with the mutex held, `/mcp` at any time. A
server that fails to initialize is closed first, which waits for its process and may not return
(`CloseReturns`, `client.go:59`); that runs in the server's goroutine without the mutex, so it
is the start that waits for it, and not `/mcp`.

### Recall, Route, SessionEvents, Depgraph

`Recall` (`recall/`): processes with an index each, which is encoded after the lock is
released, over one file; rebuilding. `SessionEvents`: the handlers of `autotitle`,
`suggest`, `tokengate` and `usage`, where a chat with the model lies between two looks at
the state. Two turns whose handlers of `suggest` overlap may both pass the cooldown and show
their suggestions one right after the other (`overtaken`). `Route` (`route/`) and `Depgraph` (`depgraph/`, `cmd/depgraph`) are operators: intents,
scores, tiers and what feedback teaches; the graph, traversals, cycles, paths, queries and
the cached graph.

## 4. Runs

`tlc -workers 2 -config X.cfg M` repeats a run. A passing run explores every state of
its instance. A violation run checks one sentence of the documentation that the code does
not keep, and ends in a trace that shows how.

| Run | Instance | What it shows |
|---|---|---|
| `LspTransport` | two calls, pipes of two elements, a server that also asks under an id no call has | `pending` holds exactly the calls in flight, each under its id (`PendingOwned`); a call that returns data returns its own answer (`OwnAnswer`); `readLoop` never blocks on a channel (`ReaderNeverStuck`); a waiting call hears of the server's death and of the end of its context, and with a server that reads and answers every call returns (`CallsAreAnswered`); the transport implements `RequestReply` |
| `LspTransportDeath` | the server asks under an id that a call has | a call is never told that the server died |
| `LspManager` | two calls for one file, one for a file of another language, one candidate each | `ServersAreShared`: one start per language at a time, no waiter is forgotten, a call gets a server of its language that has answered its handshake, one `didOpen` per file; every call comes to an end (`CallsEnd`) |
| `LspManagerSession` | the same | the server that `clients` offers was killed by the context of an earlier call |
| `TaskStore` | two sessions, ids `a`, `b` and the empty one | memory and file are always forests (`Forests`), and an operation leaves all other trees alone (`OneTree`) |
| `Inbox` | three envelopes, two of one id, two that may use one path, every kind (half-written files stand for garbage), a memory of one id | `DeliveriesAreSound`: at most one hand-over of an id per memory, an ack "delivered" is true, and of what a scan finds whole the older file is tried first and none is passed over; `EnvelopesAreSettled`: no hand-over of an id whose ack is there, a verdict for everything whole and readable that stays where it is, though any one reading of it may fail |
| `Pipeline` | three main steps, groups of three and one, two finally steps, with retries, iterations, a bad range, predicates and allowed failures; two at a time; both policies | `RunsAreReported`: stages do not overlap, the limits hold, status and report say what happened, a step fails only after all its retries, finally steps are attempted whatever happened; the run ends (`Terminates`) |
| `Cron` | launchd's instance and a forced one, a task under an interval, a daily or a weekly schedule, one kill or failed append | instances overlap only after a release unlinked a file another one had open (`ExclusiveUnlessUnlinked`), nothing runs again unless its record was lost, rotated out or written by an overlapping instance (`RepeatsOnlyIfForgotten`), what is due is started (`DueTasksAreStarted`) |
| `Memory` | a pack with one handler and the command line, two keys, the pair of both, one context fact allowed, one pruned at a time | relations are symmetric and lead to facts in every process and in the file (`RelationsHold`); when a reset is done, the context facts there are were set while it was at work, although any deletion may fail to be saved (`ResetForgets`); no handler deletes a fact of the user unless its key was a context fact when it was listed and has been set since (`UserFactsStay`) |
| `RepoMap` | two files, one with a version that does not parse, two builds at a time, an edit or removal, and a scan that fails or a restart; or one case of its algorithms, of the router, of pipeline definitions, schedules, package graphs and task lists | `MapIsHonest`: no recorded time is newer than the content that was parsed; a text is of the list it is kept with, its lines are no older than that, and where they are newer the recorded time will show it, in memory and in the cache file; `MapCatchesUp`: when edits stop, the map has every watched file as it is, or without it if it does not parse; `ViewsAreTrue`: the walk finds what git lists unless the name of the root is to be skipped, fields go to their symbol, comments hide declarations, the ranking does not depend on the order in which parsing ended, a second pass over the budget changes nothing, and no line beyond it is printed; the next run shown is the first after the last one, a history is the end of what there is, ids are found and free ones given, and a list that fits the section shows every active root task and its active children, each once unless a root task has the empty id; `AnswersAreTrue`: scores follow feedback, references find their steps, cycles and distances are right |
| `Work` | one of `/loop` with two commands, an agent with deadlines on either side of its end, a coordinated request of up to six tasks, a bulk call over eight directories with nested repositories, three MCP servers | `OneLoopTicks`: one loop at a time, and none after its `Stop`; `ResultsWin`: a result there before a poll is what the poll returns, and an agent is killed only by the poll that gives it up; `EachIsToldOnce`: each agent, command and server is told of once, as it ended; `WorkEnds`: a stop and a dispatch end, and so do a request, a bulk call and the start of the servers unless something they wait for, which has no time limit, never returns |
| `Stores` | one of the cache, `plan.md`, the search index, `schedules.yaml`, the handlers of ending turns and the conversation | `StoresAreWhole`: what is handed out, loaded and kept is whole, whatever calls, processes and crashes come in between, and a loaded agent has its property list unless launchctl failed or calls overlapped; `NothingElseIsDropped`: what is kept goes only for what is newer, or where a file or the conversation was changed under a call; `TurnsAreCounted`: one title, suggestions spaced unless their handlers overlapped, one warning |

A property with several parts is the conjunction of named ones, each stated in its module
with the lines it is about.

Every property of a passing run has an entry under `mutants`: a faulty version of
one definition with which TLC finds the property violated in the same run.

### Bounds

* `Calls` (2): an answer that goes astray needs a sender and a taker. The proofs
  drop this bound.
* `PipeCap` (2): the smallest capacity that holds a header and a body, so that both
  an empty and a full pipe are common.
* `Requests` (3), `Langs` (2), `Candidates` (1): one starter, one waiter for the same
  language and one for another, which is what a `Broadcast` to all may confuse.
  Each request makes one start, so a language is started again after a failure.
* `Ids` (3), `Sessions` (2): a chain of three is the shortest in which a cycle could
  form over a task between; symmetry exchanges `a` with `b` and the sessions. The
  proofs drop this bound.
* `Messages` (3), `Paths` (2), `DedupCap` (1): `m1` and `m2` carry one id, `m3` fills
  the memory of one so that `seen` is emptied between them, and may lie where `m1` lay. `TimesOf`:
  `m1`, often the first to arrive, has the newest file, and the two others have one time.
* The pipeline of `PipelineMC` has a step of every kind, `Iters` 3 over `Concurrency` 2.
* `MaxNow` (4 ticks, days of 2, weeks of 2 days): two days, one week, every hour of a
  schedule on both sides of midnight. The clock stops there; `DueTasksAreStarted` is not
  weakened by this since instances go on. `MaxForced` (1) instances of `/cron test`,
  `MaxMishaps` (1) kills or failed appends, `MaxLines` (1 instead of 1000).
* `Keys` (2), `Pairs` (the one pair), `MaxContext` and `PruneCount` (1 instead of 50 and 10),
  `MaxResults` (2): two facts, related or not, are what a deletion must clean up; two context
  facts exceed the limit, so that pruning and its end both happen. `Tool` covers any other
  handler of the pack, since it may set any key with any kind between two steps. The
  proofs drop these bounds.
* `RepoMap`: two files, so that one may go or fail to parse with another left, `Builders` (2), one
  edit after the start, `MaxMishaps` (1): a failed scan or a restart. An older build that ends
  last, a save over a save and a map from the cache all happen.
* `Work`: `MaxStarts` (3), `MaxTicks` (2), `MaxPolls` (6, with deadlines of 3, 9 and none),
  `Limit` (3, as in the code), requests of up to 6 tasks where 5 are allowed, scans of depth
  0 and 2 over a tree of depth 2, one tool per server.
* `Stores`: `Procs`, `PlanCallers`, `Processes` and `CronCallers` are the same two, which symmetry
  exchanges, as it does sessions and terms. `MaxEntries` (1 instead of 500) makes GC remove a
  file on the second key; `MaxSets` (2) and one crash let two writers meet in one temporary
  file; `Texts` (2) are the two steps a plan may have; `MaxDocs` (1) and `MaxLog` (1) make every second document push one out,
  but never truncate a session (`MaxTerms`); two tasks of one kind and one edit by hand;
  `Cooldown` (2), `MaxSeen` (1), a window of 10 with fills of 7 and 8 on both sides of the 75 per
  cent; `SomeTurns`: turns without a result, with one and with two; `TurnHandlers` (2): a clearer
  that is overtaken by the next turn; `MaxTurns` (3) and `MaxMessages` (6), of which
  `KeepRecent` (2) are kept and `ClearTurns` (2) not cleared: a compaction, another that finds
  the first summary, and a clearing that has something to spare; `MaxContextFacts` (5 instead of
  50) and `PruneCount` (3 instead of 10): a pruning that leaves the facts of a turn; `Paths`
  (2): a file each for two lists.
* The inputs in `RepoMapMC` (`RepoLists`, `RankedLists`, `Budgets`, `FileSets`, `FileLists`,
  `EntryLists`, `DeclLists`, `CountedLists`, `Caps`, `FilterKeys`, `LineLists`) and in `AnswerCases` are
  all combinations of a few values for each field, chosen on both sides of each condition in the
  code. The proofs drop the bounds of the first.

`CHECK_DEADLOCK FALSE` stands where the system really stops: calls that all have returned, a
pipeline that has ended, a clock that has reached its bound, a memory file with a line no
process can load, a call that has answered, a case that has been looked at.

### Fairness

* `LspTransport`: weak fairness of `readLoop` and of each call, since goroutines that can run
  do run, and strong fairness of taking `writeMu`, since a `sync.Mutex` in starvation mode
  hands over to the longest waiter. Nothing is assumed of the server or of contexts:
  `ServerFairness` is only the premise of `EveryCallReturns`, which fails without it, as a
  server that does not read blocks `send` for ever, whatever the context
  (`lsp/transport.go:139`).
* `LspManager`: weak fairness of each request; a handshake or a query ends because the
  transport returns or the context of the tool call ends.
* `Inbox`: weak fairness of the ticker's scan, once one runs, and strong fairness of the verdict
  on each envelope: any one reading of a file may fail, but not all of them for ever, unless
  there is no right to read it ("locked", for which nothing is claimed).
* `Pipeline`: weak fairness of the steps; a command ends by itself or at its timeout.
* `Cron`: weak fairness of `Open(Agent)`, as launchd starts an instance every 60 seconds,
  and of the steps of an instance that runs, as every task has a timeout.
* In both, that a command ends at its timeout is an assumption about what it starts: the
  context kills the shell only, and since no `WaitDelay` is set (`pipeline/shell.go:34-38`,
  `cron/executor.go:66-78`) `Wait` goes on until every process that has inherited the pipe of the
  output has closed it. A command that leaves a process behind in this way keeps the run, and
  with it the lock of the daemon, for as long as that process lives; the fairness assumes that
  none does.
* `RepoMap`: weak fairness of the steps of builds, of the check for staleness and of the start,
  which are goroutines; of time passing, since `Stale` asks nothing for 30 seconds; and of the
  end of turns, as `MapCatchesUp` is for a session that goes on.
* `Work`: weak fairness of the goroutines of the program and of polls. Nothing is assumed of what
  they wait for without a time limit: an agent of the coordinator (`coordinator/dispatch.go:35`
  passes no timeout), a command of a bulk call (`bulk/exec_helper.go:34-41`, a timeout but no
  `WaitDelay`), the `Close` of a server that failed to initialize (`mcp/client.go:59`), the
  answer of a server to `ListTools` (`mcp/manager.go:71`) and the agent of a dispatch. So
  `WorkEnds` says of the first three that the call ends or one of them never returns, of MCP that
  the asking begins, and of a dispatch that it ends by its deadline.
* `LoopScheduler` in `Work`: a select with a cancelled context and a due timer may take the
  timer, but not for ever (strong fairness of the way out).

## 5. Proofs

TLAPS checks, for every value of the constants that meets the named assumptions:

* `LspTransportProofs` (`TransportAssumption`, `NoCallAssumption`)
  * `TypeCorrect`: the types.
  * `PendingOwnership`: `pending` holds exactly the calls in flight. The invariant needs
    `IdsUnique`: two calls that have ids have different ones, none above `nextID`.
  * `AnswersMatch`, `ReaderNeverBlocks`: with `ServerIds = {}`. That a channel has room
    when `readLoop` sends to it means that there is never a second frame for a call, so
    the induction follows a request all the way: it is at one of the places "not yet
    written", "in `stdin`", "owed", "answered" and nowhere twice (`RequestOnce`), its
    answer is at one of "`stdout`", "held by `readLoop`", "in the channel", "returned"
    (`AnswerOnce`), and a call has an outcome exactly from its last step on (`EndedOnce`). `IInv`
    is the conjunction of these with the types. The assumption is not a
    convenience: with an id in `ServerIds` that a call uses the theorem is false, which is
    what `LspTransportDeath` shows.
  * `TransportRefines`: the initial states of the transport map to initial states of
    `RequestReply`, each step to a step or a stutter (`RefinesStep`, one case per action).
* `StoreProofs`, the task store (no assumption on the constants)
  * `StoreTyped`, `AlwaysForests`: `IInv` is the types and `Forests`. The lemmas beneath
    are about trees: `PartOfForest` (what is left when a set closed under children
    goes), `LeafKeepsForest` (a new task under an old one), `GraftKeepsForest` (a task
    moved under one that is not below it), `BelowClosed` and `AboveClosed` (what the two
    walks return). Acyclicity is stated as "no nonempty set in which everyone has its
    parent", so that no induction over data is needed. The theorem covers any
    number of sessions that overwrite one another's file, and failed flushes.
  * `TreesAreApart`: a step of a session changes a task and what is below it, or one task
    (`OperationOneTree`), and in a forest no root is below another task (`RootsAreApart`).
* `StoreProofs`, the modules of `StoresMC`, for each its own induction
  * `CacheKeeps`, `CacheTyped` (`CacheAssumption`: no entry looks like an absent or a half-written
    file): a file that has been renamed to its final name may be written to by the writer who
    opened it earlier, but only with the bytes of an entry of the same key, so what is read whole is an
    entry (`Contents`); the entry a Set left is there until another call of any process touches
    the key. `Ranked` is the order of the times of modification, over the files that exist.
  * `DocumentsFound`, `NewestKept`, `RecallTyped` (`RecallAssumption`): adding and evicting a document
    change the frequencies by what `Recount` would count, for an index that was whole before;
    an index that was encoded while another goroutine changed it is `torn`, and is passed on
    as such through the file. Evictions take the smallest stamp, which needs that no two
    documents have one stamp and that none is above `stamps`.
  * `PlanCoheres`, `PlanTyped` (`PlanAssumption`): the steps of a plan differ in their numbers, in
    the file, in every copy and in every call that has not saved yet; what a call adds gets a
    number above all (`NextID`), and what is read back is numbered by its places.
  * `NewestRemain`, `FilesListed`, `CompactionTyped` (`CompactionAssumption`: a pruning takes more than
    one fact and fewer than may be kept, 10 of 50 in the code). That the facts of a turn
    survive the pruning at its end needs that they are the newest: behind any of them are only
    others of the same turn and a summary (`NewerSet`), which by the pigeonhole are no more than the turn set
    (`FewBehind`), so with `latest` no larger than what a pruning leaves none of them is among
    the `PruneCount` first. A fact that is set again leaves its place and the order of the
    others (`SetFactFacts`). That the facts stay within their limit is for turns that bring
    fewer results than a pruning takes (`Limited`); without that condition the theorem would
    be false of the code as well (section 6).
  * `AgentRemovable`, `SchedulesKept`, `ExtensionTyped` (`CronExtensionAssumption`: neither an
    absent nor a broken file is a map of tasks): a call under which nothing was changed
    writes what it loaded but for the task it names (`CallsWrite`). An agent that is loaded
    without its property list comes of an unloading that failed or of calls that overlapped,
    and of nothing else.
  * `TurnsCounted` (`SessionAssumption`): the warning comes at the first turn that crosses the
    limit because the budget and the history of fills agree turn by turn (`Warns`); a handler
    that passed the cooldown and was not overtaken by another's suggestion finds it over.
  * `StoresTyped`, `WholeStores`, `OnlyOlderDropped`: the properties of the run. A behaviour of the
    composition is one of each module, since a step of one leaves the others alone
    (`EachRuns`), so the theorems of the parts carry over.
* `MemoryProofs` (`MemoryAssumption`)
  * `AlwaysTypeOK`, `AlwaysRelationsHold`, `SweepForgets`, `HandlersSpareUserFacts`: all four
    properties of the run, for any keys, processes and handlers. The last two need a
    strengthening, `Tracked`: what a handler has listed and not deleted yet is a context
    fact still, or gone, or set again since; and a sweep has listed every context fact
    there is, or has seen it set. What `With`, `Without` and `Linked` make of one map is
    settled first, by lemmas with no state in them (`WithChanges`, `WithoutChanges`,
    `LinkedChanges`); then one lemma, `KeepsIInv`, covers every step that changes the
    facts of a process, and another, `HandlerStepKeeps`, every step that only moves a
    handler on.

* `LspManagerProofs` (`ManagerAssumption`)
  * `ManagerTyped`, `SharingIsSound`: `IInv` adds to the parts of `ServersAreShared` that a
    server somebody has, or that is installed, was spawned by a call that is past its
    handshake and of the same language (`Ready`), and that a file is in `openFiles` before
    its `didOpen` and belongs to one call (`Opening`). `RightServer` is a consequence of
    `Ready`: it speaks of the handshake only, and a step of the spawner could end it.
  * `InstalledStays`: no step but `Shutdown` takes an installed client away.
* `InboxProofs` (`InboxAssumption`)
  * `InboxTyped`, `DeliverySound`: that a scan tries older files first is a statement about a
    listing that was read once and a directory that has moved on. The induction needs where
    every envelope lies and that the one in hand is next in line (`Placed`), and that what
    the listing found whole is in the listing under the time of its file, and whole, for as
    long as it lies there untried (`Listed`). That no id is handed over twice needs
    `Remembered`: what was sent is in `seen`, or is being recorded.
  * `AckedOnce`: the safety half of `EnvelopesAreSettled`.
* `CronProofs` (`CronAssumption`: the instances are finitely many)
  * `CronTyped`, `LockExcludes`: the lock excludes because every open file is the one at the
    path until a file is unlinked under its holder, and one flock of a file has one holder
    (`OneFile`). That `Open` finds a fresh inode is the pigeonhole lemma `FreeInode`.
  * `RepeatsForgotten`: a success whose `cause` is "none" is in the history as late as it
    happened, or with an instance that will write it (`Remembered`); without an overlap the
    agent that asks is alone past the lock, so nobody else has any, and what is due for the
    run in the history is due for the run there was (`DueEarlier`). `LastRun` chooses the
    last line of a success; that there is a last one is the lemma `Largest`, whose proof
    takes the smallest of the intervals above the members, by the well-foundedness of the
    strict subset order on finite sets, in place of an induction.
* `RepoMapProofs` (`RepoMapAssumption`)
  * `RepoMapTyped`, `MapHonest`: a map is honest when no stamp is later than what was read,
    its text is of what is ranked, and lines of the text that are newer than the ranking are
    newer than the stamp, too. It stays so because every build is honest while it is
    under way (`Builds`), since stamps are taken of files as they are or were (`Stamped`), and
    because what is on its way to the cache file was honest when it was copied (`Snapshots`).
  * `ViewsTrue` (`RepoCasesAssumption`: the inputs have their types, the files of a list differ in
    their paths, a filter's key is no operator; `CronViewsAssumption`: a day has a tick, a week a
    day): `ViewsAreTrue`, the conjunction of `ScansAreRanked`, `SchedulesAreTold` and
    `TasksAreFound`. The cases of the last two are a few schedules, histories and stores; the
    theorems they rest on are about any. That the walk stands in for git is stated for a root
    that is not to be skipped, and of the prompt section for any number of lines it may have.
  * The parts of `ScansAreRanked`, for every input instead of those the run enumerates. Each part is a theorem or a lemma of its own, about the
    operators: `RankingIsOrderFree`, `EdgesImport`, `BudgetsAreSteady`, `LinesKeepTheirBudget`,
    `WalkFinds`, `GoDeclarationsAreShown`, `FieldsAreOwned`, `InventoriesAreHonest`,
    `FiltersAreReadBack`, `DeclarationsAreReported`. They rest on two groups of lemmas. A sorted
    list is the places in the order of how many come before (`Ordered`), so what sorting
    promises is counting (`AheadGrows`, `OrderedLists`): a permutation of the files permutes the
    places and changes no count. What the code adds up in a loop, or follows from line to line, is
    a recursive function over `0 .. n`; that there is one (`StepByStep`), and that what holds of
    its start and is handed on holds all along (`Climb`), takes the well-foundedness of the
    strict subset order on finite sets in place of an induction. That a second pass over the
    budget changes nothing comes of a loop that starts with levels no lower than the first
    pass left (`Relevel`, `LevelsAreSteady`); that it is paid for, of a balance kept at each
    file (`Pays`).
  * `SchedulesTellTheTime`: days and weeks are of any length. The target of a day is the first
    time of the schedule from midnight on and a period after it comes the next
    (`TargetsOfDays`, `TargetsOfWeeks`), which is the arithmetic of remainders: of a division
    there is one quotient and one remainder (`DividesOnce`), so two days of one weekday are a
    week apart (`WeeksApart`) and the coming one is within a week (`ComingDay`).
    `NextIsFirst` and `DueTheFirstTime` are what follows for the two functions of the code.
  * `HistoryIsShown`, `TasksAreListed`: filtering keeps what is the task's, each entry at the
    place that counts those before it (`HistoryIsFiltered`, `FromThereOn`); a last success is
    the newest (`NewestSuccess`) since the history is in order.
  * `QueriesNameOneTask`: of one number more than there are tasks one gives a free id
    (`FreshIDIsFree`, the pigeonhole), and a set of one element is what `ResolveID` chooses from
    (`ResolvedIsOne`). `SummariesTellTheTasks`: a list by time of change has each task once
    (`NewestListsAll`), and so have lists of different tasks one after the other
    (`OnceJoined`) and tasks with what is below each (`UnfoldedOnce`). That times differ is an
    assumption (`Dated`), for which the stores of the run are made.
  * `FilesFindTheirPackage`: among finitely many directories that hold a path one is longest.
* `WorkProofs`, for each module its own induction
  * `OneLoop` (`LoopAssumption`): the newest loop is the one that ticks (`Newest`) and the older
    ones are past their last tick (`Older`); a Stop that has answered is of a loop that ended.
  * `ResultWins` (`SubagentAssumption`): types and `ResultsWin`, step by step. That a pane which
    was given up does not go on working is not among it, since killing it may fail.
  * `AgentsHeard` (`CoordinatorAssumption`, which says what the model may reply):
    `EveryAgentIsHeard`, which `EachIsToldOnce` contains. The induction needs that the group
    starts tasks in order and no more than its limit at a time (`Dispatched`), and what
    `PlanFacts` says of any reply: no more tasks than asked for, turns within the cap.
  * `ServersApart` (`McpAssumption`: the servers are finitely many): `ServersAreToldApart`, which
    `EachIsToldOnce` contains. Every server's goroutine answers once (`OneAnswerEach`), and
    all have answered when as many answers as servers were heard (`Counted`).
  * `BulkTold` (`BulkAssumption`: the directories are a finite tree, the arguments have their
    types): `BulkTellsWhatRan` and `ScansFindTheOutermost`. Every shell is of a job of its own and
    says how that job stands, and every job that was run has one (`ShellsStand`), so that the jobs
    an answer counts and the shells match one to one (`Matches`). That a scan misses no
    outermost match takes, above a directory that was not found, the shortest path the walk did
    not come to (`SomeSmallest`).
  * `WorkTyped`, `EachToldOnce`: the composition, where the invariants hold together and whoever
    does not run keeps his own (`WorkInductive`).
  * `PipelineTyped`, `RunsReported` (`PipelineAssumption`: a step is a place in the definition, in
    one stage and there once; the rest are types). `PipeIInv` says everything by stages: `Now` is
    the one the run has reached. What is active is of that stage (`ActiveHere`), no later
    step has ended (`LaterUnended`), and what is neither active nor ended is as it was at
    first (`Untouched`); this is `StagesInOrder`. That no more than `Concurrency` steps of a
    group are active needs the order it is begun in (`GroupBegun`), and that a main or finally
    step is alone in its stage. Report and status are right at every step, not only at the end:
    the entries are of the stages before `Now`, in order, as they ended
    (`EndedAreReported`, `ReportedHaveEnded`, `InOrderOnce`), and the status is "error" exactly
    when one of them failed and was not allowed to (`StatusSoFar`). A halt skips stages, so
    a step before `Now` need not have ended; only the finally steps are all attempted
    (`FinalsEnd`), with the attempts `Attempts` counts. `StaysOrReports` reduces the steps to
    those that leave the report alone and the three that extend it.

Each `IInv` was checked by TLC as an invariant of the run before it was proved.

Only model-checked:

* all liveness properties, and what rests on fairness or `ENABLED`, which TLAPS does not reach:
  `CallsAreAnswered`, `CallsEnd`, `EnvelopesAreSettled` but for its safety half, `Terminates`,
  `DueTasksAreStarted`, `MapCatchesUp`, `WorkEnds`;
* `AnswersAreTrue`, about the router, pipeline definitions and the package graph (of the last,
  `FilesFindTheirPackage` proves `FilesAreFound`). The depth-first search of `Depgraph` is a function
  that calls itself along any graph, so that what it computes would need induction over data;
  the runs of `PipelineData` are folds over functions that are extended by `@@`, which no backend
  translates.

## 6. What the runs found

Each is under `findings` with the lines on both sides.

1. `lsp/transport.go:185`: `readLoop` takes any frame with an integer id for an answer, also a
   request of the server. One that comes under the id of a call in flight is returned as
   data, or fills the channel so that the real answer blocks `readLoop` and nobody
   learns that the server died (`lsp/client.go:20`).
2. `lsp/client.go:32`: a server lives as long as the context of the first tool call, not
   for the session (`docs/extensions/lsp.md:19`), and the dead one stays installed.

Met while reading, and visible in the models where they have the state, but without a run of
their own:

* `pipeline/execute.go:42`: a halt stops the main steps but not the groups
  (`pipeline/defaults/prompt.md:32`).
* `cron/lock.go:46`: the lock file is removed after the unlock, so two instances may run
  together (`docs/extensions/cron.md:189`); `ExclusiveUnlessUnlinked` says exactly when.
* `cron/history.go:122`: a daily task runs again once more than 1000 later runs have
  pushed its success out of the history (`cron/schedules.go:39`);
  `RepeatsOnlyIfForgotten` allows this and nothing else.
* `lsp/manager.go:159`: `EnsureFileOpen` marks the file before it is read; when the read or the
  `didOpen` fails, later queries on it go out without one, against the comment at
  `manager.go:60`. `Manager.Shutdown` keeps `openFiles`.
* `tasklist/store_write.go:218`: `Move` skips an empty parent, so a subtask never becomes a
  root task, against `docs/extensions/tasklist.md:166` ("Pass empty string to unparent").
* `memory/store.go:212`: `load` reads with a `bufio.Scanner`, which refuses lines of 64 KiB
  and more, and `Set` writes them. After one such fact no new process can load the store
  of the project: the tools answer "memory store not available" and the command line
  ends with an error, until someone edits the file (`Loadable`, the guard of `Load`).
* `memory/clearer.go:118`: the clearer writes back the conversation it read two host calls earlier:
  messages that were added meanwhile are lost, and a compaction is undone; `NewestStay` claims
  the newest messages of a clearer that nothing overtook. `overflow.go:33`: a large output whose
  file cannot be written enters the conversation whole.
* `memory/extractor.go:138`: a pruning deletes 10 facts at most, and a turn may add more than
  that, so the cap of 50 (`docs/extensions/memory.md:202`) is not one.
* `memory/store.go:123`: `List` and `Related` return facts that share the arrays of their
  relations with the store, where `Delete` and `Relate` change them in place later.
* `tasklist/store.go:120`: `List` takes an empty parent for "root tasks", against the comment at
  `store.go:107` that an empty string means all, so a list without a filter shows no subtask.
* `tasklist/store.go:284`: after a failed flush the operation returns an error and memory
  keeps the change, which the next flush writes.
* `tasklist/register.go:23`: the prompt section is computed once, at the start
  (`docs/extensions/tasklist.md:18`).
* `pipeline/execute.go:84`: finally steps run under the context that has ended
  (`pipeline/defaults/prompt.md:31`), so their commands do not start; `execute.go:264`: a group
  hands its steps straight to `executeStep` and runs those whose predicate is false
  (`prompt.md:13`).
* `inbox/process.go:43`: envelopes are taken by modification time, which a rename into place does
  not renew, so one that arrives later may be delivered first
  (`docs/extensions/inbox.md:141`: "in the order they arrived").
* `inbox/process.go:74`: an envelope that does not parse is removed without an ack
  (`docs/extensions/inbox.md:87`); nothing calls `Scanner.Stop`, so the registry file stays
  (`inbox.md:133`).
* `cron/cron.go:137`: `RanAt` is the end of the batch, so a late run may count for the next slot.
* `repomap`: a quick build that hits its timeout and a background build that fails leave the flag
  that tools look at false, even if a rebuild succeeds later (`state.go`); a `Dirty` during
  a build is overwritten by its end (`repomap.go:97`), which only delays what `Stale` sees
  in the times; a file that is new, or that was absent at the stat, is not watched; when
  all source files are gone the old map stays. A file that does not parse is left out and not
  tried again until some file changes (`parse_dispatch.go:51`); lines are read when they are
  asked for and may be newer than the line numbers they are shown under
  (`render_lines.go:70`); a repository in a directory with one of the skipped names is scanned as
  empty without git (`scanner.go:198`). `SaveCache` encodes entries that formatting
  may change meanwhile (`cache.go:28`). The loop over the output of ctags goes on
  after a syntax error and may not end (`parser_ctags.go:102`). `BudgetFiles` gives back a
  summary it does not charge (`budget.go:66`).
* `plan`: step numbers are given anew by each load, so the answer to an `add_after` names the new
  step by a number that the next load gives to another; a text that ends like a commit in
  parentheses is read as one; two calls that overlap lose an update (`handlers.go:56`).
* `internal/xdg/yaml.go:54`: a `schedules.yaml` broken by an edit by hand is replaced by the
  defaults at the next load, with its tasks. `atomic.go:14`: all writers of a path share one
  temporary name, so that the promise of `atomic.go:9` holds for one writer at a time.
* `cron/tools.go`: overlapping `cron_add` and `cron_remove` lose updates; an empty name is
  accepted; the list hides tasks that do not parse and the status counts them; "exactly one
  field should be set" (`config.go:41`), but the first one wins. An uninstall that overlaps an
  install leaves an agent without its property list.
* `memory/register.go:150`: a summary that the model rewrote may lose the lists of files that
  the next compaction merges (`compact_helpers.go:76`).
* `subagent/dispatch.go:165`: the error of killing a pane is ignored, so an agent that was given up
  may go on working, and write its result where nobody looks.
* `coordinator/dispatch.go:35`, `mcp/client.go:59`: an agent without a timeout, and a `Close` that
  waits for a process that failed its handshake, may keep their calls for ever.
* `cron/commands.go:252`: an uninstall whose `launchctl` fails removes the property list of an agent
  that is still loaded, and says it is uninstalled.
* `suggest/register.go:36`: two turns that overlap may show two suggestions one after the other, with
  no cooldown between them.
* `subagent/dispatch.go`: an absolute timeout of zero or less ends the agent at the first
  poll, and the schema says it disables it (`register.go:25`); a caller who gives up
  leaves the agent running.
* `recall/index.go`: `Save` encodes maps after the unlock; processes overwrite each
  other's file; a skewed number of documents stays skewed.
* `route/intent.go:68`: the fourth rule of `Classify` is never reached; primary components beyond the
  limit are in no tier (`scorer.go:64`); ties follow the order of a map.
* `pipeline/step.go:54`: `{item}` is the empty string in a step that only loops; a main step
  named like a finally step hides it; `/pipe-new` looks only for `.yaml`.
* `bulk/filter.go:20`: filter commands have no timeout of their own; a context that ends
  during the filter drops items without a word.
* `mcp/manager.go:71`: a server that does not answer `ListTools` keeps the mutex, the start of
  the extension and `/mcp` waiting for ever.
* `depgraph/query.go:86`: "finds all circular dependencies", but the search finds some: each cycle it
  shows is one, and it shows one if there is any (`CyclesAreTold`).
* `tasklist/prompt.go:38`: a long section is cut; a root task with the empty id lists the root tasks
  as its children, twice in all (`store.go:146`).
* `cmd/depgraph/main.go:142`: the cache of the graph is keyed by `go.mod` alone, so changed
  imports are not seen.

## 7. Not modelled, and why

* Formatting, prompts, the text of results, the command lines' flags: data handling with no state.
* `safeguard`, `sift`, `rtk`, `session-tools`, `distill`, `eval` and the one-shot tools: each call
  reads files or asks the model or a command once and writes a text; nothing is kept between
  calls that another call could find half done.
* `provider` and `webfetch`: the formats and failures of services that are not in the
  repository; a stream is translated by one goroutine, providers are tried in turn, and the
  store of pages is a map under one mutex.
* `background`: the agent is the host's. `selfupdate`: one file that only the next check reads.
  `cmd/extest`: a host for tests by hand. `packs/*` only register extensions. The host and
  the `sdk` are seen through the contexts and concurrent calls they give to handlers.
* In `Memory`: values and times, and `Unrelate`, which only tests call. A write of the file is one
  step; what several writers of one temporary name do to each other is in `CacheFiles`.
* In `RepoMap`: file systems with coarse times, where an edit may keep the time of the last.
* In `Plan`: the texts of steps, notes, edits by hand, and the commit of a checkpoint, which git makes
  before the step is validated.
* In `Recall`: the ranking by frequencies; what is found is modelled, not its order.
* In `Pipeline`: a negative `retries` (`step.go:130`), which makes `lastErr` nil; the types of
  the model exclude it and `hazards` names it. `sleep` between retries does not look
  at the context and only delays.
* In `Cron`: a rotation that fails and a history that cannot be read, edits of
  `schedules.yaml` while an instance runs, and days of other than the usual length.
* In `Inbox`: statistics, and the notifications that follow a delivery.
* In `Route`: the registry, the words of a text and the hook.
