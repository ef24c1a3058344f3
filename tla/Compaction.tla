----------------------------- MODULE Compaction -----------------------------
(* What memory/ does to the conversation and to the facts of the session:   *)
(* large outputs are cut before they enter, each turn's results are kept as *)
(* facts and pruned, old results are cleared, and compaction replaces all   *)
(* but the newest messages by a summary that lists the files touched so far *)
(* and by the facts that matter most.  A text is its size class and the     *)
(* file lists it carries.                                                   *)
EXTENDS Naturals, Sequences, FiniteSets, SequencesExt, FiniteSetsExt

CONSTANTS Paths,           \* files the agent touches
          KeepRecent,      \* keep_recent
          ClearTurns,      \* clear_turns
          MaxContextFacts, PruneCount,
          SkipLLM,         \* skip_llm_threshold, in size classes
          TurnResults,     \* the tool results that one turn may bring
          TurnHandlers,    \* bound: turns whose handlers are under way
          MaxTurns,        \* bound: turns
          MaxMessages      \* bound: messages of the conversation

NoPath == "none"
\* What a result names makes a key; how it ended counts for commands.
\* Sizes: 1 fits everywhere, 2 is truncated by a compaction, 3 is cleared
\* when old, 4 overflows to a file.
ToolResults == [tool : {"Read", "Edit", "Bash", "other"}, file : Paths \cup {NoPath},
                failed : BOOLEAN, size : 1 .. 4]

ASSUME CompactionAssumption ==
  /\ {KeepRecent, ClearTurns, MaxContextFacts, PruneCount, SkipLLM, MaxTurns, MaxMessages} \subseteq Nat
  /\ 1 < PruneCount /\ PruneCount < MaxContextFacts   \* 10 and 50 in the code
  /\ TurnResults \subseteq Seq(ToolResults)

VARIABLES msgs,     \* the conversation
          facts,    \* context facts, least recently updated first
          turn,     \* turnNum of the extractor
          handler,  \* where the handlers of a turn's end are
          latest,   \* history: the facts set since the last turn's end
          modelAsked   \* history: the last compaction took the text of the model

mvars == <<msgs, facts, turn, handler, latest, modelAsked>>

Lists(read, mod) == [read |-> read, mod |-> mod]
NoLists == Lists({}, {})
Message(type, size, lists) == [type |-> type, size |-> size, lists |-> lists]
\* A fact is its key: the kind and the file, or the turn.
Fact(kind, file, n) == [kind |-> kind, file |-> file, at |-> n]
NoFact == Fact("none", NoPath, 0)
\* Results that the extractor has yet to take, the conversation that the clearer has read.
Handler(at, left, read) == [at |-> at, left |-> left, read |-> read]
Idle == Handler("idle", <<>>, <<>>)

CompactionInit ==
  /\ msgs = <<>>
  /\ facts = <<>>
  /\ turn = 0
  /\ handler = [c \in TurnHandlers |-> Idle]
  /\ latest = {}
  /\ modelAsked = FALSE

(***************************************************************************)
(* overflow.go, extractor.go: the results of a turn join the conversation  *)
(* and become facts, one after the other.                                  *)
(***************************************************************************)
\* A large output is cut, unless its file cannot be written.
Overflow(size) == IF size = 4 THEN {2, 4} ELSE {size}

Extracting(c) == handler[c].at = "extract"

TurnEnd(c) ==
  /\ handler[c].at = "idle" /\ \A d \in TurnHandlers : ~Extracting(d)
  /\ turn < MaxTurns
  /\ \E rs \in TurnResults : \E size \in [DOMAIN rs -> 1 .. 4] :
       /\ Len(msgs) + 1 + Len(rs) <= MaxMessages
       /\ \A i \in DOMAIN rs : size[i] \in Overflow(rs[i].size)
       /\ msgs' = Append(msgs, Message("assistant", 1, NoLists))
                    \o [i \in DOMAIN rs |-> Message("tool_result", size[i], NoLists)]
       /\ handler' = [handler EXCEPT ![c] = Handler("extract", rs, <<>>)]
  /\ turn' = turn + 1
  /\ latest' = {}
  /\ UNCHANGED <<facts, modelAsked>>

\* Faulty: a fact set again is there twice.
SetFactTwice(fs, f) == Append(fs, f)
\* Store.Set: a fact set again leaves its place and counts as the newest.
PlaceOf(fs, f) == SelectInSeq(fs, LAMBDA g : g = f)
SetFact(fs, f) == Append(IF PlaceOf(fs, f) = 0 THEN fs ELSE RemoveAt(fs, PlaceOf(fs, f)), f)

\* A result that names no file, or has no text, leaves no fact; a command always does.
ExtractedFact(r, n) ==
  CASE r.tool = "Read" /\ r.file # NoPath -> Fact("file", r.file, 0)
    [] r.tool = "Edit" /\ r.file # NoPath -> Fact("edit", r.file, 0)
    [] r.tool = "Bash" -> Fact(IF r.failed THEN "error" ELSE "cmd", NoPath, n)
    [] r.tool = "other" /\ r.file # NoPath -> Fact("tool", NoPath, n)
    [] OTHER -> NoFact

\* The next result; a Set that fails leaves the facts as they are.
ExtractToolResult(c) ==
  /\ Extracting(c) /\ handler[c].left # <<>>
  /\ LET f == ExtractedFact(Head(handler[c].left), turn)
     IN  \/ f # NoFact /\ facts' = SetFact(facts, f) /\ latest' = latest \cup {f}
         \/ UNCHANGED <<facts, latest>>
  /\ handler' = [handler EXCEPT ![c].left = Tail(@)]
  /\ UNCHANGED <<msgs, turn, modelAsked>>

Prune(fs) == IF Len(fs) <= MaxContextFacts THEN fs ELSE SubSeq(fs, PruneCount + 1, Len(fs))

\* After the last one; the clearer has the lower priority.
PruneIfNeeded(c) ==
  /\ Extracting(c) /\ handler[c].left = <<>>
  /\ facts' = Prune(facts)
  /\ handler' = [handler EXCEPT ![c] = Handler("clear", <<>>, <<>>)]
  /\ UNCHANGED <<msgs, turn, latest, modelAsked>>

(***************************************************************************)
(* clearer.go: the conversation is read from the host and written back.    *)
(***************************************************************************)
ClearOldToolResults(ms) ==
  [i \in DOMAIN ms |-> IF i <= Len(ms) - ClearTurns /\ ms[i].type = "tool_result" /\ ms[i].size > 2
                       THEN [ms[i] EXCEPT !.size = 1] ELSE ms[i]]
Cleared(ms) == IF Len(ms) <= ClearTurns + 1 THEN ms ELSE ClearOldToolResults(ms)

\* The read may fail, and there may be nothing to clear.
ClearerReads(c) ==
  /\ handler[c].at = "clear"
  /\ \E next \in {Idle} \cup (IF Cleared(msgs) = msgs THEN {} ELSE {Handler("write", <<>>, msgs)}) :
       handler' = [handler EXCEPT ![c] = next]
  /\ UNCHANGED <<msgs, facts, turn, latest, modelAsked>>

\* What came in between is overwritten; the write may fail.
ClearerWrites(c) ==
  /\ handler[c].at = "write"
  /\ msgs' \in {msgs, Cleared(handler[c].read)}
  /\ handler' = [handler EXCEPT ![c] = Idle]
  /\ UNCHANGED <<facts, turn, latest, modelAsked>>

\* EventAgentStart forgets the facts, not the conversation.
ContextReset ==
  /\ facts # <<>>
  /\ facts' = <<>> /\ latest' = {}
  /\ UNCHANGED <<msgs, turn, handler, modelAsked>>

(***************************************************************************)
(* compactor.go, compact_helpers.go: the summary.                          *)
(***************************************************************************)
PathsOf(kind) == {facts[i].file : i \in {j \in DOMAIN facts : facts[j].kind = kind}}

\* Files read and edited; an older summary is not summed up again.
BuildFactSummary == [lists |-> Lists(PathsOf("file"), PathsOf("edit")),
                     empty |-> \A i \in DOMAIN facts : facts[i].kind = "summary"]

Named(ms) == Lists(UNION {ms[i].lists.read : i \in DOMAIN ms}, UNION {ms[i].lists.mod : i \in DOMAIN ms})
ExtractPriorFileLists(ms) == Named(ms)

\* Faulty: the lists of the new facts replace the older ones.
MergeReplaces(summary, prior) == summary
MergeFileLists(summary, prior) ==
  IF prior = NoLists THEN summary
  ELSE [lists |-> Lists(summary.lists.read \cup prior.read, summary.lists.mod \cup prior.mod), empty |-> FALSE]

TruncateToolResults(ms) ==
  [i \in DOMAIN ms |-> IF i <= Len(ms) - KeepRecent /\ ms[i].type = "tool_result" /\ ms[i].size > 1
                       THEN [ms[i] EXCEPT !.size = 1] ELSE ms[i]]
EstimateTokens(ms) == FoldSeq(LAMBDA m, n : n + m.size, 0, ms)

(***************************************************************************)
(* reinject.go: up to three edits, a plan and an error, newest first.      *)
(***************************************************************************)
FilterFacts(fs, kind) == Reverse(SelectSeq(fs, LAMBDA f : f.kind = kind))
AppendItems(items, fs, max) ==
  items \o SubSeq(fs, 1, Min({max, Len(fs), 5 - Len(items)}))
GatherCriticalContext(fs) ==
  AppendItems(AppendItems(AppendItems(<<>>, FilterFacts(fs, "edit"), 3), FilterFacts(fs, "plan"), 1),
              FilterFacts(fs, "error"), 1)

(***************************************************************************)
(* register.go: the compaction handler. What the model makes of the        *)
(* summary may keep the lists or lose them.                                *)
(***************************************************************************)
Compact ==
  /\ Len(msgs) > KeepRecent + 1
  /\ LET cut     == TruncateToolResults(msgs)
         summary == MergeFileLists(BuildFactSummary, ExtractPriorFileLists(cut))
         chat    == ~summary.empty /\ EstimateTokens(cut) >= SkipLLM
     IN  \E refined \in IF chat THEN {FALSE, TRUE} ELSE {FALSE} :
           LET lists  == IF refined THEN NoLists ELSE summary.lists
               facts1 == IF summary.empty THEN facts ELSE SetFact(facts, Fact("summary", NoPath, 0))
               items  == GatherCriticalContext(facts1)
           IN  /\ modelAsked' = refined
               /\ facts' = facts1
               /\ msgs' = <<Message("user", 1, lists)>>
                            \o (IF items = <<>> THEN <<>> ELSE <<Message("user", 1, NoLists)>>)
                            \o SubSeq(cut, Len(cut) - KeepRecent + 1, Len(cut))
  /\ UNCHANGED <<turn, handler, latest>>

CompactionNext ==
  \/ \E c \in TurnHandlers :
       \/ TurnEnd(c) \/ ExtractToolResult(c) \/ PruneIfNeeded(c)
       \/ ClearerReads(c) \/ ClearerWrites(c)
  \/ ContextReset \/ Compact
CompactionSpec == CompactionInit /\ [][CompactionNext]_mvars
-----------------------------------------------------------------------------
(* Kinds of the variables; one fact per key, and no more of them than the  *)
(* limit and a summary, once pruned, where turns bring few results.        *)
CompactionTypeOK ==
  /\ \A i \in DOMAIN msgs : msgs[i].type \in {"user", "assistant", "tool_result"} /\ msgs[i].size \in 1 .. 4
  /\ \A i, j \in DOMAIN facts : i # j => facts[i] # facts[j]
  /\ (\A rs \in TurnResults : Len(rs) < PruneCount) /\ (\A c \in TurnHandlers : ~Extracting(c)) =>
       Len(facts) <= MaxContextFacts + 1

Newest(ms, n) == SubSeq(ms, Len(ms) - n + 1, Len(ms))
Wrote(c) == handler[c].at = "write" /\ handler'[c].at = "idle"
Compacted == msgs' # msgs /\ turn' = turn /\ handler' = handler

(* The newest messages go through a compaction untouched (register.go:167); *)
(* a clearer that nothing overtook between its reading and its writing      *)
(* neither drops a message nor touches the newest (clearer.go:69-112); and  *)
(* pruning takes no fact of the turn that it ends, where the turn set no    *)
(* more than a pruning leaves (extractor.go:131).                           *)
NewestStay ==
  [][/\ Compacted => Newest(msgs', KeepRecent) = Newest(msgs, KeepRecent)
     /\ \A c \in TurnHandlers : Wrote(c) /\ handler[c].read = msgs =>
          Len(msgs') = Len(msgs) /\ Newest(msgs', ClearTurns) = Newest(msgs, ClearTurns)
     /\ latest # {} /\ latest' = latest /\ Cardinality(latest) <= MaxContextFacts - PruneCount =>
          latest \subseteq ToSet(facts')]_mvars

(* compact_helpers.go:72: the files that earlier compactions listed and the *)
(* files of the facts are listed by the next summary, unless the model that *)
(* rewrote it left them out.                                                *)
FilesStayListed ==
  [][Compacted /\ ~modelAsked' =>
       /\ Named(msgs).read \cup PathsOf("file") \subseteq Named(msgs').read
       /\ Named(msgs).mod \cup PathsOf("edit") \subseteq Named(msgs').mod]_mvars
=============================================================================
