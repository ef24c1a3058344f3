------------------------------ MODULE RepoMap ------------------------------
(* The repository map of repomap/: one Map per process, rebuilt by          *)
(* goroutines that scan, stat, parse and then publish under the lock, read  *)
(* through lazily formatted outputs, marked dirty by the turn_end handler,  *)
(* and saved in a cache file that the next process loads.                   *)
(* A file's content is its version, and its mtime is the version too: 0     *)
(* stands for a file (or a ranked entry, or a recorded mtime) that is not   *)
(* there.                                                                   *)
EXTENDS Naturals, FiniteSets

CONSTANTS Files,        \* source files of the repository
          Tracked,      \* those that exist when the program is first started
          Unparsable,   \* the versions, each with its file, that do not parse: a Go file with a
                        \* syntax error, or one there is no right to read
          Builders,     \* bound: builds in progress at one time
          MaxEdits,     \* bound: writes and removals of files
          MaxMishaps,   \* bound: scans that hit their timeout and exits of the process
          NoText,       \* an output that has not been formatted
          NoFile,       \* no cache file
          Corrupt       \* a cache file that does not unmarshal

ASSUME RepoMapAssumption ==
  /\ Tracked \subseteq Files /\ Unparsable \subseteq Files \X Nat
  /\ {MaxEdits, MaxMishaps} \subseteq Nat
  /\ NoText \notin [of : [Files -> Nat], lines : [Files -> Nat]]

VARIABLES disk,      \* version of each file
          edits,     \* edits so far: the clock of versions
          rm,        \* the Map: ranked, builtAt, mtimes and the lazy outputs
          built,     \* repomapState.built
          main,      \* where OnInit stands
          check,     \* who is about to call Stale: OnInit's goroutine, turn_end
          build,     \* the builds in progress
          cacheFile, \* repomap-<root>.json
          mishaps    \* failed scans and exits so far

vars == <<disk, edits, rm, built, main, check, build, cacheFile, mishaps>>

Versions == 0 .. MaxEdits + 1
Absent   == [f \in Files |-> 0]
NewMap   == [ranked |-> Absent, builtAt |-> "zero", mtimes |-> Absent,
             text |-> NoText]
NoBuild  == [at |-> "idle", why |-> "none", files |-> {}, todo |-> {}, mtimes |-> Absent,
             parsed |-> Absent, snap |-> NoFile, clash |-> FALSE]

Init ==
  /\ disk = [f \in Files |-> IF f \in Tracked THEN 1 ELSE 0]
  /\ edits = 0
  /\ rm = NewMap
  /\ built = FALSE
  /\ main = "start"
  /\ check = {}
  /\ build = [b \in Builders |-> NoBuild]
  /\ cacheFile = NoFile
  /\ mishaps = 0

(***************************************************************************)
(* The files change under the program: the agent's tools and the user.     *)
(***************************************************************************)
Edit(f) ==
  /\ edits < MaxEdits
  /\ edits' = edits + 1
  /\ \E v \in {edits + 2} \cup (IF disk[f] = 0 THEN {} ELSE {0}) :
       disk' = [disk EXCEPT ![f] = v]
  /\ UNCHANGED <<rm, built, main, check, build, cacheFile, mishaps>>

Existing == {f \in Files : disk[f] # 0}

(***************************************************************************)
(* Build.  A context that expires is seen by the scan only: the parsers    *)
(* of a build that got past it run to their end.                           *)
(***************************************************************************)
Set(b, r) == build' = [build EXCEPT ![b] = r]
Begun(why) == [NoBuild EXCEPT !.at = "scan", !.why = why]

\* Builds differ in nothing but their slots, so that any free one will do.
Free(b) == build[b].at = "idle" /\ b = CHOOSE o \in Builders : build[o].at = "idle"

ListSources(b) ==
  /\ build[b].at = "scan"
  /\ Existing # {}
  /\ Set(b, [build[b] EXCEPT !.at = "stat", !.files = Existing, !.todo = Existing])
  /\ UNCHANGED <<disk, edits, rm, built, main, check, cacheFile, mishaps>>

\* No file: ErrNotCodeProject, and whatever the map held stays.
NotCodeProject(b) ==
  /\ build[b].at = "scan"
  /\ Existing = {}
  /\ Set(b, NoBuild)
  /\ main' = IF build[b].why = "quick" THEN "ready" ELSE main
  /\ UNCHANGED <<disk, edits, rm, built, check, cacheFile, mishaps>>

\* The quick build of OnInit goes on in the background; others are logged.
\* Faulty: the background scan counts as the quick one.
ScanFailsTwice(b) ==
  /\ build[b].at = "scan"
  /\ mishaps < MaxMishaps
  /\ mishaps' = mishaps + 1
  /\ main' = "ready"
  /\ Set(b, Begun(IF build[b].why = "quick" THEN "quick" ELSE "background"))
  /\ UNCHANGED <<disk, edits, rm, built, check, cacheFile>>
ScanFails(b) ==
  /\ build[b].at = "scan"
  /\ mishaps < MaxMishaps
  /\ mishaps' = mishaps + 1
  /\ IF build[b].why = "quick"
     THEN main' = "ready" /\ Set(b, Begun("background"))
     ELSE UNCHANGED main /\ Set(b, NoBuild)
  /\ UNCHANGED <<disk, edits, rm, built, check, cacheFile>>

\* One file after the other, in the order of the scan. One gone since then records no mtime.
StatFile(b, f) ==
  /\ build[b].at = "stat"
  /\ f = CHOOSE g \in build[b].todo : TRUE
  /\ LET last == build[b].todo = {f} IN
     Set(b, [build[b] EXCEPT !.mtimes[f] = disk[f],
                             !.at   = IF last THEN "parse" ELSE "stat",
                             !.todo = IF last THEN build[b].files ELSE @ \ {f}])
  /\ UNCHANGED <<disk, edits, rm, built, main, check, cacheFile, mishaps>>

\* The contents are read after every stat. A file that does not parse is left out, and its
\* stamp stays: it is not tried again before some file changes.
Parsed(f) == IF <<f, disk[f]>> \in Unparsable THEN 0 ELSE disk[f]
ParseFile(b, f) ==
  /\ build[b].at = "parse"
  /\ f \in build[b].todo
  /\ Set(b, [build[b] EXCEPT !.parsed[f] = Parsed(f), !.todo = @ \ {f},
                             !.at = IF build[b].todo = {f} THEN "publish" ELSE "parse"])
  /\ UNCHANGED <<disk, edits, rm, built, main, check, cacheFile, mishaps>>

\* Faulty: the mtimes are taken when the build ends.
PublishedStatsLast(b) ==
  [ranked |-> build[b].parsed, builtAt |-> "fresh", mtimes |-> disk,
   text |-> NoText]
Published(b) ==
  [ranked |-> build[b].parsed, builtAt |-> "fresh", mtimes |-> build[b].mtimes,
   text |-> NoText]

\* What a build still holds once its map is published: who waits for it.
After(b, at) == [NoBuild EXCEPT !.at = at, !.why = build[b].why]

\* And once it is saved: nobody, if it is the rebuild after a turn.
AfterSave(b) == IF build[b].why = "rebuild" THEN NoBuild ELSE After(b, "done")

Publish(b) ==
  /\ build[b].at = "publish"
  /\ rm' = Published(b)
  /\ Set(b, After(b, "save"))
  /\ UNCHANGED <<disk, edits, built, main, check, cacheFile, mishaps>>

(***************************************************************************)
(* Lazy outputs: the texts are each formatted when first asked for and     *)
(* dropped together. All of them show the ranked list; the one of source   *)
(* lines reads every file shown once more for its lines, and that is the   *)
(* one modelled: the list it is of, and the contents it was made from.     *)
(***************************************************************************)
LinesFrom(ranked) == [f \in Files |-> IF ranked[f] # 0 THEN disk[f] ELSE 0]
WithText(m) ==
  IF m.text = NoText THEN [m EXCEPT !.text = [of |-> m.ranked, lines |-> LinesFrom(m.ranked)]] ELSE m

(***************************************************************************)
(* SaveCache: a snapshot under the lock, then <path>.tmp and a rename. Two *)
(* saves share the temporary file: once they have overlapped, a rename may *)
(* move half-written bytes, a mixture of both, or find nothing to move.    *)
(***************************************************************************)
Nothing(m) == m.builtAt = "zero" \/ m.ranked = Absent
Writing == {b \in Builders : build[b].at = "write"}

\* How old the entry is shows when it is loaded.
Entry(m) == [m EXCEPT !.builtAt = IF m.builtAt = "zero" THEN "zero" ELSE "fresh"]

SnapCache(b) ==
  /\ build[b].at = "save"
  /\ IF Nothing(rm)
     THEN Set(b, AfterSave(b)) /\ UNCHANGED rm
     ELSE /\ rm' = WithText(rm)
          /\ build' = [o \in Builders |->
               CASE o = b -> [build[b] EXCEPT !.at = "write", !.clash = (Writing # {}),
                                !.snap = Entry(WithText(rm))]
                 [] o \in Writing -> [build[o] EXCEPT !.clash = TRUE]
                 [] OTHER -> build[o]]
  /\ UNCHANGED <<disk, edits, built, main, check, cacheFile, mishaps>>

RenameCache(b) ==
  /\ build[b].at = "write"
  /\ cacheFile' \in {build[b].snap} \cup
       (IF build[b].clash THEN {Corrupt, cacheFile} ELSE {})
  /\ Set(b, AfterSave(b))
  /\ UNCHANGED <<disk, edits, rm, built, main, check, mishaps>>

\* OnInit, the background scan and the tool that refreshes go on: they record that
\* the map is built and read its lines.
Finish(b) ==
  /\ build[b].at = "done"
  /\ built' = TRUE
  /\ rm' = WithText(rm)
  /\ main' = IF build[b].why = "quick" THEN "ready" ELSE main
  /\ Set(b, NoBuild)
  /\ UNCHANGED <<disk, edits, check, cacheFile, mishaps>>

(***************************************************************************)
(* OnInit.                                                                 *)
(***************************************************************************)
\* LoadCache takes the file if it unmarshals; it was built at any time before.
Loaded(entry, age) ==
  [ranked |-> entry.ranked, builtAt |-> age, mtimes |-> entry.mtimes,
   text |-> entry.text]

StartFromCache ==
  /\ main = "start"
  /\ cacheFile \notin {NoFile, Corrupt}
  /\ rm' \in {Loaded(cacheFile, age) : age \in {cacheFile.builtAt, "aged"}}
  /\ built' = TRUE
  /\ main' = "ready"
  /\ check' = {"init"}
  /\ UNCHANGED <<disk, edits, build, cacheFile, mishaps>>

StartCold ==
  /\ main = "start"
  /\ cacheFile \in {NoFile, Corrupt}
  /\ main' = "building"
  /\ \E b \in Builders : Free(b) /\ Set(b, Begun("quick"))
  /\ UNCHANGED <<disk, edits, rm, built, check, cacheFile, mishaps>>

Exit ==
  /\ main = "ready"
  /\ mishaps < MaxMishaps
  /\ mishaps' = mishaps + 1
  /\ rm' = NewMap
  /\ built' = FALSE
  /\ main' = "start"
  /\ check' = {}
  /\ build' = [b \in Builders |-> NoBuild]
  /\ UNCHANGED <<disk, edits, cacheFile>>

(***************************************************************************)
(* The turn_end handler, Stale, and the tools.                             *)
(***************************************************************************)
\* Dirty forgets when the map was built.
Dirty(m) == [m EXCEPT !.builtAt = "zero"]

\* Tools run within a turn, so none runs while the handler does.
Refreshing == \E b \in Builders : build[b].why = "refresh"

TurnEnd(modified) ==
  /\ main = "ready"
  /\ "turn" \notin check
  /\ ~Refreshing
  /\ rm' = IF modified THEN Dirty(rm) ELSE rm
  /\ check' = check \cup {"turn"}
  /\ UNCHANGED <<disk, edits, built, build, main, cacheFile, mishaps>>

\* Stale copies builtAt and the mtimes under the lock and stats the files
\* after; a change in between is one more file found newer.
\* Faulty: only a file that is gone counts.
StaleIfGone(m) ==
  \/ m.builtAt = "zero"
  \/ m.builtAt = "aged" /\ \E f \in Files : m.mtimes[f] # 0 /\ disk[f] = 0
Stale(m) ==
  \/ m.builtAt = "zero"
  \/ /\ m.builtAt = "aged"
     /\ \E f \in Files : m.mtimes[f] # 0 /\ (disk[f] = 0 \/ disk[f] > m.mtimes[f])

Fresh(c) ==
  /\ c \in check
  /\ ~Stale(rm)
  /\ check' = check \ {c}
  /\ UNCHANGED <<disk, edits, rm, built, main, build, cacheFile, mishaps>>

Rebuild(c) ==
  /\ c \in check
  /\ Stale(rm)
  /\ check' = check \ {c}
  /\ \E b \in Builders : Free(b) /\ Set(b, Begun("rebuild"))
  /\ UNCHANGED <<disk, edits, rm, built, main, cacheFile, mishaps>>

\* Thirty seconds pass since the build.
Age ==
  /\ rm.builtAt = "fresh"
  /\ rm' = [rm EXCEPT !.builtAt = "aged"]
  /\ UNCHANGED <<disk, edits, built, main, check, build, cacheFile, mishaps>>

Refresh ==
  /\ main = "ready"
  /\ "turn" \notin check
  /\ ~Refreshing
  /\ \E b \in Builders : Free(b) /\ Set(b, Begun("refresh"))
  /\ UNCHANGED <<disk, edits, rm, built, main, check, cacheFile, mishaps>>

Show ==
  /\ main = "ready"
  /\ "turn" \notin check
  /\ ~Refreshing
  /\ rm' = WithText(rm)
  /\ UNCHANGED <<disk, edits, built, main, check, build, cacheFile, mishaps>>

BuildStep(b) ==
  \/ ListSources(b) \/ NotCodeProject(b)
  \/ \E f \in Files : StatFile(b, f) \/ ParseFile(b, f)
  \/ Publish(b) \/ SnapCache(b) \/ RenameCache(b) \/ Finish(b)

Start == StartFromCache \/ StartCold
CheckStep(c) == Fresh(c) \/ Rebuild(c)

Next ==
  \/ \E f \in Files : Edit(f)
  \/ \E b \in Builders : BuildStep(b) \/ ScanFails(b)
  \/ Start \/ Exit \/ Age \/ Refresh \/ Show
  \/ \E modified \in BOOLEAN : TurnEnd(modified)
  \/ \E c \in {"init", "turn"} : CheckStep(c)

\* Goroutines run, time passes, and turns end as long as the session lasts.
Fairness ==
  /\ \A b \in Builders : WF_vars(BuildStep(b))
  /\ \A c \in {"init", "turn"} : WF_vars(CheckStep(c))
  /\ WF_vars(Start) /\ WF_vars(Age) /\ WF_vars(TurnEnd(FALSE))

Spec == Init /\ [][Next]_vars /\ Fairness

-----------------------------------------------------------------------------
BuildAts == {"idle", "scan", "stat", "parse", "publish", "save", "write", "done"}
Ages == {"zero", "fresh", "aged"}
OnDisk == IF cacheFile \in {NoFile, Corrupt} THEN {} ELSE {cacheFile}

(* The variables keep their kinds, and OnInit builds in exactly one slot.   *)
RepoMapTypeOK ==
  /\ disk \in [Files -> Versions] /\ edits \in 0 .. MaxEdits
  /\ \A m \in {rm} \cup OnDisk :
       /\ m.ranked \in [Files -> Versions] /\ m.mtimes \in [Files -> Versions]
       /\ m.builtAt \in Ages
  /\ built \in BOOLEAN /\ main \in {"start", "building", "ready"}
  /\ check \subseteq {"init", "turn"}
  /\ \A b \in Builders :
       /\ build[b].at \in BuildAts
       /\ build[b].at # "idle" => build[b].why \in {"quick", "background", "rebuild", "refresh"}
  /\ main = "building" <=> Cardinality({b \in Builders : build[b].why = "quick"}) = 1

(* A change can be overtaken but not hidden: no mtime that Stale will       *)
(* compare with, in memory, in a build or in the cache file, is newer than  *)
(* the content that was parsed, whichever build published last              *)
(* (parse_dispatch.go:19 stats before anything is read).                    *)
ChangesStayVisible ==
  /\ \A m \in {rm} \cup OnDisk :
       \A f \in Files : m.ranked[f] # 0 => m.mtimes[f] <= m.ranked[f]
  /\ \A b \in Builders : build[b].at = "publish" =>
       \A f \in Files : build[b].parsed[f] # 0 => build[b].mtimes[f] <= build[b].parsed[f]

(* A text that is shown, and one that is saved, is of the ranked list it is *)
(* kept with. Its source lines are read again when it is formatted: they    *)
(* are never older than what was parsed, and may be newer or gone under     *)
(* line numbers of before, but then the stamp is older too, so that Stale   *)
(* can tell. A saved map is never empty and never one that was marked dirty *)
(* (repomap.go:99, render_lines.go:70, cache.go:28).                        *)
TextsAreCurrent ==
  /\ \A m \in {rm} \cup OnDisk : m.text # NoText =>
       /\ m.text.of = m.ranked
       /\ \A f \in Files : LET line == m.text.lines[f] IN
            line # 0 => m.ranked[f] \in 1 .. line /\ (line # m.ranked[f] => m.mtimes[f] < line)
  /\ \A m \in OnDisk : ~Nothing(m) /\ m.text # NoText

(* What is kept of the repository tells what it was made from: stamps of    *)
(* what was parsed, texts of what is ranked and of lines that are no older, *)
(* in memory and in the cache file, though builds, saves and edits overlap  *)
(* (repomap.go:97, cache.go:28).                                            *)
MapIsHonest == ChangesStayVisible /\ TextsAreCurrent

(* When edits stop, the map catches up with every file it watches, whatever *)
(* the order in which builds finished, as long as a source file is left:    *)
(* the file is still there, and is ranked and shown with the lines it has   *)
(* on disk or, as it does not parse, not at all                             *)
(* (state.go:159, repomap.go:179, parse_dispatch.go:52).                    *)
CaughtUp(f) ==
  /\ disk[f] # 0
  /\ rm.ranked[f] = Parsed(f)
  /\ rm.text # NoText => rm.text.lines[f] = rm.ranked[f]
MapCatchesUp ==
  <>[](Existing # {} => \A f \in Files : rm.mtimes[f] # 0 => CaughtUp(f))
=============================================================================
