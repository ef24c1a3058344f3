---------------------------- MODULE RepoMapProofs ----------------------------
(* Proofs about RepoMap, for any files, slots for builds and bounds.  What  *)
(* is honest about the map in memory has to be honest already in every      *)
(* build (Builds) and in every snapshot on its way to the cache file        *)
(* (Snapshots); what the parsers read is never older than the stamps that   *)
(* were taken before (Stamped), and the lines of a text are never older     *)
(* than what was parsed (Past).  The algorithms of the map, and what is     *)
(* shown of schedules, their runs and tasks, follow with theorems about any *)
(* input; the last theorem puts them together.                              *)
EXTENDS RepoMapMC, FiniteSetTheorems, FunctionTheorems, SequenceTheorems, TLAPS

Content == [Files -> Versions]
Texts == [of : Content, lines : Content]
Maps == [ranked : Content, builtAt : Ages, mtimes : Content, text : Texts \cup {NoText}]
Slots == [at : BuildAts, why : {"none", "quick", "background", "rebuild", "refresh"},
          files : SUBSET Files, todo : SUBSET Files, mtimes : Content, parsed : Content,
          snap : Maps \cup {NoFile}, clash : BOOLEAN]

MapKinds ==
  /\ disk \in Content /\ edits \in 0 .. MaxEdits
  /\ rm \in Maps /\ cacheFile \in Maps \cup {NoFile, Corrupt}
  /\ built \in BOOLEAN /\ main \in {"start", "building", "ready"}
  /\ check \subseteq {"init", "turn"}
  /\ build \in [Builders -> Slots]
  /\ \A b \in Builders : build[b].at # "idle" <=> build[b].why # "none"

Quick(b) == build[b].why = "quick"

\* The build OnInit waits for.
OneQuick ==
  /\ \A b, c \in Builders : Quick(b) /\ Quick(c) => b = c
  /\ main = "building" <=> \E b \in Builders : Quick(b)

\* No stamp of what was read is newer than it.
Read(content, stamps) == \A f \in Files : content[f] # 0 => stamps[f] <= content[f]

\* What was read, or stamped, is of the file there is or of one before it.
Past(content) == \A f \in Files : content[f] <= edits + 1 /\ (disk[f] = 0 \/ content[f] <= disk[f])

Stamped ==
  /\ \A f \in Files : disk[f] <= edits + 1
  /\ \A b \in Builders : Past(build[b].mtimes) /\ Past(build[b].parsed)

Builds == \A b \in Builders :
  /\ Read(build[b].parsed, build[b].mtimes)
  /\ build[b].at \in {"scan", "stat"} => build[b].parsed = Absent

\* A text is of the ranked list and of lines that are no older, and where they are newer the stamp is not.
Tells(m) ==
  m.text # NoText =>
    /\ m.text.of = m.ranked
    /\ \A f \in Files : m.text.lines[f] # 0 =>
         /\ m.ranked[f] \in 1 .. m.text.lines[f]
         /\ m.text.lines[f] # m.ranked[f] => m.mtimes[f] < m.text.lines[f]

Honest(m) == Read(m.ranked, m.mtimes) /\ Past(m.ranked) /\ Tells(m)
Saved(m) == Honest(m) /\ ~Nothing(m) /\ m.text # NoText

Snapshots ==
  /\ Honest(rm)
  /\ \A b \in Builders : build[b].at = "write" => build[b].snap \in Maps /\ Saved(build[b].snap)
  /\ cacheFile \in {NoFile, Corrupt} \/ Saved(cacheFile)

IInv == MapKinds /\ OneQuick /\ Stamped /\ Builds /\ Snapshots

-----------------------------------------------------------------------------
\* Zero is a version, and a fresh map and an idle slot are well formed.
LEMMA EmptyFacts == /\ Absent \in Content /\ NewMap \in Maps /\ NoBuild \in Slots
                    /\ \A why \in {"quick", "background", "rebuild", "refresh"} : Begun(why) \in Slots
<1>1. 0 \in Versions
  BY RepoMapAssumption DEF Versions
<1>2. Absent \in Content
  BY <1>1 DEF Absent, Content
<1> QED BY <1>2 DEF NewMap, Maps, Ages, NoBuild, Begun, Slots, BuildAts

\* What the run's invariants say follows from the inductive one.
LEMMA IInvImpliesRun == IInv => RepoMapTypeOK /\ MapIsHonest
<1> SUFFICES ASSUME IInv PROVE RepoMapTypeOK /\ MapIsHonest
  OBVIOUS
<1> DEFINE Q == {b \in Builders : build[b].why = "quick"}
<1>1. main = "building" <=> Cardinality(Q) = 1
  <2>1. CASE main = "building"
    <3>1. PICK b \in Builders : Q = {b}
      BY <2>1 DEF IInv, OneQuick, Quick
    <3> QED BY <2>1, <3>1, FS_Singleton
  <2>2. CASE main # "building"
    <3>1. Q = {}
      BY <2>2 DEF IInv, OneQuick, Quick
    <3> QED BY <2>2, <3>1, FS_EmptySet
  <2> QED BY <2>1, <2>2
<1>2. \A m \in {rm} \cup OnDisk : m \in Maps /\ Honest(m)
  BY DEF IInv, MapKinds, Snapshots, OnDisk, Saved
<1>3. \A m \in OnDisk : Saved(m)
  BY DEF IInv, Snapshots, OnDisk
<1>4. RepoMapTypeOK
  <2>1. \A b \in Builders : build[b].at \in BuildAts
          /\ (build[b].at # "idle" => build[b].why \in {"quick", "background", "rebuild", "refresh"})
    BY DEF IInv, MapKinds, Slots
  <2> QED BY <1>1, <1>2, <2>1 DEF RepoMapTypeOK, IInv, MapKinds, Maps, Content
<1>5. MapIsHonest
  <2>1. ChangesStayVisible
    BY <1>2 DEF ChangesStayVisible, Honest, Read, IInv, Builds
  <2>2. TextsAreCurrent
    BY <1>2, <1>3 DEF TextsAreCurrent, Honest, Tells, Saved
  <2> QED BY <2>1, <2>2 DEF MapIsHonest
<1> QED BY <1>4, <1>5

\* Nothing is read, built or saved when the program starts.
LEMMA InitIInv == Init => IInv
<1> SUFFICES ASSUME Init PROVE IInv
  OBVIOUS
<1>1. 0 \in Versions /\ 1 \in Versions /\ MaxEdits \in Nat
  BY RepoMapAssumption DEF Versions
<1>2. MapKinds
  <2>1. disk \in Content
    BY <1>1 DEF Init, Content
  <2>2. build \in [Builders -> Slots] /\ \A b \in Builders : build[b].at = "idle" /\ build[b].why = "none"
    BY EmptyFacts DEF Init, NoBuild
  <2>3. rm \in Maps /\ edits \in 0 .. MaxEdits
    BY <1>1, EmptyFacts DEF Init
  <2> QED BY <2>1, <2>2, <2>3 DEF Init, MapKinds
<1>3. OneQuick
  BY DEF Init, OneQuick, Quick, NoBuild
<1>4. Stamped /\ Builds
  BY <1>1 DEF Init, Stamped, Past, Builds, Read, NoBuild, Absent
<1>5. Snapshots
  BY <1>1 DEF Init, Snapshots, Honest, Tells, Past, Read, NewMap, Absent, NoBuild
<1> QED BY <1>2, <1>3, <1>4, <1>5 DEF IInv

\* Formatting the outputs and dating an entry leave what they show alone.
LEMMA TextFacts ==
  ASSUME NEW m \in Maps, Honest(m), disk \in Content
  PROVE  /\ WithText(m) \in Maps /\ Honest(WithText(m))
         /\ ~Nothing(m) => Entry(WithText(m)) \in Maps /\ Saved(Entry(WithText(m)))
<1> DEFINE new == [of |-> m.ranked, lines |-> LinesFrom(m.ranked)]
           text == IF m.text = NoText THEN new ELSE m.text
<1>0. /\ MaxEdits \in Nat /\ Versions \subseteq Nat /\ 0 \in Versions
      /\ m.ranked \in Content /\ m.mtimes \in Content
      /\ \A f \in Files : m.ranked[f] \in Nat /\ m.mtimes[f] \in Nat /\ disk[f] \in Versions /\ disk[f] \in Nat
  BY RepoMapAssumption DEF Versions, Maps, Content
<1>1. /\ new \in Texts /\ new # NoText /\ new.of = m.ranked
      /\ \A f \in Files : new.lines[f] = IF m.ranked[f] # 0 THEN disk[f] ELSE 0
  <2>1. LinesFrom(m.ranked) \in Content
    BY <1>0 DEF LinesFrom, Content
  <2>2. new \in Texts /\ new \in [of : [Files -> Nat], lines : [Files -> Nat]]
    BY <1>0, <2>1 DEF Texts, Content
  <2> QED BY <2>2, RepoMapAssumption DEF LinesFrom
<1>2. text \in Texts /\ text # NoText
  BY <1>1 DEF Maps
<1>3. /\ text.of = m.ranked
      /\ \A f \in Files : text.lines[f] # 0 =>
           /\ m.ranked[f] \in 1 .. text.lines[f]
           /\ text.lines[f] # m.ranked[f] => m.mtimes[f] < text.lines[f]
  <2> HIDE DEF new
  <2>1. CASE m.text = NoText
    BY <1>0, <1>1, <2>1 DEF Honest, Past, Read
  <2>2. CASE m.text # NoText
    BY <2>2 DEF Honest, Tells
  <2> QED BY <2>1, <2>2
<1>4. /\ WithText(m) = [m EXCEPT !.text = text] /\ m = [m EXCEPT !.text = m.text]
  BY DEF WithText, Maps
<1> HIDE DEF new, text
<1>5. /\ WithText(m) \in Maps /\ WithText(m).ranked = m.ranked /\ WithText(m).mtimes = m.mtimes
      /\ WithText(m).builtAt = m.builtAt /\ WithText(m).text = text
  BY <1>2, <1>4 DEF Maps
<1>6. Honest(WithText(m))
  BY <1>3, <1>5 DEF Honest, Tells
<1>7. /\ Entry(WithText(m)) \in Maps /\ Entry(WithText(m)).ranked = m.ranked
      /\ Entry(WithText(m)).mtimes = m.mtimes /\ Entry(WithText(m)).text = text
      /\ m.builtAt # "zero" => Entry(WithText(m)).builtAt # "zero"
  BY <1>5 DEF Entry, Maps, Ages
<1> QED BY <1>2, <1>3, <1>5, <1>6, <1>7 DEF Honest, Tells, Saved, Nothing

\* What a step that touches one slot has to show of the slot.
SlotOK(r) ==
  /\ r \in Slots /\ (r.at # "idle" <=> r.why # "none")
  /\ Past(r.mtimes) /\ Past(r.parsed)
  /\ Read(r.parsed, r.mtimes) /\ (r.at \in {"scan", "stat"} => r.parsed = Absent)
  /\ r.at = "write" => r.snap \in Maps /\ Saved(r.snap)

\* A slot that has been set up or cleared is in order.
LEMMA FreshSlots ==
  ASSUME Stamped, MapKinds
  PROVE  /\ SlotOK(NoBuild)
         /\ \A why \in {"quick", "background", "rebuild", "refresh"} : SlotOK(Begun(why))
<1>1. MaxEdits \in Nat /\ edits \in Nat /\ \A f \in Files : disk[f] \in Nat
  BY RepoMapAssumption DEF MapKinds, Content, Versions
<1>2. \A r \in Slots : r.mtimes = Absent /\ r.parsed = Absent /\ r.at \in {"idle", "scan"}
                         /\ (r.at # "idle" <=> r.why # "none") => SlotOK(r)
  BY <1>1 DEF SlotOK, Absent, Past, Read
<1> QED BY <1>2, EmptyFacts DEF NoBuild, Begun

\* A slot after its map is published holds nothing of what was read.
LEMMA AfterFacts ==
  ASSUME Stamped, MapKinds, NEW b \in Builders, build[b].at # "idle", NEW at \in {"save", "done"}
  PROVE  SlotOK(After(b, at)) /\ After(b, at).why = build[b].why
<1>1. build[b] \in Slots /\ build[b].why # "none"
  BY DEF MapKinds
<1>2. NoBuild \in Slots /\ SlotOK(NoBuild)
  BY EmptyFacts, FreshSlots
<1>3. /\ After(b, at) \in Slots /\ After(b, at).why = build[b].why /\ After(b, at).at = at
      /\ After(b, at).mtimes = NoBuild.mtimes /\ After(b, at).parsed = NoBuild.parsed
  BY <1>1, <1>2 DEF After, Slots, BuildAts
<1> QED BY <1>1, <1>2, <1>3 DEF SlotOK

\* Once it is saved, a build is waited for or, after a turn, over.
LEMMA AfterSaveFacts ==
  ASSUME Stamped, MapKinds, NEW b \in Builders, build[b].at # "idle"
  PROVE  /\ SlotOK(AfterSave(b)) /\ AfterSave(b).why \in {build[b].why, "none"}
         /\ AfterSave(b).why = "none" => build[b].why # "quick"
<1>1. build[b].why # "none"
  BY DEF MapKinds
<1>2. CASE build[b].why = "rebuild"
  BY <1>2, FreshSlots DEF AfterSave, NoBuild
<1>3. CASE build[b].why # "rebuild"
  BY <1>1, <1>3, AfterFacts DEF AfterSave
<1> QED BY <1>2, <1>3

\* A step of one build that puts its slot in order, and keeps the map and the cache file so.
LEMMA OneSlot ==
  ASSUME IInv, NEW b \in Builders, NEW r, SlotOK(r), Set(b, r), UNCHANGED <<disk, edits>>,
         rm' \in Maps, Honest(rm)',
         cacheFile' \in {NoFile, Corrupt} \/ (cacheFile' \in Maps /\ Saved(cacheFile)'),
         built' \in BOOLEAN, check' \subseteq {"init", "turn"},
         \/ r.why = build[b].why /\ main' = main
         \/ r.why # "quick" /\ main' = IF build[b].why = "quick" THEN "ready" ELSE main
         \/ r.why = "quick" /\ main = "start" /\ main' = "building"
  PROVE  IInv'
<1>1. \A c \in Builders : build'[c] = IF c = b THEN r ELSE build[c]
  BY DEF Set, IInv, MapKinds
<1>2. r \in Slots
  BY DEF SlotOK
<1>3. build' \in [Builders -> Slots]
  BY <1>2 DEF Set, IInv, MapKinds
<1>4. MapKinds'
  BY <1>1, <1>3 DEF MapKinds, IInv, SlotOK
<1>5. OneQuick'
  BY <1>1 DEF OneQuick, Quick, IInv, MapKinds
<1>6. \A c \in Builders : SlotOK(build[c])
  BY DEF IInv, MapKinds, Stamped, Builds, Snapshots, SlotOK
<1>7. \A c \in Builders : SlotOK(build'[c])
  BY <1>1, <1>6
<1>8. Stamped' /\ Builds' /\ \A c \in Builders : build'[c].at = "write" => build'[c].snap \in Maps /\ Saved(build'[c].snap)
  BY <1>7 DEF IInv, Stamped, Past, Builds, SlotOK
<1>9. Snapshots'
  BY <1>8 DEF Snapshots, Saved, Honest, Past
<1> QED BY <1>4, <1>5, <1>8, <1>9 DEF IInv

\* One lemma for the steps of a build that leave the map alone.
LEMMA BuildIInv ==
  ASSUME IInv, NEW b \in Builders,
         \/ ListSources(b) \/ NotCodeProject(b) \/ ScanFails(b) \/ RenameCache(b)
         \/ \E f \in Files : StatFile(b, f) \/ ParseFile(b, f)
  PROVE  IInv'
<1>0. /\ MapKinds /\ Stamped /\ Builds /\ Snapshots /\ SlotOK(build[b]) /\ build[b] \in Slots
      /\ rm \in Maps /\ Honest(rm) /\ edits \in Nat /\ \A f \in Files : disk[f] \in Versions /\ disk[f] \in Nat
      /\ cacheFile \in {NoFile, Corrupt} \/ (cacheFile \in Maps /\ Saved(cacheFile))
  BY RepoMapAssumption DEF IInv, MapKinds, Stamped, Builds, Snapshots, SlotOK, Content, Versions
<1>1. ASSUME UNCHANGED <<disk, edits, rm, built, check, cacheFile>>, NEW r, SlotOK(r), Set(b, r),
             \/ r.why = build[b].why /\ main' = main
             \/ r.why # "quick" /\ main' = IF build[b].why = "quick" THEN "ready" ELSE main
      PROVE  IInv'
  BY <1>0, <1>1, OneSlot DEF MapKinds, Honest, Tells, Past, Read, Saved, Nothing
<1>2. CASE ListSources(b)
  <2> DEFINE r == [build[b] EXCEPT !.at = "stat", !.files = Existing, !.todo = Existing]
  <2>1. /\ r \in Slots /\ r.at = "stat" /\ r.why = build[b].why
        /\ r.mtimes = build[b].mtimes /\ r.parsed = build[b].parsed
    BY <1>0 DEF Slots, BuildAts, Existing
  <2>2. build[b].at = "scan" /\ Set(b, r) /\ UNCHANGED <<disk, edits, rm, built, main, check, cacheFile>>
    BY <1>2 DEF ListSources
  <2> HIDE DEF r
  <2>3. SlotOK(r)
    BY <1>0, <2>1, <2>2 DEF SlotOK
  <2> QED BY <1>1, <2>1, <2>2, <2>3
<1>3. CASE NotCodeProject(b)
  <2>1. Set(b, NoBuild) /\ UNCHANGED <<disk, edits, rm, built, check, cacheFile>>
        /\ main' = IF build[b].why = "quick" THEN "ready" ELSE main
    BY <1>3 DEF NotCodeProject
  <2> QED BY <1>0, <1>1, <2>1, FreshSlots DEF NoBuild
<1>4. CASE ScanFails(b)
  <2>1. UNCHANGED <<disk, edits, rm, built, check, cacheFile>>
    BY <1>4 DEF ScanFails
  <2>2. CASE build[b].why = "quick"
    <3>1. main' = "ready" /\ Set(b, Begun("background"))
      BY <1>4, <2>2 DEF ScanFails
    <3>2. Begun("background").why = "background" /\ SlotOK(Begun("background"))
      BY <1>0, FreshSlots DEF Begun, NoBuild
    <3> QED BY <1>1, <2>1, <2>2, <3>1, <3>2
  <2>3. CASE build[b].why # "quick"
    <3>1. main' = main /\ Set(b, NoBuild) /\ NoBuild.why = "none"
      BY <1>4, <2>3 DEF ScanFails, NoBuild
    <3> QED BY <1>0, <1>1, <2>1, <2>3, <3>1, FreshSlots
  <2> QED BY <2>2, <2>3
<1>5. CASE RenameCache(b)
  <2>1. /\ build[b].at = "write" /\ Set(b, AfterSave(b))
        /\ cacheFile' \in {build[b].snap, Corrupt, cacheFile}
        /\ UNCHANGED <<disk, edits, rm, built, main, check>>
    BY <1>5 DEF RenameCache
  <2>2. SlotOK(AfterSave(b)) /\ AfterSave(b).why \in {build[b].why, "none"} /\ (AfterSave(b).why = "none" => build[b].why # "quick")
    BY <1>0, <2>1, AfterSaveFacts
  <2>3. cacheFile' \in {NoFile, Corrupt} \/ (cacheFile' \in Maps /\ Saved(cacheFile)')
    BY <1>0, <2>1 DEF Snapshots, Saved, Honest, Tells, Past, Read, Nothing
  <2>4. Honest(rm)'
    BY <1>0, <2>1 DEF Honest, Tells, Past, Read
  <2>5. check' \subseteq {"init", "turn"} /\ built' \in BOOLEAN
    BY <1>0, <2>1 DEF MapKinds
  <2>6. rm' \in Maps
    BY <1>0, <2>1
  <2> HIDE DEF Set
  <2> QED BY <2>1, <2>2, <2>3, <2>4, <2>5, <2>6, OneSlot
<1>6. ASSUME NEW f \in Files, StatFile(b, f) PROVE IInv'
  <2>1. PICK at \in {"parse", "stat"}, todo \in SUBSET Files :
          Set(b, [build[b] EXCEPT !.mtimes[f] = disk[f], !.at = at, !.todo = todo])
    <3> DEFINE last == build[b].todo = {f}
              at == IF last THEN "parse" ELSE "stat"
              todo == IF last THEN build[b].files ELSE build[b].todo \ {f}
    <3>1. at \in {"parse", "stat"} /\ todo \in SUBSET Files
      BY <1>0 DEF Slots
    <3>2. Set(b, [build[b] EXCEPT !.mtimes[f] = disk[f], !.at = at, !.todo = todo])
      BY <1>6 DEF StatFile
    <3> QED BY <3>1, <3>2
  <2> DEFINE r == [build[b] EXCEPT !.mtimes[f] = disk[f], !.at = at, !.todo = todo]
  <2>2. build[b].at = "stat" /\ UNCHANGED <<disk, edits, rm, built, main, check, cacheFile>>
    BY <1>6 DEF StatFile
  <2>3. /\ r.mtimes = [build[b].mtimes EXCEPT ![f] = disk[f]] /\ r.at = at /\ r.why = build[b].why
        /\ r.parsed = build[b].parsed /\ r \in Slots
    BY <1>0 DEF Slots, Content, BuildAts
  <2> HIDE DEF r
  <2>4. /\ build[b].parsed = Absent /\ build[b].mtimes \in Content /\ build[b].why # "none"
        /\ Past(build[b].mtimes) /\ Past(build[b].parsed) /\ disk[f] <= edits + 1
    BY <1>0, <2>2 DEF SlotOK, Slots, Stamped
  <2>5. \A g \in Files : r.mtimes[g] = IF g = f THEN disk[f] ELSE build[b].mtimes[g]
    BY <2>3, <2>4 DEF Content
  <2>6. SlotOK(r)
    BY <1>0, <2>3, <2>4, <2>5 DEF SlotOK, Past, Read, Absent
  <2> QED BY <1>1, <2>1, <2>2, <2>3, <2>6 DEF r
<1>7. ASSUME NEW f \in Files, ParseFile(b, f) PROVE IInv'
  <2>1. PICK at \in {"publish", "parse"}, todo \in SUBSET Files :
          Set(b, [build[b] EXCEPT !.parsed[f] = Parsed(f), !.todo = todo, !.at = at])
    <3> DEFINE at == IF build[b].todo = {f} THEN "publish" ELSE "parse"
              todo == build[b].todo \ {f}
    <3>1. at \in {"publish", "parse"} /\ todo \in SUBSET Files
      BY <1>0 DEF Slots
    <3>2. Set(b, [build[b] EXCEPT !.parsed[f] = Parsed(f), !.todo = todo, !.at = at])
      BY <1>7 DEF ParseFile
    <3> QED BY <3>1, <3>2
  <2> DEFINE v == Parsed(f)
             r == [build[b] EXCEPT !.parsed[f] = v, !.todo = todo, !.at = at]
  <2>0. v \in {0, disk[f]} /\ v \in Versions /\ 0 \in Versions
    BY <1>0, RepoMapAssumption DEF Parsed, Versions
  <2> HIDE DEF v
  <2>2. build[b].at = "parse" /\ UNCHANGED <<disk, edits, rm, built, main, check, cacheFile>>
    BY <1>7 DEF ParseFile
  <2>3. /\ r.parsed = [build[b].parsed EXCEPT ![f] = v] /\ r.at = at /\ r.why = build[b].why
        /\ r.mtimes = build[b].mtimes /\ r \in Slots
    BY <1>0, <2>0 DEF Slots, Content, BuildAts
  <2> HIDE DEF r
  <2>4. /\ build[b].parsed \in Content /\ build[b].mtimes \in Content /\ build[b].why # "none"
        /\ Read(build[b].parsed, build[b].mtimes) /\ Past(build[b].mtimes) /\ Past(build[b].parsed)
        /\ disk[f] <= edits + 1
    BY <1>0, <2>2 DEF SlotOK, Slots, Stamped
  <2>5. \A g \in Files : r.parsed[g] = IF g = f THEN v ELSE build[b].parsed[g]
    BY <2>3, <2>4 DEF Content
  <2>6. SlotOK(r)
    BY <1>0, <2>0, <2>3, <2>4, <2>5 DEF SlotOK, Past, Read
  <2> QED BY <1>1, <2>1, <2>2, <2>3, <2>6 DEF r, v
<1> QED BY <1>2, <1>3, <1>4, <1>5, <1>6, <1>7

\* Publishing is where what a build read becomes what the map says.
LEMMA PublishIInv ==
  ASSUME IInv, NEW b \in Builders, Publish(b) \/ Finish(b)
  PROVE  IInv'
<1>0. /\ MapKinds /\ Stamped /\ Snapshots /\ SlotOK(build[b]) /\ build[b] \in Slots
      /\ rm \in Maps /\ Honest(rm) /\ edits \in Nat
      /\ cacheFile \in {NoFile, Corrupt} \/ (cacheFile \in Maps /\ Saved(cacheFile))
  BY RepoMapAssumption DEF IInv, MapKinds, Stamped, Builds, Snapshots, SlotOK
<1>1. CASE Publish(b)
  <2>1. /\ build[b].at = "publish" /\ rm' = Published(b) /\ Set(b, After(b, "save"))
        /\ UNCHANGED <<disk, edits, built, main, check, cacheFile>>
    BY <1>1 DEF Publish
  <2>2. SlotOK(After(b, "save")) /\ After(b, "save").why = build[b].why
    BY <1>0, <2>1, AfterFacts
  <2>3. rm' \in Maps /\ Honest(rm)'
    <3>1. rm' \in Maps /\ rm'.ranked = build[b].parsed /\ rm'.mtimes = build[b].mtimes /\ rm'.text = NoText
      BY <1>0, <2>1 DEF Published, Maps, Ages, Slots
    <3> QED BY <1>0, <2>1, <3>1 DEF Honest, Tells, SlotOK, Past, Read
  <2>4. cacheFile' \in {NoFile, Corrupt} \/ (cacheFile' \in Maps /\ Saved(cacheFile)')
    BY <1>0, <2>1 DEF Saved, Honest, Tells, Past, Read, Nothing
  <2>5. check' \subseteq {"init", "turn"} /\ built' \in BOOLEAN
    BY <1>0, <2>1 DEF MapKinds
  <2> QED BY <2>1, <2>2, <2>3, <2>4, <2>5, OneSlot
<1>2. CASE Finish(b)
  <2>1. /\ Set(b, NoBuild) /\ rm' = WithText(rm) /\ built' = TRUE
        /\ main' = (IF build[b].why = "quick" THEN "ready" ELSE main)
        /\ UNCHANGED <<disk, edits, check, cacheFile>>
    BY <1>2 DEF Finish
  <2>2. SlotOK(NoBuild) /\ NoBuild.why = "none"
    BY <1>0, FreshSlots DEF NoBuild
  <2>3. rm' \in Maps /\ Honest(rm)'
    BY <1>0, <2>1, TextFacts DEF MapKinds, Honest, Tells, Past, Read
  <2>4. cacheFile' \in {NoFile, Corrupt} \/ (cacheFile' \in Maps /\ Saved(cacheFile)')
    BY <1>0, <2>1 DEF Saved, Honest, Tells, Past, Read, Nothing
  <2>5. check' \subseteq {"init", "turn"} /\ built' \in BOOLEAN
    BY <1>0, <2>1 DEF MapKinds
  <2> QED BY <2>1, <2>2, <2>3, <2>4, <2>5, OneSlot
<1> QED BY <1>1, <1>2

\* A snapshot is taken of a map that is honest, formatted and neither empty nor dirty.
LEMMA SnapIInv ==
  ASSUME IInv, NEW b \in Builders, SnapCache(b)
  PROVE  IInv'
<1>0. /\ MapKinds /\ OneQuick /\ Stamped /\ Snapshots /\ build \in [Builders -> Slots]
      /\ rm \in Maps /\ Honest(rm) /\ edits \in Nat
      /\ cacheFile \in {NoFile, Corrupt} \/ (cacheFile \in Maps /\ Saved(cacheFile))
      /\ \A c \in Builders : SlotOK(build[c])
  BY RepoMapAssumption DEF IInv, MapKinds, Stamped, Builds, Snapshots, SlotOK
<1>1. build[b].at = "save" /\ UNCHANGED <<disk, edits, built, main, check, cacheFile>>
  BY DEF SnapCache
<1>2. CASE Nothing(rm)
  <2>1. Set(b, AfterSave(b)) /\ rm' = rm
    BY <1>2 DEF SnapCache
  <2>2. SlotOK(AfterSave(b)) /\ AfterSave(b).why \in {build[b].why, "none"} /\ (AfterSave(b).why = "none" => build[b].why # "quick")
    BY <1>0, <1>1, AfterSaveFacts
  <2>3. cacheFile' \in {NoFile, Corrupt} \/ (cacheFile' \in Maps /\ Saved(cacheFile)')
    BY <1>0, <1>1 DEF Saved, Honest, Tells, Past, Read, Nothing
  <2>4. check' \subseteq {"init", "turn"} /\ built' \in BOOLEAN /\ rm' \in Maps /\ Honest(rm)'
    BY <1>0, <1>1, <2>1 DEF MapKinds, Honest, Tells, Past, Read
  <2> QED BY <1>1, <2>1, <2>2, <2>3, <2>4, OneSlot
<1>3. CASE ~Nothing(rm)
  <2> DEFINE e == Entry(WithText(rm))
            r == [build[b] EXCEPT !.at = "write", !.clash = (Writing # {}), !.snap = e]
  <2>1. e \in Maps /\ Saved(e) /\ rm' = WithText(rm) /\ rm' \in Maps /\ Honest(rm')
    BY <1>0, <1>3, TextFacts DEF SnapCache, MapKinds
  <2>2. \A c \in Builders :
        /\ (c = b => build'[c] = r)
        /\ (c # b => build'[c] \in {build[c], [build[c] EXCEPT !.clash = TRUE]})
    <3>1. build' = [o \in Builders |->
               CASE o = b -> r
                 [] o \in Writing -> [build[o] EXCEPT !.clash = TRUE]
                 [] OTHER -> build[o]]
      BY <1>3 DEF SnapCache
    <3> HIDE DEF r
    <3>2. SUFFICES ASSUME NEW c \in Builders
                   PROVE  /\ (c = b => build'[c] = r)
                          /\ (c # b => build'[c] \in {build[c], [build[c] EXCEPT !.clash = TRUE]})
      OBVIOUS
    <3>3. CASE c = b
      <4>1. b \notin Writing
        BY <1>1 DEF Writing
      <4> QED BY ONLY <3>1, <3>3, <4>1, c \in Builders
    <3>4. CASE c # b /\ c \in Writing
      BY ONLY <3>1, <3>4, c \in Builders
    <3>5. CASE c # b /\ c \notin Writing
      BY ONLY <3>1, <3>5, c \in Builders
    <3> QED BY <3>3, <3>4, <3>5
  <2> HIDE DEF e, r
  <2>3. ASSUME NEW c \in Builders
        PROVE  SlotOK(build'[c]) /\ build'[c].why = build[c].why
    <3>1. CASE c = b
      <4>1. /\ r \in Slots /\ r.at = "write" /\ r.snap = e /\ r.why = build[b].why
            /\ r.mtimes = build[b].mtimes /\ r.parsed = build[b].parsed
        <5> DEFINE w == Writing # {}
        <5>1. build[b] \in Slots /\ w \in BOOLEAN /\ e \in Maps
              /\ r = [build[b] EXCEPT !.at = "write", !.clash = w, !.snap = e]
          BY <1>0, <2>1 DEF r
        <5> HIDE DEF w
        <5> QED BY ONLY <5>1 DEF Slots, BuildAts
      <4>2. build'[c] = r
        BY <2>2, <3>1
      <4> QED BY <1>0, <1>1, <2>1, <3>1, <4>1, <4>2 DEF SlotOK
    <3>2. CASE build'[c] = [build[c] EXCEPT !.clash = TRUE]
      <4> DEFINE q == [build[c] EXCEPT !.clash = TRUE]
      <4>1. /\ q \in Slots /\ q.at = build[c].at /\ q.snap = build[c].snap /\ q.why = build[c].why
            /\ q.mtimes = build[c].mtimes /\ q.parsed = build[c].parsed
        BY <1>0 DEF Slots
      <4> HIDE DEF q
      <4> QED BY <1>0, <3>2, <4>1 DEF SlotOK, q
    <3>3. CASE build'[c] = build[c]
      BY <1>0, <3>3
    <3> QED BY <2>2, <3>1, <3>2, <3>3
  <2>4. build' \in [Builders -> Slots]
    <3>1. build' = [c \in Builders |-> build'[c]]
      BY <1>3 DEF SnapCache
    <3> QED BY <2>3, <3>1 DEF SlotOK
  <2>5. MapKinds'
    BY <1>0, <1>1, <2>1, <2>3, <2>4 DEF MapKinds, SlotOK
  <2>6. OneQuick'
    BY <1>0, <1>1, <2>3 DEF OneQuick, Quick
  <2>7. Stamped' /\ Builds'
    BY <1>0, <1>1, <2>3 DEF Stamped, Past, Builds, SlotOK
  <2>8. \A c \in Builders : build'[c].at = "write" => build'[c].snap \in Maps /\ Saved(build'[c].snap)
    BY <2>3 DEF SlotOK
  <2>9. Snapshots'
    BY <1>0, <1>1, <2>1, <2>8 DEF Snapshots, Saved, Honest, Tells, Past, Read, Nothing
  <2> QED BY <2>5, <2>6, <2>7, <2>9 DEF IInv
<1> QED BY <1>2, <1>3

\* Edits make versions that are newer than every stamp there is.
LEMMA EditIInv ==
  ASSUME IInv, NEW f \in Files, Edit(f)
  PROVE  IInv'
<1>1. PICK v \in {edits + 2, 0} : disk' = [disk EXCEPT ![f] = v]
  BY DEF Edit
<1>2. /\ edits < MaxEdits /\ edits' = edits + 1
      /\ UNCHANGED <<rm, built, main, check, build, cacheFile, mishaps>>
  BY DEF Edit
<1>3. /\ MaxEdits \in Nat /\ edits \in Nat /\ disk \in [Files -> Nat]
      /\ \A b \in Builders : build[b].mtimes \in [Files -> Nat] /\ build[b].parsed \in [Files -> Nat]
  BY RepoMapAssumption DEF IInv, MapKinds, Content, Versions, Slots
<1>4. v \in Versions
  BY <1>2, <1>3 DEF Versions
<1>5. MapKinds'
  BY <1>1, <1>2, <1>3, <1>4 DEF IInv, MapKinds, Content
<1>6. \A g \in Files : disk'[g] = IF g = f THEN v ELSE disk[g]
  BY <1>1, <1>3
<1>7. \A c \in [Files -> Nat] : Past(c) => Past(c)'
  BY <1>2, <1>3, <1>6 DEF Past
<1>8. Stamped'
  <2>1. ASSUME NEW c \in [Files -> Nat], Past(c)
        PROVE  \A g \in Files : c[g] <= edits' + 1 /\ (disk'[g] = 0 \/ c[g] <= disk'[g])
    BY <1>2, <1>3, <1>6, <2>1 DEF Past
  <2>2. \A b \in Builders, g \in Files :
          /\ build[b].mtimes[g] <= edits' + 1 /\ (disk'[g] = 0 \/ build[b].mtimes[g] <= disk'[g])
          /\ build[b].parsed[g] <= edits' + 1 /\ (disk'[g] = 0 \/ build[b].parsed[g] <= disk'[g])
    BY <1>3, <2>1 DEF IInv, Stamped
  <2> QED BY <1>2, <1>3, <1>6, <2>2 DEF IInv, Stamped, Past
<1>9. Snapshots'
  <2>1. \A m \in Maps : Honest(m) => Honest(m)'
    <3> SUFFICES ASSUME NEW m \in Maps, Honest(m) PROVE Honest(m)'
      OBVIOUS
    <3>1. m.ranked \in [Files -> Nat]
      BY <1>3 DEF Maps, Content, Versions
    <3> QED BY <1>7, <3>1 DEF Honest, Tells, Read
  <2>2. \A m \in Maps : Saved(m) => Saved(m)'
    BY <2>1 DEF Saved, Nothing
  <2> QED BY <1>2, <2>1, <2>2 DEF IInv, MapKinds, Snapshots
<1> QED BY <1>2, <1>5, <1>8, <1>9 DEF IInv, OneQuick, Quick, Builds

\* OnInit, the handler of the end of a turn, the tools and the clock.
LEMMA SessionIInv ==
  ASSUME IInv, \/ Start \/ Exit \/ Age \/ Refresh \/ Show
               \/ \E modified \in BOOLEAN : TurnEnd(modified)
               \/ \E c \in {"init", "turn"} : CheckStep(c)
  PROVE  IInv'
<1>0. /\ MapKinds /\ OneQuick /\ Stamped /\ Builds /\ Snapshots /\ rm \in Maps /\ Honest(rm)
      /\ cacheFile \in {NoFile, Corrupt} \/ (cacheFile \in Maps /\ Saved(cacheFile))
      /\ check \subseteq {"init", "turn"} /\ built \in BOOLEAN
  BY DEF IInv, MapKinds, Snapshots
\* Nobody builds: the map changes, if at all, to another honest one.
<1>1. ASSUME UNCHANGED <<disk, edits, build, cacheFile>>, rm' \in Maps, Honest(rm)', built' \in BOOLEAN,
             check' \subseteq {"init", "turn"},
             main' = main \/ (main = "start" /\ main' = "ready")
      PROVE  IInv'
  <2>1. MapKinds'
    BY <1>0, <1>1 DEF MapKinds
  <2>2. OneQuick' /\ Stamped' /\ Builds'
    BY <1>0, <1>1 DEF OneQuick, Quick, Stamped, Past, Builds
  <2>3. Snapshots'
    BY <1>0, <1>1 DEF Snapshots, Saved, Honest, Tells, Past, Read, Nothing
  <2> QED BY <2>1, <2>2, <2>3 DEF IInv
\* A build begins in some slot.
<1>2. ASSUME NEW b \in Builders, NEW why \in {"quick", "rebuild", "refresh"}, Set(b, Begun(why)),
             UNCHANGED <<disk, edits, rm, built, cacheFile>>, check' \subseteq check,
             \/ why = "quick" /\ main = "start" /\ main' = "building"
             \/ why # "quick" /\ main' = main /\ build[b].at = "idle"
      PROVE  IInv'
  <2>1. SlotOK(Begun(why)) /\ Begun(why).why = why
    BY <1>0, FreshSlots DEF Begun, NoBuild
  <2>2. why # "quick" => main' = IF build[b].why = "quick" THEN "ready" ELSE main
    BY <1>0, <1>2 DEF MapKinds
  <2>3. /\ rm' \in Maps /\ Honest(rm)' /\ built' \in BOOLEAN /\ check' \subseteq {"init", "turn"}
        /\ cacheFile' \in {NoFile, Corrupt} \/ (cacheFile' \in Maps /\ Saved(cacheFile)')
    BY <1>0, <1>2 DEF Honest, Tells, Past, Read, Saved, Nothing
  <2> QED BY <1>2, <2>1, <2>2, <2>3, OneSlot
<1>3. CASE StartFromCache
  <2>1. rm' \in Maps /\ Honest(rm)'
    <3>1. /\ rm' \in Maps /\ rm'.ranked = cacheFile.ranked /\ rm'.mtimes = cacheFile.mtimes
          /\ rm'.text = cacheFile.text /\ UNCHANGED <<disk, edits>>
      BY <1>0, <1>3 DEF StartFromCache, Loaded, Maps, Ages
    <3>2. Honest(cacheFile)
      BY <1>0, <1>3 DEF StartFromCache, Saved
    <3> QED BY <3>1, <3>2 DEF Honest, Tells, Past, Read
  <2> QED BY <1>1, <1>3, <2>1 DEF StartFromCache
<1>4. CASE StartCold
  BY <1>2, <1>4 DEF StartCold, Free
<1>5. CASE Exit
  <2>1. /\ main = "ready" /\ main' = "start" /\ rm' = NewMap /\ built' = FALSE /\ check' = {}
        /\ build' = [b \in Builders |-> NoBuild] /\ UNCHANGED <<disk, edits, cacheFile>>
    BY <1>5 DEF Exit
  <2>2. SlotOK(NoBuild) /\ NoBuild \in Slots /\ NewMap \in Maps /\ NoBuild.why = "none" /\ NoBuild.at = "idle"
    BY <1>0, EmptyFacts, FreshSlots DEF NoBuild
  <2>3. MapKinds' /\ OneQuick'
    BY <1>0, <2>1, <2>2 DEF MapKinds, OneQuick, Quick
  <2>4. Stamped' /\ Builds'
    BY <1>0, <2>1, <2>2 DEF Stamped, Past, Builds, SlotOK
  <2>5. Snapshots'
    <3>1. /\ edits \in Nat /\ disk \in [Files -> Nat]
      BY <1>0, RepoMapAssumption DEF MapKinds, Content, Versions
    <3>2. Honest(rm)'
      BY <2>1, <3>1 DEF Honest, Tells, Past, Read, NewMap, Absent
    <3>3. cacheFile' \in {NoFile, Corrupt} \/ Saved(cacheFile)'
      BY <1>0, <2>1 DEF Saved, Honest, Tells, Past, Read, Nothing
    <3> QED BY <2>1, <2>2, <3>2, <3>3 DEF Snapshots
  <2> QED BY <2>3, <2>4, <2>5 DEF IInv
<1>6. CASE Age
  <2>1. rm' \in Maps /\ Honest(rm)'
    BY <1>0, <1>6 DEF Age, Maps, Ages, Honest, Tells, Past, Read
  <2> QED BY <1>0, <1>1, <1>6, <2>1 DEF Age
<1>7. CASE Refresh
  BY <1>2, <1>7 DEF Refresh, Free
<1>8. CASE Show
  <2>1. rm' \in Maps /\ Honest(rm)'
    BY <1>0, <1>8, TextFacts DEF Show, MapKinds, Honest, Tells, Past, Read
  <2> QED BY <1>0, <1>1, <1>8, <2>1 DEF Show
<1>9. ASSUME NEW modified \in BOOLEAN, TurnEnd(modified) PROVE IInv'
  <2>1. rm' \in Maps /\ Honest(rm)'
    BY <1>0, <1>9 DEF TurnEnd, Dirty, Maps, Ages, Honest, Tells, Past, Read
  <2> QED BY <1>0, <1>1, <1>9, <2>1 DEF TurnEnd
<1>10. ASSUME NEW c \in {"init", "turn"}, Fresh(c) PROVE IInv'
  BY <1>0, <1>1, <1>10 DEF Fresh, Honest, Tells, Past, Read
<1>11. ASSUME NEW c \in {"init", "turn"}, Rebuild(c) PROVE IInv'
  <2>1. PICK b \in Builders : build[b].at = "idle" /\ Set(b, Begun("rebuild"))
    BY <1>11 DEF Rebuild, Free
  <2> QED BY <1>2, <1>11, <2>1 DEF Rebuild
<1> QED BY <1>3, <1>4, <1>5, <1>6, <1>7, <1>8, <1>9, <1>10, <1>11 DEF Start, CheckStep

\* Every step keeps the invariant.
LEMMA NextIInv == IInv /\ [Next]_vars => IInv'
<1> SUFFICES ASSUME IInv, [Next]_vars PROVE IInv'
  OBVIOUS
<1>1. ASSUME NEW f \in Files, Edit(f) PROVE IInv'
  BY <1>1, EditIInv
<1>2. ASSUME NEW b \in Builders, BuildStep(b) \/ ScanFails(b) PROVE IInv'
  BY <1>2, BuildIInv, PublishIInv, SnapIInv DEF BuildStep
<1>3. CASE UNCHANGED vars
  BY <1>3 DEF vars, IInv, MapKinds, OneQuick, Quick, Stamped, Past, Builds, Snapshots, Honest, Tells, Read, Saved, Nothing
<1> QED BY <1>1, <1>2, <1>3, SessionIInv DEF Next

-----------------------------------------------------------------------------
\* The types of the map, its builds and its cache file (repomap/repomap.go).
THEOREM RepoMapTyped == Spec => []RepoMapTypeOK
<1> QED BY IInvImpliesRun, InitIInv, NextIInv, PTL DEF Spec

\* However builds, saves, edits, turns and restarts fall between each other, no stamp hides a
\* change, every text is of the list it is kept with, and lines that are newer than that list
\* are newer than their stamp too (repomap/parse_dispatch.go:19, render_lines.go:70, cache.go:28).
THEOREM MapHonest == Spec => []MapIsHonest
<1> QED BY IInvImpliesRun, InitIInv, NextIInv, PTL DEF Spec

-----------------------------------------------------------------------------
(* Places listed in an order (RepoScan.Ordered).                           *)

Comes(B, i, j) == <<i, j>> \in B \/ (<<j, i>> \notin B /\ i < j)
Ahead(K, B, i) == {j \in K : Comes(B, j, i)}
Sorts(K, B) == \A i, j \in K : <<i, j>> \in B => <<j, i>> \notin B /\ \A k \in K : <<i, k>> \in B \/ <<k, j>> \in B

(* No place is ahead of itself.                                             *)
LEMMA NotAheadOfItself ==
  ASSUME NEW K, K \subseteq Nat, NEW B, Sorts(K, B), NEW i \in K
  PROVE  ~Comes(B, i, i)
<1>1. <<i, i>> \notin B
  BY DEF Sorts
<1>2. i \in Nat
  OBVIOUS
<1> QED
  BY <1>1, <1>2 DEF Comes

(* Of two places the one that comes first has fewer ahead of it.            *)
LEMMA AheadGrows ==
  ASSUME NEW K, IsFiniteSet(K), K \subseteq Nat, NEW B, Sorts(K, B), NEW i \in K, NEW j \in K, Comes(B, i, j)
  PROVE  /\ Ahead(K, B, i) \subseteq Ahead(K, B, j) /\ i \in Ahead(K, B, j) /\ i \notin Ahead(K, B, i)
         /\ Cardinality(Ahead(K, B, i)) < Cardinality(Ahead(K, B, j))
<1>1. i \in Ahead(K, B, j) /\ i \notin Ahead(K, B, i)
  BY NotAheadOfItself DEF Ahead
<1>2. ASSUME NEW k \in K, Comes(B, k, i) PROVE Comes(B, k, j)
  <2>0. k \in Nat /\ i \in Nat /\ j \in Nat
    OBVIOUS
  <2>1. CASE <<k, j>> \in B
    BY <2>1 DEF Comes
  <2>2. CASE <<k, j>> \notin B
    <3>1. <<j, k>> \notin B
      BY <1>2, <2>2 DEF Comes, Sorts
    <3>2. <<k, i>> \notin B /\ <<i, j>> \notin B
      BY <1>2, <2>2 DEF Comes, Sorts
    <3> QED
      BY <2>0, <2>2, <3>1, <3>2, <1>2 DEF Comes
  <2> QED
    BY <2>1, <2>2
<1>3. Ahead(K, B, i) \subseteq Ahead(K, B, j)
  BY <1>2 DEF Ahead
<1>4. IsFiniteSet(Ahead(K, B, j)) /\ IsFiniteSet(Ahead(K, B, i))
  <2>1. Ahead(K, B, j) \in SUBSET K /\ Ahead(K, B, i) \in SUBSET K
    BY DEF Ahead
  <2> QED
    BY <2>1, FS_Subset
<1>5. Cardinality(Ahead(K, B, i)) <= Cardinality(Ahead(K, B, j)) /\ Cardinality(Ahead(K, B, i)) # Cardinality(Ahead(K, B, j))
  BY <1>1, <1>3, <1>4, FS_Subset
<1>6. Cardinality(Ahead(K, B, i)) \in Nat /\ Cardinality(Ahead(K, B, j)) \in Nat
  BY <1>4, FS_CardinalityType
<1> QED
  BY <1>1, <1>3, <1>5, <1>6

(* Two places are never level.                                              *)
LEMMA ComesTotal ==
  ASSUME NEW K, K \subseteq Nat, NEW B, NEW i \in K, NEW j \in K, i # j
  PROVE  Comes(B, i, j) \/ Comes(B, j, i)
BY DEF Comes

(* A stretch of numbers from zero, or from one, by its length.              *)
LEMMA Stretch ==
  ASSUME NEW n \in Nat
  PROVE  /\ IsFiniteSet(0 .. n - 1) /\ Cardinality(0 .. n - 1) = n
         /\ IsFiniteSet(1 .. n) /\ Cardinality(1 .. n) = n
<1>1. 0 \in Int /\ n - 1 \in Int /\ 1 \in Int /\ n \in Int
  OBVIOUS
<1>2. IsFiniteSet(0 .. n - 1) /\ Cardinality(0 .. n - 1) = IF 0 > n - 1 THEN 0 ELSE (n - 1) - 0 + 1
  BY <1>1, FS_Interval
<1>3. IsFiniteSet(1 .. n) /\ Cardinality(1 .. n) = IF 1 > n THEN 0 ELSE n - 1 + 1
  BY <1>1, FS_Interval
<1> QED
  BY <1>2, <1>3

(* The places K are listed each once, none before one it has to wait for.   *)
LEMMA OrderedLists ==
  ASSUME NEW K, IsFiniteSet(K), K \subseteq Nat, NEW B, Sorts(K, B)
  PROVE  /\ Cardinality(K) \in Nat
         /\ Ordered(K, B) \in Bijection(1 .. Cardinality(K), K)
         /\ \A k \in 1 .. Cardinality(K) : Cardinality(Ahead(K, B, Ordered(K, B)[k])) = k - 1
         /\ \A k, l \in 1 .. Cardinality(K) : k < l => Comes(B, Ordered(K, B)[k], Ordered(K, B)[l])
<1> DEFINE n == Cardinality(K)
           c == [i \in K |-> Cardinality(Ahead(K, B, i))]
           O == Ordered(K, B)
<1>1. n \in Nat
  BY FS_CardinalityType
<1>2. ASSUME NEW i \in K PROVE c[i] \in 0 .. n - 1
  <2>1. Ahead(K, B, i) \in SUBSET K /\ i \notin Ahead(K, B, i)
    BY NotAheadOfItself DEF Ahead
  <2>2. IsFiniteSet(Ahead(K, B, i)) /\ Cardinality(Ahead(K, B, i)) <= n /\ Cardinality(Ahead(K, B, i)) # n
    BY <2>1, FS_Subset
  <2>3. Cardinality(Ahead(K, B, i)) \in Nat
    BY <2>2, FS_CardinalityType
  <2> QED
    BY <2>2, <2>3, <1>1
<1>3. ASSUME NEW i \in K, NEW j \in K, c[i] = c[j] PROVE i = j
  <2>1. ASSUME Comes(B, i, j) PROVE FALSE
    <3>1. Cardinality(Ahead(K, B, i)) < Cardinality(Ahead(K, B, j))
      BY <2>1, AheadGrows
    <3> QED
      BY <3>1, <1>2, <1>3
  <2>2. ASSUME Comes(B, j, i) PROVE FALSE
    <3>1. Cardinality(Ahead(K, B, j)) < Cardinality(Ahead(K, B, i))
      BY <2>2, AheadGrows
    <3> QED
      BY <3>1, <1>2, <1>3
  <2> QED
    BY <2>1, <2>2, ComesTotal
<1>4. c \in Injection(K, 0 .. n - 1)
  <2>1. c \in [K -> 0 .. n - 1]
    BY <1>2
  <2>2. \A i, j \in K : c[i] = c[j] => i = j
    BY <1>3
  <2> QED
    BY ONLY <2>1, <2>2 DEF Injection, IsInjective
<1>5. IsFiniteSet(0 .. n - 1) /\ Cardinality(0 .. n - 1) = n
  BY <1>1, Stretch
<1>6. c \in Surjection(K, 0 .. n - 1)
  BY <1>4, <1>5, FS_Injection
<1>7. ASSUME NEW k \in 1 .. n PROVE O[k] \in K /\ c[O[k]] = k - 1
  <2>1. k - 1 \in 0 .. n - 1
    BY <1>1
  <2>2. \E i \in K : c[i] = k - 1
    BY <2>1, <1>6 DEF Surjection
  <2>3. O[k] = CHOOSE i \in K : Cardinality(Ahead(K, B, i)) = k - 1
    BY DEF Ordered, Ahead, Comes
  <2> QED
    BY <2>2, <2>3
<1>9. O \in [1 .. n -> K]
  <2>1. O = [k \in 1 .. n |-> CHOOSE i \in K : Cardinality(Ahead(K, B, i)) = k - 1]
    BY DEF Ordered, Ahead, Comes
  <2> QED
    BY <2>1, <1>7
<1> HIDE DEF O, n, c
<1>8. ASSUME NEW i \in K PROVE O[c[i] + 1] = i /\ c[i] + 1 \in 1 .. n
  <2>1. c[i] + 1 \in 1 .. n /\ (c[i] + 1) - 1 = c[i]
    BY <1>2, <1>1
  <2> QED
    BY <2>1, <1>7, <1>3
<1>10. O \in Bijection(1 .. n, K)
  <2>1. O \in Surjection(1 .. n, K)
    <3>1. \A i \in K : \E k \in 1 .. n : O[k] = i
      BY <1>8
    <3> QED
      BY ONLY <3>1, <1>9 DEF Surjection
  <2>2. ASSUME NEW k \in 1 .. n, NEW l \in 1 .. n, O[k] = O[l] PROVE k = l
    BY <2>2, <1>7, <1>1
  <2> QED
    <3>1. \A k, l \in 1 .. n : O[k] = O[l] => k = l
      BY <2>2
    <3> QED
      BY ONLY <2>1, <3>1, <1>9 DEF Bijection, Injection, IsInjective
<1>11. ASSUME NEW k \in 1 .. n, NEW l \in 1 .. n, k < l PROVE Comes(B, O[k], O[l])
  <2>1. O[k] \in K /\ O[l] \in K /\ O[k] # O[l]
    BY <1>7, <1>11, <1>1
  <2>2. ASSUME Comes(B, O[l], O[k]) PROVE FALSE
    <3>1. c[O[l]] < c[O[k]]
      BY <2>1, <2>2, AheadGrows DEF c
    <3> QED
      BY <3>1, <1>7, <1>11, <1>1
  <2> QED
    BY <2>1, <2>2, ComesTotal
<1> QED
  BY <1>1, <1>7, <1>10, <1>11 DEF O, n, c

(* Without an order of their own places are listed as they stand.           *)
LEMMA InTurnLists ==
  ASSUME NEW K, IsFiniteSet(K), K \subseteq Nat
  PROVE  /\ Cardinality(K) \in Nat
         /\ InTurn(K) \in [1 .. Cardinality(K) -> K]
         /\ \A i \in K : \E k \in 1 .. Cardinality(K) : InTurn(K)[k] = i
         /\ \A k, l \in 1 .. Cardinality(K) : k < l => InTurn(K)[k] < InTurn(K)[l]
         /\ \A k, l \in 1 .. Cardinality(K) : InTurn(K)[k] = InTurn(K)[l] => k = l
<1>1. Sorts(K, {})
  BY DEF Sorts
<1>2. \A i, j \in K : Comes({}, i, j) => i < j
  BY DEF Comes
<1> DEFINE n == Cardinality(K)  O == Ordered(K, {})
<1> HIDE DEF n, O
<1>3. /\ n \in Nat /\ O \in Bijection(1 .. n, K)
      /\ \A k, l \in 1 .. n : k < l => Comes({}, O[k], O[l])
  BY <1>1, OrderedLists DEF n, O
<1>4. O \in [1 .. n -> K] /\ (\A k, l \in 1 .. n : O[k] = O[l] => k = l) /\ \A i \in K : \E k \in 1 .. n : O[k] = i
  BY ONLY <1>3 DEF Bijection, Injection, Surjection, IsInjective
<1>5. \A k, l \in 1 .. n : k < l => O[k] < O[l]
  BY <1>2, <1>3, <1>4
<1> QED
  BY <1>3, <1>4, <1>5 DEF n, O, InTurn

(* Places that `before' all tells apart are listed by it.                   *)
LEMMA OrderedSorts ==
  ASSUME NEW K, IsFiniteSet(K), K \subseteq Nat, NEW B, Sorts(K, B)
  PROVE  /\ Cardinality(K) \in Nat
         /\ Ordered(K, B) \in [1 .. Cardinality(K) -> K]
         /\ \A i \in K : \E k \in 1 .. Cardinality(K) : Ordered(K, B)[k] = i
         /\ \A k, l \in 1 .. Cardinality(K) : Ordered(K, B)[k] = Ordered(K, B)[l] => k = l
         /\ \A k, l \in 1 .. Cardinality(K) : k < l => <<Ordered(K, B)[l], Ordered(K, B)[k]>> \notin B
<1> DEFINE n == Cardinality(K)  O == Ordered(K, B)
<1> HIDE DEF n, O
<1>3. /\ n \in Nat /\ O \in Bijection(1 .. n, K)
      /\ \A k, l \in 1 .. n : k < l => Comes(B, O[k], O[l])
  BY OrderedLists DEF n, O
<1>4. O \in [1 .. n -> K] /\ (\A k, l \in 1 .. n : O[k] = O[l] => k = l) /\ \A i \in K : \E k \in 1 .. n : O[k] = i
  BY ONLY <1>3 DEF Bijection, Injection, Surjection, IsInjective
<1>5. ASSUME NEW k \in 1 .. n, NEW l \in 1 .. n, k < l PROVE <<O[l], O[k]>> \notin B
  <2>1. Comes(B, O[k], O[l]) /\ O[k] \in K /\ O[l] \in K
    BY <1>3, <1>4, <1>5
  <2> QED
    BY <2>1 DEF Comes, Sorts
<1> QED
  BY <1>3, <1>4, <1>5 DEF n, O

-----------------------------------------------------------------------------
(* Scores do not depend on the order of the files.                         *)

-----------------------------------------------------------------------------
(* Numbers that a permutation brings into a set are as many as the set.     *)
LEMMA CountPermuted ==
  ASSUME NEW D, IsFiniteSet(D), NEW p \in Bijection(D, D), NEW S, S \subseteq D
  PROVE  Cardinality({i \in D : p[i] \in S}) = Cardinality(S)
<1> DEFINE T == {i \in D : p[i] \in S}
           q == [i \in T |-> p[i]]
<1>1. p \in [D -> D] /\ (\A i, j \in D : p[i] = p[j] => i = j) /\ \A j \in D : \E i \in D : p[i] = j
  BY ONLY p \in Bijection(D, D) DEF Bijection, Injection, Surjection, IsInjective
<1>2. q \in [T -> S] /\ (\A i, j \in T : q[i] = q[j] => i = j) /\ \A j \in S : \E i \in T : q[i] = j
  BY <1>1
<1>3. q \in Bijection(T, S)
  BY ONLY <1>2 DEF Bijection, Injection, Surjection, IsInjective
<1>4. IsFiniteSet(T)
  BY FS_Subset
<1>5. ExistsBijection(T, S)
  BY <1>3 DEF ExistsBijection
<1> QED
  BY <1>4, <1>5, FS_Bijection

(* What a list of files to rank consists of.                                *)
LEMMA FilesListed ==
  ASSUME NEW files \in Seq(RepoFile)
  PROVE  /\ Len(files) \in Nat /\ DOMAIN files = 1 .. Len(files) /\ IsFiniteSet(DOMAIN files)
         /\ Cardinality(DOMAIN files) = Len(files) /\ DOMAIN files \subseteq Nat
         /\ \A i \in DOMAIN files : files[i] \in RepoFile
<1>1. Len(files) \in Nat /\ DOMAIN files = 1 .. Len(files) /\ \A i \in 1 .. Len(files) : files[i] \in RepoFile
  OBVIOUS
<1> HIDE DEF RepoFile
<1>2. IsFiniteSet(1 .. Len(files)) /\ Cardinality(1 .. Len(files)) = Len(files)
  BY <1>1, Stretch
<1> QED
  BY <1>1, <1>2

(* A file is imported by at most all files.                                 *)
LEMMA ImportersBound ==
  ASSUME NEW files \in Seq(RepoFile), NEW name
  PROVE  Importers(files, name) \in 0 .. Len(files)
<1> DEFINE S == {i \in DOMAIN files : name \in ToSet(files[i].imports)}
<1>1. S \in SUBSET DOMAIN files
  OBVIOUS
<1> HIDE DEF S
<1>2. IsFiniteSet(DOMAIN files) /\ Cardinality(DOMAIN files) = Len(files) /\ Len(files) \in Nat
  BY FilesListed
<1>3. IsFiniteSet(S) /\ Cardinality(S) <= Cardinality(DOMAIN files)
  BY <1>1, <1>2, FS_Subset
<1>4. Cardinality(S) \in Nat
  BY <1>3, FS_CardinalityType
<1>5. Importers(files, name) = Cardinality(S)
  BY DEF Importers, S
<1> QED
  BY <1>2, <1>3, <1>4, <1>5

(* The score of a file is a number, and none is imported more often than    *)
(* there are files.                                                         *)
LEMMA ScoreTyped ==
  ASSUME NEW files \in Seq(RepoFile), NEW f \in RepoFile
  PROVE  /\ Score(files, f) \in Int /\ ImportedBy(files, f) \in 0 .. Len(files)
         /\ Scored(files, f) = [path |-> f.path, score |-> Score(files, f), importedBy |-> ImportedBy(files, f)]
         /\ f.path \in Nat
<1>1. ImportedBy(files, f) \in 0 .. Len(files)
  <2>1. Importers(files, f.pkg) \in 0 .. Len(files) /\ Len(files) \in Nat
    BY ImportersBound, FilesListed
  <2> QED
    BY <2>1 DEF ImportedBy
<1>2. EntryBoost(f) \in Nat
  BY DEF EntryBoost
<1>3. f.depth \in Nat /\ f.test \in BOOLEAN /\ f.exported \in Nat /\ f.path \in Nat
  BY DEF RepoFile
<1>4. DepthPenalty(f) \in Int
  BY <1>3 DEF DepthPenalty
<1>5. ImportedBy(files, f) \in Int
  BY <1>1
<1> QED
  BY <1>1, <1>2, <1>3, <1>4, <1>5 DEF Score, Scored

Permuted(files, p) == [i \in DOMAIN files |-> files[p[i]]]

(* A permutation of a list of files.                                        *)
LEMMA PermutedListed ==
  ASSUME NEW files \in Seq(RepoFile), PathsDiffer(files), NEW p \in Bijection(DOMAIN files, DOMAIN files)
  PROVE  /\ Permuted(files, p) \in Seq(RepoFile) /\ DOMAIN Permuted(files, p) = DOMAIN files
         /\ PathsDiffer(Permuted(files, p))
         /\ \A i \in DOMAIN files : p[i] \in DOMAIN files /\ Permuted(files, p)[i] = files[p[i]]
<1> DEFINE n == Len(files)
<1>1. n \in Nat /\ DOMAIN files = 1 .. n /\ \A i \in 1 .. n : files[i] \in RepoFile
  BY FilesListed
<1> HIDE DEF n
<1>2. p \in [1 .. n -> 1 .. n] /\ \A i, j \in 1 .. n : p[i] = p[j] => i = j
  <2>1. p \in Bijection(1 .. n, 1 .. n)
    BY <1>1
  <2> QED
    BY ONLY <2>1 DEF Bijection, Injection, Surjection, IsInjective
<1>3. Permuted(files, p) = [i \in 1 .. n |-> files[p[i]]]
  BY <1>1 DEF Permuted
<1>4. Permuted(files, p) \in [1 .. n -> RepoFile]
  BY <1>1, <1>2, <1>3
<1>5. Permuted(files, p) \in Seq(RepoFile)
  BY <1>1, <1>4, IsASeq
<1>6. ASSUME NEW i \in 1 .. n, NEW j \in 1 .. n, Permuted(files, p)[i].path = Permuted(files, p)[j].path PROVE i = j
  <2>1. files[p[i]].path = files[p[j]].path /\ p[i] \in 1 .. n /\ p[j] \in 1 .. n
    BY <1>2, <1>3, <1>6
  <2>2. p[i] = p[j]
    BY <1>1, <2>1 DEF PathsDiffer
  <2> QED
    BY <2>2, <1>2
<1>7. DOMAIN Permuted(files, p) = 1 .. n
  BY <1>3
<1>8. PathsDiffer(Permuted(files, p))
  BY <1>6, <1>7 DEF PathsDiffer
<1> QED
  BY <1>1, <1>2, <1>3, <1>5, <1>7, <1>8

(* The score of a file does not depend on the order of the list.            *)
LEMMA ScorePermuted ==
  ASSUME NEW files \in Seq(RepoFile), PathsDiffer(files), NEW p \in Bijection(DOMAIN files, DOMAIN files), NEW f
  PROVE  Scored(Permuted(files, p), f) = Scored(files, f)
<1> DEFINE D == DOMAIN files  g == Permuted(files, p)
<1>1. DOMAIN g = D /\ (\A i \in D : p[i] \in D /\ g[i] = files[p[i]]) /\ IsFiniteSet(D)
  BY PermutedListed, FilesListed
<1>2. \A j \in D : \E i \in D : p[i] = j
  <2>1. p \in Bijection(D, D)
    OBVIOUS
  <2> QED
    BY ONLY <2>1 DEF Bijection, Surjection
<1> HIDE DEF D, g
<1>3. ASSUME NEW name PROVE Importers(g, name) = Importers(files, name)
  <2> DEFINE S == {i \in D : name \in ToSet(files[i].imports)}
  <2>1. Cardinality({i \in D : p[i] \in S}) = Cardinality(S)
    <3>1. S \subseteq D /\ p \in Bijection(D, D)
      BY DEF D
    <3> HIDE DEF S
    <3> QED
      BY <1>1, <3>1, CountPermuted
  <2>2. {i \in D : p[i] \in S} = {i \in D : name \in ToSet(g[i].imports)}
    BY <1>1
  <2> QED
    BY <2>1, <2>2, <1>1 DEF Importers, D
<1>4. (\E i \in DOMAIN g : g[i].lang = "go") <=> (\E i \in DOMAIN files : files[i].lang = "go")
  <2>1. ASSUME NEW i \in D, g[i].lang = "go" PROVE \E j \in D : files[j].lang = "go"
    BY <1>1, <2>1
  <2>2. ASSUME NEW j \in D, files[j].lang = "go" PROVE \E i \in D : g[i].lang = "go"
    <3>1. PICK i \in D : p[i] = j
      BY <1>2
    <3> QED
      BY <1>1, <2>2, <3>1
  <2> QED
    BY <2>1, <2>2, <1>1 DEF D
<1>5. ImportedBy(g, f) = ImportedBy(files, f)
  BY <1>3, <1>4 DEF ImportedBy
<1>6. Score(g, f) = Score(files, f)
  BY <1>5 DEF Score
<1> QED
  BY <1>5, <1>6 DEF Scored, g

Scores(files) == [i \in DOMAIN files |-> Scored(files, files[i])]
ByScore(files) == {e \in (DOMAIN files) \X (DOMAIN files) : Before(Scores(files)[e[1]], Scores(files)[e[2]])}

(* Of two files of a list exactly one comes first.                          *)
LEMMA ByScoreSorts ==
  ASSUME NEW files \in Seq(RepoFile), PathsDiffer(files)
  PROVE  /\ \A i, j \in DOMAIN files : <<i, j>> \in ByScore(files) <=> Before(Scored(files, files[i]), Scored(files, files[j]))
         /\ Sorts(DOMAIN files, ByScore(files))
         /\ \A i, j \in DOMAIN files : i # j => <<i, j>> \in ByScore(files) \/ <<j, i>> \in ByScore(files)
<1> DEFINE D == DOMAIN files  s == [i \in D |-> Scored(files, files[i]).score]  t == [i \in D |-> files[i].path]
<1>1. ASSUME NEW i \in D
      PROVE  s[i] \in Int /\ t[i] \in Nat /\ Scored(files, files[i]).score = s[i] /\ Scored(files, files[i]).path = t[i]
  <2>1. files[i] \in RepoFile
    BY FilesListed
  <2>2. /\ Score(files, files[i]) \in Int /\ files[i].path \in Nat
        /\ Scored(files, files[i]) = [path |-> files[i].path, score |-> Score(files, files[i]),
                                      importedBy |-> ImportedBy(files, files[i])]
    BY <2>1, ScoreTyped
  <2> QED
    BY <2>2
<1>2. \A i, j \in D : t[i] = t[j] => i = j
  BY DEF PathsDiffer
<1>3. \A i, j \in D : <<i, j>> \in ByScore(files) <=> Before(Scored(files, files[i]), Scored(files, files[j]))
  BY DEF ByScore, Scores
<1> HIDE DEF D, s, t
<1>4. \A i, j \in D : <<i, j>> \in ByScore(files) <=> (s[i] > s[j] \/ (s[i] = s[j] /\ t[i] < t[j]))
  BY <1>1, <1>3 DEF Before
<1>5. \A i \in D : s[i] \in Int /\ t[i] \in Int
  BY <1>1
<1>6. Sorts(D, ByScore(files))
  <2> SUFFICES ASSUME NEW i \in D, NEW j \in D, <<i, j>> \in ByScore(files)
               PROVE  <<j, i>> \notin ByScore(files) /\ \A k \in D : <<i, k>> \in ByScore(files) \/ <<k, j>> \in ByScore(files)
    BY DEF Sorts
  <2>1. s[i] > s[j] \/ (s[i] = s[j] /\ t[i] < t[j])
    BY <1>4
  <2>2. <<j, i>> \notin ByScore(files)
    BY <2>1, <1>4, <1>5
  <2>3. ASSUME NEW k \in D PROVE <<i, k>> \in ByScore(files) \/ <<k, j>> \in ByScore(files)
    BY <2>1, <1>4, <1>5
  <2> QED
    BY <2>2, <2>3
<1>7. \A i, j \in D : i # j => <<i, j>> \in ByScore(files) \/ <<j, i>> \in ByScore(files)
  BY <1>2, <1>4, <1>5
<1> QED
  BY <1>3, <1>6, <1>7 DEF D

(* The list of ranked files, by the places the files had.                   *)
LEMMA RankedByPlace ==
  ASSUME NEW files \in Seq(RepoFile), PathsDiffer(files)
  PROVE  LET O == Ordered(DOMAIN files, ByScore(files)) IN
         /\ RankFiles(files) = [k \in DOMAIN files |-> Scored(files, files[O[k]])]
         /\ O \in [DOMAIN files -> DOMAIN files]
         /\ \A i \in DOMAIN files : \E k \in DOMAIN files : O[k] = i
         /\ \A k \in DOMAIN files : Cardinality(Ahead(DOMAIN files, ByScore(files), O[k])) = k - 1
         /\ \A k, l \in DOMAIN files : k < l => <<O[l], O[k]>> \notin ByScore(files)
<1> DEFINE D == DOMAIN files  B == ByScore(files)  O == Ordered(D, B)  n == Len(files)
<1>1. D = 1 .. n /\ n \in Nat /\ IsFiniteSet(D) /\ Cardinality(D) = n /\ D \subseteq Nat
  BY FilesListed
<1>2. Sorts(D, B)
  BY ByScoreSorts
<1> HIDE DEF B, n
<1>3. RankFiles(files) = [k \in DOMAIN O |-> Scored(files, files[O[k]])] \/ \E k \in DOMAIN O : O[k] \notin D
  BY DEF RankFiles, B, ByScore, Scores
<1> HIDE DEF D, O
<1>4. \A k \in 1 .. Cardinality(D) : Cardinality(Ahead(D, B, O[k])) = k - 1
  BY <1>1, <1>2, OrderedLists DEF O
<1>5. /\ O \in [1 .. Cardinality(D) -> D]
      /\ \A i \in D : \E k \in 1 .. Cardinality(D) : O[k] = i
      /\ \A k, l \in 1 .. Cardinality(D) : k < l => <<O[l], O[k]>> \notin B
  <2>1. /\ Cardinality(D) \in Nat
        /\ Ordered(D, B) \in [1 .. Cardinality(D) -> D]
        /\ \A i \in D : \E k \in 1 .. Cardinality(D) : Ordered(D, B)[k] = i
        /\ \A k, l \in 1 .. Cardinality(D) : Ordered(D, B)[k] = Ordered(D, B)[l] => k = l
        /\ \A k, l \in 1 .. Cardinality(D) : k < l => <<Ordered(D, B)[l], Ordered(D, B)[k]>> \notin B
    BY <1>1, <1>2, OrderedSorts
  <2> QED
    BY <2>1 DEF O
<1>6. RankFiles(files) = [k \in D |-> Scored(files, files[O[k]])]
  BY <1>1, <1>3, <1>5
<1> QED
  BY <1>1, <1>4, <1>5, <1>6 DEF D, B, O

(* The ranking of a permuted list is the ranking of the list.               *)
LEMMA RankPermuted ==
  ASSUME NEW files \in Seq(RepoFile), PathsDiffer(files), NEW p \in Bijection(DOMAIN files, DOMAIN files)
  PROVE  RankFiles(Permuted(files, p)) = RankFiles(files)
<1> DEFINE D == DOMAIN files  g == Permuted(files, p)  B == ByScore(files)  C == ByScore(g)
           O == Ordered(D, B)  Q == Ordered(D, C)
<1>1. g \in Seq(RepoFile) /\ DOMAIN g = D /\ PathsDiffer(g) /\ \A i \in D : p[i] \in D /\ g[i] = files[p[i]]
  BY PermutedListed
<1>2. IsFiniteSet(D) /\ D \subseteq Nat
  BY FilesListed
<1>3. \A i, j \in D : p[i] = p[j] => i = j
  <2>1. p \in Bijection(D, D)
    OBVIOUS
  <2> QED
    BY ONLY <2>1 DEF Bijection, Injection, IsInjective
<1> HIDE DEF g
<1>4. ASSUME NEW i \in D, NEW j \in D PROVE <<i, j>> \in C <=> <<p[i], p[j]>> \in B
  <2>1. <<i, j>> \in C <=> Before(Scored(g, g[i]), Scored(g, g[j]))
    BY <1>1, ByScoreSorts
  <2>2. p[i] \in D /\ p[j] \in D /\ g[i] = files[p[i]] /\ g[j] = files[p[j]]
    BY <1>1
  <2>3. <<p[i], p[j]>> \in B <=> Before(Scored(files, files[p[i]]), Scored(files, files[p[j]]))
    BY <2>2, ByScoreSorts
  <2>4. Scored(g, g[i]) = Scored(files, g[i]) /\ Scored(g, g[j]) = Scored(files, g[j])
    BY ScorePermuted DEF g
  <2> QED
    BY <2>1, <2>2, <2>3, <2>4
<1>5. /\ \A i, j \in D : i # j => <<i, j>> \in B \/ <<j, i>> \in B
      /\ Sorts(D, B)
  BY ByScoreSorts
<1>6. Sorts(D, C) /\ \A i, j \in D : i # j => <<i, j>> \in C \/ <<j, i>> \in C
  BY <1>1, ByScoreSorts
<1> HIDE DEF B, C
<1>7. ASSUME NEW i \in D, NEW j \in D PROVE Comes(C, i, j) <=> Comes(B, p[i], p[j])
  <2>1. p[i] \in D /\ p[j] \in D
    BY <1>1
  <2>2. CASE i = j
    BY <2>2, <1>2, <2>1, <1>5, <1>6, NotAheadOfItself
  <2>3. CASE i # j
    <3>1. p[i] # p[j]
      BY <2>3, <1>3
    <3>2. Comes(C, i, j) <=> <<i, j>> \in C
      BY <2>3, <1>6 DEF Comes
    <3>3. Comes(B, p[i], p[j]) <=> <<p[i], p[j]>> \in B
      BY <2>1, <3>1, <1>5 DEF Comes
    <3> QED
      BY <3>2, <3>3, <1>4
  <2> QED
    BY <2>2, <2>3
<1>8. ASSUME NEW i \in D PROVE Cardinality(Ahead(D, C, i)) = Cardinality(Ahead(D, B, p[i]))
  <2>1. Ahead(D, C, i) = {j \in D : p[j] \in Ahead(D, B, p[i])}
    BY <1>1, <1>7 DEF Ahead
  <2>2. Ahead(D, B, p[i]) \subseteq D /\ p \in Bijection(D, D)
    BY DEF Ahead
  <2>3. Cardinality({j \in D : p[j] \in Ahead(D, B, p[i])}) = Cardinality(Ahead(D, B, p[i]))
    BY <1>2, <2>2, CountPermuted
  <2> QED
    BY <2>1, <2>3
<1>9. /\ RankFiles(files) = [k \in D |-> Scored(files, files[O[k]])] /\ O \in [D -> D]
      /\ \A i \in D : \E k \in D : O[k] = i
      /\ \A k \in D : Cardinality(Ahead(D, B, O[k])) = k - 1
  BY RankedByPlace DEF B
<1>10. /\ RankFiles(g) = [k \in D |-> Scored(g, g[Q[k]])] /\ Q \in [D -> D]
       /\ \A k \in D : Cardinality(Ahead(D, C, Q[k])) = k - 1
  BY <1>1, RankedByPlace DEF C
<1> HIDE DEF O, Q
<1>11. ASSUME NEW k \in D PROVE Scored(g, g[Q[k]]) = Scored(files, files[O[k]])
  <2>1. Q[k] \in D /\ p[Q[k]] \in D /\ g[Q[k]] = files[p[Q[k]]]
    BY <1>10, <1>1
  <2>2. PICK l \in D : O[l] = p[Q[k]]
    BY <1>9, <2>1
  <2>3. Cardinality(Ahead(D, B, p[Q[k]])) = k - 1 /\ Cardinality(Ahead(D, B, O[l])) = l - 1
    BY <1>8, <1>9, <1>10, <2>1
  <2>4. l = k
    BY <2>2, <2>3, <1>2
  <2>5. Scored(g, g[Q[k]]) = Scored(files, g[Q[k]])
    BY ScorePermuted DEF g
  <2> QED
    BY <2>1, <2>2, <2>4, <2>5
<1> QED
  BY <1>9, <1>10, <1>11 DEF g

(* However the parsers return, files of different paths are ranked alike,   *)
(* best first, and no import weighs more than its file (ranker.go:31).      *)
THEOREM RankingIsOrderFree ==
  ASSUME NEW files \in Seq(RepoFile), PathsDiffer(files)
  PROVE  RankIsOrderFree(files)
<1> DEFINE D == DOMAIN files  r == RankFiles(files)  O == Ordered(D, ByScore(files))
<1>1. /\ r = [k \in D |-> Scored(files, files[O[k]])] /\ O \in [D -> D]
      /\ \A k, l \in D : k < l => <<O[l], O[k]>> \notin ByScore(files)
  BY RankedByPlace
<1>2. \A p \in Bijection(D, D) : RankFiles([i \in D |-> files[p[i]]]) = r
  BY RankPermuted DEF Permuted
<1>3. ASSUME NEW i \in D
      PROVE  /\ Score(files, files[i]) \in Int /\ ImportedBy(files, files[i]) \in 0 .. Len(files)
             /\ files[i].path \in Nat
             /\ Scored(files, files[i]) = [path |-> files[i].path, score |-> Score(files, files[i]),
                                           importedBy |-> ImportedBy(files, files[i])]
  <2>1. files[i] \in RepoFile
    BY FilesListed
  <2> QED
    BY <2>1, ScoreTyped
<1>4. Len(files) \in Nat
  BY FilesListed
<1>9. ASSUME NEW i \in D
      PROVE  /\ Scored(files, files[i]).score \in Int
             /\ Scored(files, files[i]).importedBy <= Len(files)
  <2>1. /\ Scored(files, files[i]).score = Score(files, files[i])
        /\ Scored(files, files[i]).importedBy = ImportedBy(files, files[i])
    BY <1>3
  <2> QED
    BY <2>1, <1>3, <1>4
<1>5. \A i, j \in D : <<i, j>> \in ByScore(files) <=> Before(Scored(files, files[i]), Scored(files, files[j]))
  BY ByScoreSorts
<1> HIDE DEF D, r, O
<1>6. ASSUME NEW k \in D PROVE r[k].importedBy <= Len(files)
  <2>1. O[k] \in D /\ r[k] = Scored(files, files[O[k]])
    BY <1>1
  <2> QED
    BY <2>1, <1>9
<1>7. ASSUME NEW k \in D, NEW l \in D, k < l PROVE r[k].score >= r[l].score
  <2>1. O[k] \in D /\ O[l] \in D /\ r[k] = Scored(files, files[O[k]]) /\ r[l] = Scored(files, files[O[l]])
    BY <1>1
  <2>2. ~Before(r[l], r[k])
    BY <1>1, <1>5, <1>7, <2>1
  <2>3. r[k].score \in Int /\ r[l].score \in Int
    BY <2>1, <1>9
  <2> QED
    BY <2>2, <2>3 DEF Before
<1>8. DOMAIN r = D
  BY <1>1
<1> QED
  BY <1>2, <1>6, <1>7, <1>8 DEF RankIsOrderFree, r, D

-----------------------------------------------------------------------------
(* Edges, the walk and the declarations of Go.                             *)

(* Every edge of the dependencies leads to another package, whose files the *)
(* ranking counts as imported (repomap/depgraph.go:11, ranker.go:117).      *)
THEOREM EdgesImport ==
  ASSUME NEW files \in Seq(RepoFile)
  PROVE  EdgesAreImports(files)
<1> SUFFICES ASSUME NEW e \in DependencyEdges(files)
             PROVE  e[1] # e[2] /\ \A i \in DOMAIN files : files[i].pkg = e[2] => ImportedBy(files, files[i]) > 0
  BY DEF EdgesAreImports
<1>1. e[1] # e[2] /\ e[2] # NoName /\ \E i \in DOMAIN files : e[2] \in ToSet(files[i].imports)
  BY DEF DependencyEdges
<1>2. ASSUME NEW i \in DOMAIN files, files[i].pkg = e[2] PROVE ImportedBy(files, files[i]) > 0
  <2> DEFINE S == {j \in DOMAIN files : e[2] \in ToSet(files[j].imports)}
  <2>1. S # {} /\ S \in SUBSET DOMAIN files
    BY <1>1
  <2>2. Importers(files, e[2]) = Cardinality(S)
    BY DEF Importers
  <2> HIDE DEF S
  <2>3. IsFiniteSet(DOMAIN files)
    BY FilesListed
  <2>4. IsFiniteSet(S)
    BY <2>1, <2>3, FS_Subset
  <2>5. Cardinality(S) \in Nat /\ Cardinality(S) # 0
    BY <2>1, <2>4, FS_CardinalityType, FS_EmptySet
  <2>6. ImportedBy(files, files[i]) = Importers(files, e[2])
    BY <1>1, <1>2 DEF ImportedBy
  <2> QED
    BY <2>2, <2>5, <2>6
<1> QED
  BY <1>1, <1>2

(* The walk finds what git lists unless the root is to be skipped, and      *)
(* besides it what git ignores or quotes.                                   *)
LEMMA WalkFinds ==
  ASSUME NEW files, NEW root
  PROVE  WalkStandsIn(files, root)
BY DEF WalkStandsIn, ScanFiles, ScanGit, ScanWalk, InSkipDir

(* Every exported declaration of a Go file is shown, of the others only the *)
(* entry points of a program, each in a group (parser_go.go:42,             *)
(* categorize.go:23).                                                       *)
THEOREM GoDeclarationsAreShown ==
  ASSUME NEW decls \in Seq(GoDecl), NEW isMain \in BOOLEAN, NEW test \in BOOLEAN
  PROVE  GoIsShown(decls, isMain, test)
<1> DEFINE EntryPoint(d) == isMain /\ d.decl = "func" /\ d.recv = NoName /\ d.name \in {"main", "init"}
           K == {i \in DOMAIN decls : decls[i].exported \/ EntryPoint(decls[i])}
           p == InTurn(K)
           syms == GoSymbols(isMain, decls)
           n == Cardinality(K)
           Kind(d) == CASE d.decl = "func"  -> IF d.recv # NoName THEN "method" ELSE "function"
                       [] d.decl = "const" -> "constant"
                       [] d.decl = "var"   -> "variable"
                       [] OTHER            -> d.decl
           tagged == [i \in DOMAIN syms |-> [kind |-> syms[i].kind, testName |-> FALSE]]
<1>1. Len(decls) \in Nat /\ DOMAIN decls = 1 .. Len(decls) /\ \A i \in DOMAIN decls : decls[i] \in GoDecl
  OBVIOUS
<1>2. K = {i \in DOMAIN decls : IF decls[i].decl = "func" THEN ExtractFunc(isMain, decls[i]) ELSE ExtractGenDecl(decls[i])}
  BY DEF ExtractFunc, ExtractGenDecl
<1>3. syms = [k \in DOMAIN p |-> [name |-> decls[p[k]].name, kind |-> Kind(decls[p[k]]),
                                  exported |-> decls[p[k]].exported]]
  BY <1>2 DEF GoSymbols
<1>4. K \in SUBSET DOMAIN decls /\ K \subseteq Nat
  BY <1>1
<1> HIDE DEF K
<1>5. IsFiniteSet(K)
  BY <1>1, <1>4, Stretch, FS_Subset
<1>6. /\ n \in Nat /\ p \in [1 .. n -> K]
      /\ \A i \in K : \E k \in 1 .. n : p[k] = i
  BY <1>4, <1>5, InTurnLists
<1> HIDE DEF p, n, syms, Kind
<1>7. /\ DOMAIN syms = 1 .. n
      /\ \A k \in 1 .. n : /\ syms[k].name = decls[p[k]].name /\ syms[k].kind = Kind(decls[p[k]])
                           /\ p[k] \in K
  BY <1>3, <1>6
<1>8. Len(syms) = n
  BY <1>3, <1>6, LenProperties
<1>9. {syms[k].name : k \in DOMAIN syms} = {decls[i].name : i \in K}
  BY <1>6, <1>7
<1>10. ASSUME NEW i \in DOMAIN syms PROVE SymbolCategory(test, tagged[i]) # "other"
  <2>1. tagged[i].kind = Kind(decls[p[i]]) /\ tagged[i].testName = FALSE /\ decls[p[i]] \in GoDecl
    BY <1>1, <1>4, <1>7
  <2>2. Kind(decls[p[i]]) \in {"method", "function", "constant", "variable", "struct", "interface", "type"}
    <3>1. decls[p[i]].decl \in {"func", "struct", "interface", "type", "const", "var"}
      BY <2>1 DEF GoDecl
    <3> QED
      BY <3>1 DEF Kind
  <2> QED
    BY <2>1, <2>2 DEF SymbolCategory
<1>11. {SymbolCategory(test, tagged[i]) : i \in DOMAIN syms} \ {"other"} = {SymbolCategory(test, tagged[i]) : i \in DOMAIN syms}
  BY <1>10
<1>12. DOMAIN tagged = DOMAIN syms
  OBVIOUS
<1> HIDE DEF tagged
<1>13. CountGroups(test, tagged) = Cardinality({SymbolCategory(test, tagged[i]) : i \in DOMAIN syms} \ {"other"})
  BY <1>11, <1>12 DEF CountGroups
<1> QED
  BY <1>8, <1>9, <1>13 DEF GoIsShown, syms, tagged, n, K

-----------------------------------------------------------------------------
(* Filters are read back as they are written.                              *)

(* The first operator that occurs is the one a filter is read by.           *)
LEMMA FirstOperatorReads ==
  ASSUME NEW s, NEW k \in 1 .. 6, Occurs(FilterOps[k], s) = {2}, \A l \in 1 .. k - 1 : Occurs(FilterOps[l], s) = {}
  PROVE  ParseFilter(s) = [op |-> FilterOps[k], key |-> SubSeq(s, 1, 1), value |-> SubSeq(s, 2 + Len(FilterOps[k]), Len(s))]
<1> DEFINE found == {l \in DOMAIN FilterOps : Occurs(FilterOps[l], s) # {}}
           k0 == CHOOSE l \in found : \A m \in found : l <= m
           at == CHOOSE i \in Occurs(FilterOps[k0], s) : \A j \in Occurs(FilterOps[k0], s) : i <= j
<1>1. DOMAIN FilterOps = 1 .. 6
  BY DEF FilterOps
<1>2. k \in found /\ \A l \in found : k <= l
  BY <1>1
<1>3. found \subseteq 1 .. 6
  BY <1>1
<1>4. ParseFilter(s) = IF found = {} THEN [op |-> <<>>, key |-> <<>>, value |-> s]
                       ELSE [op |-> FilterOps[k0], key |-> SubSeq(s, 1, at - 1), value |-> SubSeq(s, at + Len(FilterOps[k0]), Len(s))]
  BY DEF ParseFilter
<1> HIDE DEF found
<1>5. k0 = k
  <2>1. k0 \in found /\ \A m \in found : k0 <= m
    BY <1>2
  <2>2. k0 \in 1 .. 6 /\ k0 <= k /\ k <= k0
    BY <1>2, <1>3, <2>1
  <2> HIDE DEF k0
  <2> QED
    BY <2>2
<1> HIDE DEF k0
<1>6. at = 2
  <2>1. \A i \in {2} : i = 2
    OBVIOUS
  <2>2. 2 \in Occurs(FilterOps[k], s) /\ \A j \in Occurs(FilterOps[k], s) : 2 <= j
    OBVIOUS
  <2>3. at \in Occurs(FilterOps[k], s)
    BY <1>5, <2>2
  <2> QED
    BY <2>3
<1> HIDE DEF at
<1> QED
  BY <1>2, <1>4, <1>5, <1>6

(* Where an operator of two characters, or of one, occurs in a filter.      *)
LEMMA OperatorsOccur ==
  ASSUME NEW s, Len(s) \in Nat, NEW op, NEW i
  PROVE  /\ Len(op) = 2 /\ DOMAIN op = {1, 2}
              => (i \in Occurs(op, s) <=> i \in 1 .. Len(s) - 1 /\ s[i] = op[1] /\ s[i + 1] = op[2])
         /\ Len(op) = 1 /\ DOMAIN op = {1} => (i \in Occurs(op, s) <=> i \in 1 .. Len(s) /\ s[i] = op[1])
<1> DEFINE n == Len(s)
<1>1. i \in Occurs(op, s) <=> i \in 1 .. n - Len(op) + 1 /\ \A k \in DOMAIN op : s[i + k - 1] = op[k]
  BY DEF Occurs
<1>2. n \in Nat
  OBVIOUS
<1> HIDE DEF n
<1>3. \A m \in 1 .. n : m + 1 - 1 = m /\ m + 2 - 1 = m + 1
  BY <1>2
<1>4. n - 2 + 1 = n - 1 /\ n - 1 + 1 = n /\ (i \in 1 .. n - 1 => i \in 1 .. n)
  BY <1>2
<1>5. Len(op) = 2 /\ DOMAIN op = {1, 2} => (i \in Occurs(op, s) <=> i \in 1 .. n - 1 /\ s[i] = op[1] /\ s[i + 1] = op[2])
  BY <1>1, <1>3, <1>4
<1>6. Len(op) = 1 /\ DOMAIN op = {1} => (i \in Occurs(op, s) <=> i \in 1 .. n /\ s[i] = op[1])
  BY <1>1, <1>3, <1>4
<1> QED
  BY <1>5, <1>6 DEF n

(* What a key, an operator and a value become when they are written in one. *)
LEMMA WrittenFilter ==
  ASSUME NEW S, NEW key \in S, NEW op \in Seq(S), NEW v \in S
  PROVE  LET s == <<key>> \o op \o <<v>> IN
         /\ Len(s) = Len(op) + 2 /\ s[1] = key /\ s[Len(op) + 2] = v
         /\ \A i \in 1 .. Len(op) : s[i + 1] = op[i]
         /\ SubSeq(s, 1, 1) = <<key>> /\ SubSeq(s, 2 + Len(op), Len(s)) = <<v>>
<1> DEFINE h == <<key>> \o op
           s == h \o <<v>>
           n == Len(op)
<1>1. /\ <<key>> \in Seq(S) /\ Len(<<key>>) = 1 /\ <<key>>[1] = key
      /\ <<v>> \in Seq(S) /\ Len(<<v>>) = 1 /\ <<v>>[1] = v
  OBVIOUS
<1>2. n \in Nat
  BY LenProperties
<1>3. h \in Seq(S) /\ Len(h) = n + 1 /\ \A i \in 1 .. 1 + n : h[i] = IF i <= 1 THEN <<key>>[i] ELSE op[i - 1]
  BY <1>1, <1>2, ConcatProperties
<1> HIDE DEF h, n
<1>4. s \in Seq(S) /\ Len(s) = n + 2 /\ \A i \in 1 .. (n + 1) + 1 : s[i] = IF i <= n + 1 THEN h[i] ELSE <<v>>[i - (n + 1)]
  BY <1>1, <1>2, <1>3, ConcatProperties
<1> HIDE DEF s
<1>5. s[1] = key /\ s[n + 2] = v /\ \A i \in 1 .. n : s[i + 1] = op[i]
  <2>1. s[1] = key
    BY <1>1, <1>2, <1>3, <1>4
  <2>2. s[n + 2] = v
    <3>1. n + 2 \in 1 .. (n + 1) + 1 /\ ~(n + 2 <= n + 1) /\ (n + 2) - (n + 1) = 1
      BY <1>2
    <3> QED
      BY <1>1, <1>4, <3>1
  <2>3. ASSUME NEW i \in 1 .. n PROVE s[i + 1] = op[i]
    <3>1. i + 1 \in 1 .. (n + 1) + 1 /\ i + 1 <= n + 1 /\ i + 1 \in 1 .. 1 + n /\ ~(i + 1 <= 1) /\ (i + 1) - 1 = i
      BY <1>2
    <3> QED
      BY <1>3, <1>4, <3>1
  <2> QED
    BY <2>1, <2>2, <2>3
<1>6. ASSUME NEW k \in 1 .. n + 2 PROVE SubSeq(s, k, k) = <<s[k]>>
  <2>1. k \in 1 .. Len(s) /\ k \in k .. Len(s) /\ k \in Int /\ k - 1 \in Int /\ k - 1 < k
    BY <1>2, <1>4
  <2>2. SubSeq(s, k, k) = SubSeq(s, k, k - 1) \o <<s[k]>>
    BY <1>4, <2>1, SubSeqRecursiveSecond
  <2>3. SubSeq(s, k, k - 1) = <<>>
    BY <2>1, SubSeqEmpty
  <2>4. <<s[k]>> \in Seq(S)
    BY <1>4, <2>1, ElementOfSeq
  <2>5. <<>> \o <<s[k]>> = <<s[k]>>
    BY <2>4, ConcatEmptySeq
  <2> QED
    BY <2>2, <2>3, <2>5
<1>7. SubSeq(s, 1, 1) = <<key>> /\ SubSeq(s, 2 + n, n + 2) = <<v>>
  <2>1. 1 \in 1 .. n + 2 /\ n + 2 \in 1 .. n + 2 /\ 2 + n = n + 2
    BY <1>2
  <2> QED
    BY <1>5, <1>6, <2>1
<1> QED
  BY <1>4, <1>5, <1>7 DEF s, h, n

(* A filter with an operator of two characters is read back.                *)
LEMMA LongFiltersReadBack ==
  ASSUME NEW key, key \notin {">", "<", "=", "!"}, NEW k \in 1 .. 3
  PROVE  ParseFilter(<<key>> \o FilterOps[k] \o <<"value">>) = [op |-> FilterOps[k], key |-> <<key>>, value |-> <<"value">>]
<1> DEFINE a == IF k = 1 THEN ">" ELSE IF k = 2 THEN "<" ELSE "!"
           s == <<key>> \o FilterOps[k] \o <<"value">>
           S == {key, a, "=", "value"}
<1>1. FilterOps[1] = <<">", "=">> /\ FilterOps[2] = <<"<", "=">> /\ FilterOps[3] = <<"!", "=">>
  BY DEF FilterOps
<1>2. FilterOps[k] = <<a, "=">>
  BY <1>1
<1>3. FilterOps[k] \in Seq(S) /\ Len(FilterOps[k]) = 2 /\ FilterOps[k][1] = a /\ FilterOps[k][2] = "="
  BY <1>2
<1>5. /\ Len(s) = Len(FilterOps[k]) + 2 /\ s[1] = key /\ s[Len(FilterOps[k]) + 2] = "value"
      /\ \A i \in 1 .. Len(FilterOps[k]) : s[i + 1] = FilterOps[k][i]
      /\ SubSeq(s, 1, 1) = <<key>> /\ SubSeq(s, 2 + Len(FilterOps[k]), Len(s)) = <<"value">>
  <2>1. key \in S /\ "value" \in S
    OBVIOUS
  <2> HIDE DEF S
  <2> QED
    BY <1>3, <2>1, WrittenFilter
<1> HIDE DEF s
<1>4. Len(s) = 4 /\ s[1] = key /\ s[2] = a /\ s[3] = "=" /\ s[4] = "value"
  BY <1>3, <1>5
<1>6. ASSUME NEW c, NEW i PROVE i \in Occurs(<<c, "=">>, s) <=> i \in 1 .. 3 /\ s[i] = c /\ s[i + 1] = "="
  <2> DEFINE op == <<c, "=">>
  <2>1. Len(op) = 2 /\ DOMAIN op = {1, 2} /\ op[1] = c /\ op[2] = "="
    OBVIOUS
  <2> HIDE DEF op
  <2>2. Len(s) \in Nat /\ Len(s) - 1 = 3
    BY <1>4
  <2>3. i \in Occurs(op, s) <=> i \in 1 .. Len(s) - 1 /\ s[i] = op[1] /\ s[i + 1] = op[2]
    BY ONLY <2>1, <2>2, OperatorsOccur
  <2> QED
    BY <2>1, <2>2, <2>3 DEF op
<1>7. \A c \in {">", "<", "!"} : Occurs(<<c, "=">>, s) = IF a = c THEN {2} ELSE {}
  <2> SUFFICES ASSUME NEW c \in {">", "<", "!"}, NEW i \in 1 .. 3
               PROVE  s[i] = c /\ s[i + 1] = "=" <=> a = c /\ i = 2
    BY <1>6
  <2>1. CASE i = 1
    BY <2>1, <1>4
  <2>2. CASE i = 2
    BY <2>2, <1>4
  <2>3. CASE i = 3
    BY <2>3, <1>4
  <2> QED
    BY <2>1, <2>2, <2>3
<1>8. Occurs(FilterOps[k], s) = {2} /\ \A l \in 1 .. k - 1 : Occurs(FilterOps[l], s) = {}
  <2>1. CASE k = 1
    BY <2>1, <1>1, <1>7
  <2>2. CASE k = 2
    BY <2>2, <1>1, <1>7
  <2>3. CASE k = 3
    BY <2>3, <1>1, <1>7
  <2> QED
    BY <2>1, <2>2, <2>3
<1>9. ParseFilter(s) = [op |-> FilterOps[k], key |-> SubSeq(s, 1, 1), value |-> SubSeq(s, 2 + Len(FilterOps[k]), Len(s))]
  <2>1. k \in 1 .. 6
    OBVIOUS
  <2>2. Occurs(FilterOps[k], s) = {2}
    BY <1>8
  <2>3. \A l \in 1 .. k - 1 : Occurs(FilterOps[l], s) = {}
    BY <1>8
  <2> QED
    BY ONLY <2>1, <2>2, <2>3, FirstOperatorReads
<1> QED
  BY <1>5, <1>9 DEF s

(* A filter with an operator of one character is read back.                 *)
LEMMA ShortFiltersReadBack ==
  ASSUME NEW key, key \notin {">", "<", "=", "!"}, NEW k \in 4 .. 6
  PROVE  ParseFilter(<<key>> \o FilterOps[k] \o <<"value">>) = [op |-> FilterOps[k], key |-> <<key>>, value |-> <<"value">>]
<1> DEFINE a == IF k = 4 THEN ">" ELSE IF k = 5 THEN "<" ELSE "="
           s == <<key>> \o FilterOps[k] \o <<"value">>
           S == {key, a, "value"}
<1>1. /\ FilterOps[1] = <<">", "=">> /\ FilterOps[2] = <<"<", "=">> /\ FilterOps[3] = <<"!", "=">>
      /\ FilterOps[4] = <<">">> /\ FilterOps[5] = <<"<">> /\ FilterOps[6] = <<"=">>
  BY DEF FilterOps
<1>2. FilterOps[k] = <<a>>
  BY <1>1
<1>3. FilterOps[k] \in Seq(S) /\ Len(FilterOps[k]) = 1 /\ FilterOps[k][1] = a
  BY <1>2
<1>5. /\ Len(s) = Len(FilterOps[k]) + 2 /\ s[1] = key /\ s[Len(FilterOps[k]) + 2] = "value"
      /\ \A i \in 1 .. Len(FilterOps[k]) : s[i + 1] = FilterOps[k][i]
      /\ SubSeq(s, 1, 1) = <<key>> /\ SubSeq(s, 2 + Len(FilterOps[k]), Len(s)) = <<"value">>
  <2>1. key \in S /\ "value" \in S
    OBVIOUS
  <2> HIDE DEF S
  <2> QED
    BY <1>3, <2>1, WrittenFilter
<1> HIDE DEF s
<1>4. Len(s) = 3 /\ s[1] = key /\ s[2] = a /\ s[3] = "value"
  BY <1>3, <1>5
<1>6. ASSUME NEW c, NEW i
      PROVE  /\ i \in Occurs(<<c, "=">>, s) <=> i \in 1 .. 2 /\ s[i] = c /\ s[i + 1] = "="
             /\ i \in Occurs(<<c>>, s) <=> i \in 1 .. 3 /\ s[i] = c
  <2> DEFINE op == <<c, "=">>
             po == <<c>>
  <2>1. Len(op) = 2 /\ DOMAIN op = {1, 2} /\ op[1] = c /\ op[2] = "="
    OBVIOUS
  <2>2. Len(po) = 1 /\ DOMAIN po = {1} /\ po[1] = c
    OBVIOUS
  <2> HIDE DEF op, po
  <2>3. Len(s) \in Nat /\ Len(s) - 1 = 2 /\ Len(s) = 3
    BY <1>4
  <2>4. i \in Occurs(op, s) <=> i \in 1 .. Len(s) - 1 /\ s[i] = op[1] /\ s[i + 1] = op[2]
    BY ONLY <2>1, <2>3, OperatorsOccur
  <2>5. i \in Occurs(po, s) <=> i \in 1 .. Len(s) /\ s[i] = po[1]
    BY ONLY <2>2, <2>3, OperatorsOccur
  <2> QED
    BY <2>1, <2>2, <2>3, <2>4, <2>5 DEF op, po
<1>7. \A c \in {">", "<", "!"} : Occurs(<<c, "=">>, s) = {}
  <2> SUFFICES ASSUME NEW c \in {">", "<", "!"}, NEW i \in 1 .. 2
               PROVE  ~(s[i] = c /\ s[i + 1] = "=")
    BY <1>6
  <2>1. CASE i = 1
    BY <2>1, <1>4
  <2>2. CASE i = 2
    BY <2>2, <1>4
  <2> QED
    BY <2>1, <2>2
<1>8. \A c \in {">", "<", "="} : Occurs(<<c>>, s) = IF a = c THEN {2} ELSE {}
  <2> SUFFICES ASSUME NEW c \in {">", "<", "="}, NEW i
               PROVE  i \in Occurs(<<c>>, s) <=> a = c /\ i = 2
    <3> HIDE DEF a
    <3> QED
      OBVIOUS
  <2>0. i \in Occurs(<<c>>, s) <=> i \in 1 .. 3 /\ s[i] = c
    BY <1>6
  <2>1. CASE i = 1
    BY <2>0, <2>1, <1>4
  <2>2. CASE i = 2
    BY <2>0, <2>2, <1>4
  <2>3. CASE i = 3
    BY <2>0, <2>3, <1>4
  <2>4. CASE i \notin 1 .. 3
    BY <2>0, <2>4
  <2>5. i \in 1 .. 3 => i = 1 \/ i = 2 \/ i = 3
    OBVIOUS
  <2> QED
    BY <2>1, <2>2, <2>3, <2>4, <2>5
<1>9. Occurs(FilterOps[k], s) = {2} /\ \A l \in 1 .. k - 1 : Occurs(FilterOps[l], s) = {}
  <2>1. CASE k = 4
    BY <2>1, <1>1, <1>7, <1>8
  <2>2. CASE k = 5
    BY <2>2, <1>1, <1>7, <1>8
  <2>3. CASE k = 6
    BY <2>3, <1>1, <1>7, <1>8
  <2> QED
    BY <2>1, <2>2, <2>3
<1>10. ParseFilter(s) = [op |-> FilterOps[k], key |-> SubSeq(s, 1, 1), value |-> SubSeq(s, 2 + Len(FilterOps[k]), Len(s))]
  <2>1. k \in 1 .. 6
    OBVIOUS
  <2>2. Occurs(FilterOps[k], s) = {2}
    BY <1>9
  <2>3. \A l \in 1 .. k - 1 : Occurs(FilterOps[l], s) = {}
    BY <1>9
  <2> QED
    BY ONLY <2>1, <2>2, <2>3, FirstOperatorReads
<1> QED
  BY <1>5, <1>10 DEF s

(* A filter is read back as it was written, although some operators are     *)
(* parts of others, and matches what its negation leaves (inventory.go:146).*)
THEOREM FiltersAreReadBack ==
  ASSUME NEW f \in CountedFile, NEW key \in STRING \ {">", "<", "=", "!"}, NEW n \in Nat
  PROVE  FiltersReadBack(f, key, n)
<1> DEFINE neg == << <<"<">>, <<">">>, <<"=">>, <<"<", "=">>, <<">", "=">>, <<"!", "=">> >>
<1>1. DOMAIN FilterOps = 1 .. 6
  BY DEF FilterOps
<1>2. ASSUME NEW k \in 1 .. 6
      PROVE  ParseFilter(<<key>> \o FilterOps[k] \o <<"value">>) = [op |-> FilterOps[k], key |-> <<key>>, value |-> <<"value">>]
  <2>1. CASE k \in 1 .. 3
    BY <2>1, LongFiltersReadBack
  <2>2. CASE k \in 4 .. 6
    BY <2>2, ShortFiltersReadBack
  <2> QED
    BY <2>1, <2>2
<1>3. ASSUME NEW k \in 1 .. 6, key \in {"lines", "imports"}
      PROVE  /\ MatchesFilter(f, FilterOps[k], key, TRUE, n, FALSE) <=> ~MatchesFilter(f, neg[k], key, TRUE, n, FALSE)
             /\ ~MatchesFilter(f, FilterOps[k], key, FALSE, n, FALSE)
  <2> DEFINE v == IF key = "lines" THEN f.lines ELSE f.imports
  <2>1. v \in Nat /\ key # "path"
    BY <1>3 DEF CountedFile
  <2> DEFINE Told(op) == CASE op = <<">">> -> v > n [] op = <<">", "=">> -> v >= n
                           [] op = <<"<">> -> v < n [] op = <<"<", "=">> -> v <= n
                           [] op = <<"=">> -> v = n [] OTHER -> v # n
  <2>2. \A op : MatchesFilter(f, op, key, TRUE, n, FALSE) <=> Told(op)
    BY <1>3, <2>1 DEF MatchesFilter
  <2>8. ~MatchesFilter(f, FilterOps[k], key, FALSE, n, FALSE)
    BY <2>1 DEF MatchesFilter
  <2>3. /\ FilterOps[1] = <<">", "=">> /\ FilterOps[2] = <<"<", "=">> /\ FilterOps[3] = <<"!", "=">>
        /\ FilterOps[4] = <<">">> /\ FilterOps[5] = <<"<">> /\ FilterOps[6] = <<"=">>
    BY DEF FilterOps
  <2>4. /\ neg[1] = <<"<">> /\ neg[2] = <<">">> /\ neg[3] = <<"=">>
        /\ neg[4] = <<"<", "=">> /\ neg[5] = <<">", "=">> /\ neg[6] = <<"!", "=">>
    OBVIOUS
  <2> HIDE DEF v, neg
  <2>5. /\ Told(<<">">>) <=> v > n
        /\ Told(<<"<">>) <=> v < n
        /\ Told(<<"=">>) <=> v = n
        /\ Told(<<">", "=">>) <=> v >= n
        /\ Told(<<"<", "=">>) <=> v <= n
        /\ Told(<<"!", "=">>) <=> v # n
    OBVIOUS
  <2> HIDE DEF Told
  <2> DEFINE op == FilterOps[k]
             no == neg[k]
  <2>6. \/ op = <<">">> /\ no = <<"<", "=">>
        \/ op = <<"<">> /\ no = <<">", "=">>
        \/ op = <<"=">> /\ no = <<"!", "=">>
        \/ op = <<">", "=">> /\ no = <<"<">>
        \/ op = <<"<", "=">> /\ no = <<">">>
        \/ op = <<"!", "=">> /\ no = <<"=">>
    BY <2>3, <2>4
  <2> HIDE DEF op, no
  <2>7. Told(op) <=> ~Told(no)
    BY <2>1, <2>5, <2>6
  <2> QED
    BY <2>2, <2>7, <2>8 DEF op, no
<1> HIDE DEF neg
<1> QED
  BY <1>1, <1>2, <1>3 DEF FiltersReadBack, neg

-----------------------------------------------------------------------------
(* Induction over the numbers up to n, and functions that walk from one to the next. *)

(* What holds of zero and is handed from number to number holds up to n.    *)
LEMMA Climb ==
  ASSUME NEW n \in Nat, NEW S, 0 \in S, \A k \in 1 .. n : k - 1 \in S => k \in S
  PROVE  \A k \in 0 .. n : k \in S
<1> DEFINE T == {k \in 0 .. n : k \notin S}
           U == {0 .. k : k \in T}
<1> SUFFICES ASSUME T # {} PROVE FALSE
  OBVIOUS
<1>1. ASSUME NEW k \in T PROVE 0 .. k \in FiniteSubsetsOf(Nat)
  <2>1. k \in Int /\ 0 \in Int
    OBVIOUS
  <2>2. IsFiniteSet(0 .. k)
    BY <2>1, FS_Interval
  <2>3. 0 .. k \in SUBSET Nat
    BY <2>1
  <2> QED
    BY <2>2, <2>3 DEF FiniteSubsetsOf
<1>2. U \subseteq FiniteSubsetsOf(Nat) /\ U # {}
  BY <1>1
<1>3. PICK x \in U : \A y \in U : ~(<<y, x>> \in StrictSubsetOrdering(Nat))
  <2>1. IsWellFoundedOn(StrictSubsetOrdering(Nat), FiniteSubsetsOf(Nat))
    BY FS_StrictSubsetOrderingWellFounded
  <2> HIDE DEF U
  <2> QED
    BY <1>2, <2>1, WFMin
<1>4. PICK a \in T : x = 0 .. a
  BY <1>3
<1>5. a \in 1 .. n /\ a - 1 \in 0 .. n
  OBVIOUS
<1>6. a - 1 \in T
  BY <1>5
<1>7. 0 .. a - 1 \in U
  BY <1>6
<1>8. 0 .. a - 1 \in SUBSET (0 .. a) /\ a \in 0 .. a /\ a \notin 0 .. a - 1
  BY <1>5
<1>9. <<0 .. a - 1, 0 .. a>> \in StrictSubsetOrdering(Nat)
  <2>1. 0 .. a \in SUBSET Nat /\ 0 .. a - 1 \in SUBSET Nat
    BY <1>5
  <2>2. 0 .. a - 1 \subseteq 0 .. a /\ 0 .. a - 1 # 0 .. a
    BY <1>8
  <2> QED
    BY <2>1, <2>2 DEF StrictSubsetOrdering
<1> QED
  BY <1>3, <1>4, <1>7, <1>9

(* Steps from each number to the next, and a walk that takes them.          *)
Steps(n, S) == [1 .. n -> [S -> S]]
Walks(f, n, S, a, g) == f \in [0 .. n -> S] /\ f[0] = a /\ \A k \in 1 .. n : f[k] = g[k][f[k - 1]]

(* A step from each number to the next can be iterated.                     *)
LEMMA StepByStep ==
  ASSUME NEW n \in Nat, NEW S, NEW a \in S, NEW g \in Steps(n, S)
  PROVE  \E f : Walks(f, n, S, a, g)
<1> DEFINE Goes(m, f) == f[0] = a /\ \A k \in 1 .. m : f[k] = g[k][f[k - 1]]
           Far == {m \in 0 .. n : \E f \in [0 .. m -> S] : Goes(m, f)}
<1>0. g \in [1 .. n -> [S -> S]]
  BY DEF Steps
<1>1. 0 \in Far
  <2> DEFINE f == [k \in 0 .. 0 |-> a]
  <2>1. f \in [0 .. 0 -> S] /\ Goes(0, f)
    OBVIOUS
  <2>2. 0 \in 0 .. n
    OBVIOUS
  <2> QED
    BY <2>1, <2>2
<1>2. ASSUME NEW m \in 1 .. n, m - 1 \in Far PROVE m \in Far
  <2>1. PICK f \in [0 .. m - 1 -> S] : Goes(m - 1, f)
    BY <1>2
  <2> DEFINE h == [k \in 0 .. m |-> IF k = m THEN g[m][f[m - 1]] ELSE f[k]]
  <2>2. f[m - 1] \in S /\ g[m][f[m - 1]] \in S
    BY <1>0
  <2>3. \A k \in 0 .. m : k # m => k \in 0 .. m - 1
    OBVIOUS
  <2>4. h \in [0 .. m -> S]
    BY <2>2, <2>3
  <2>5. (\A k \in 0 .. m - 1 : h[k] = f[k]) /\ h[m] = g[m][f[m - 1]]
    OBVIOUS
  <2> HIDE DEF h
  <2>6. h[0] = a
    BY <2>1, <2>5
  <2>7. ASSUME NEW k \in 1 .. m PROVE h[k] = g[k][h[k - 1]]
    <3>1. k - 1 \in 0 .. m - 1
      OBVIOUS
    <3>2. h[k - 1] = f[k - 1]
      BY <2>5, <3>1
    <3>3. CASE k = m
      BY <3>2, <3>3, <2>5
    <3>4. CASE k # m
      <4>1. k \in 1 .. m - 1 /\ k \in 0 .. m - 1
        BY <3>4
      <4> QED
        BY <4>1, <3>2, <2>1, <2>5
    <3> QED
      BY <3>3, <3>4
  <2> QED
    <3>1. \A k \in 1 .. m : h[k] = g[k][h[k - 1]]
      BY <2>7
    <3>2. m \in 0 .. n
      OBVIOUS
    <3> QED
      BY <2>4, <2>6, <3>1, <3>2
<1> HIDE DEF Far
<1>3. n \in Far
  <2>1. \A k \in 1 .. n : k - 1 \in Far => k \in Far
    BY <1>2
  <2>2. n \in 0 .. n
    OBVIOUS
  <2> QED
    BY <1>1, <2>1, <2>2, Climb
<1> QED
  BY <1>3 DEF Far, Walks

(* A function that takes such steps as long as it stays in S walks.         *)
LEMMA KeepsWalking ==
  ASSUME NEW n \in Nat, NEW S, NEW a \in S, NEW g \in Steps(n, S), NEW F,
         F = [k \in 0 .. n |-> F[k]], F[0] = a, \A k \in 1 .. n : F[k - 1] \in S => F[k] = g[k][F[k - 1]]
  PROVE  Walks(F, n, S, a, g)
<1> DEFINE T == {l \in 0 .. n : F[l] \in S}
<1>0. g \in [1 .. n -> [S -> S]]
  BY DEF Steps
<1>1. 0 \in T
  OBVIOUS
<1>2. ASSUME NEW k \in 1 .. n, k - 1 \in T PROVE k \in T
  <2>1. F[k - 1] \in S /\ k \in 0 .. n
    BY <1>2
  <2>2. g[k][F[k - 1]] \in S
    BY <1>0, <2>1
  <2> QED
    BY <2>1, <2>2
<1> HIDE DEF T
<1>3. \A k \in 1 .. n : k - 1 \in T => k \in T
  BY <1>2
<1>4. \A k \in 0 .. n : k \in T
  BY <1>1, <1>3, Climb
<1>5. \A k \in 0 .. n : F[k] \in S
  BY <1>4 DEF T
<1>6. F \in [0 .. n -> S]
  BY <1>5
<1>7. \A k \in 1 .. n : k - 1 \in 0 .. n
  OBVIOUS
<1> QED
  BY <1>5, <1>6, <1>7 DEF Walks

-----------------------------------------------------------------------------
(* Sums, and what the second and third phase of the budget give.           *)

(* A list is a function on its places.                                      *)
LEMMA ListOf ==
  ASSUME NEW n \in Nat, NEW S, NEW s, s = [k \in 1 .. n |-> s[k]], \A k \in 1 .. n : s[k] \in S
  PROVE  s \in Seq(S) /\ Len(s) = n /\ DOMAIN s = 1 .. n
<1>1. s \in [1 .. n -> S]
  OBVIOUS
<1>2. s \in Seq(S)
  BY <1>1, SeqDef
<1>3. DOMAIN s = 1 .. n
  BY <1>1
<1> QED
  BY <1>2, <1>3, LenProperties

(* The sums of a list of numbers, one after the other.                      *)
LEMMA SumsAdd ==
  ASSUME NEW s, s \in Seq(Nat)
  PROVE  /\ Len(s) \in Nat /\ Sums(s) \in [0 .. Len(s) -> Nat] /\ Sums(s)[0] = 0
         /\ \A k \in 1 .. Len(s) : Sums(s)[k] = Sums(s)[k - 1] + s[k]
<1> DEFINE n == Len(s)
           Rule(f) == f = [k \in 0 .. n |-> IF k = 0 THEN 0 ELSE f[k - 1] + s[k]]
           g == [k \in 1 .. n |-> [x \in Nat |-> x + s[k]]]
           F == CHOOSE f : Rule(f)
<1>1. n \in Nat /\ (\A k \in 1 .. n : s[k] \in Nat) /\ 0 \in Nat
  BY LenProperties
<1>2. Sums(s) = F
  BY DEF Sums
<1> HIDE DEF n
<1>3. g \in Steps(n, Nat)
  BY <1>1 DEF Steps
<1>4. \A k \in 1 .. n : \A x \in Nat : g[k][x] = x + s[k]
  OBVIOUS
<1> HIDE DEF g
<1>5. PICK h : Walks(h, n, Nat, 0, g)
  BY <1>1, <1>3, StepByStep
<1>6. h \in [0 .. n -> Nat] /\ h[0] = 0 /\ \A k \in 1 .. n : h[k] = g[k][h[k - 1]]
  BY <1>5 DEF Walks
<1>7. \A k \in 1 .. n : k - 1 \in 0 .. n /\ k \in 0 .. n /\ k # 0
  BY <1>1
<1>8. \A k \in 1 .. n : h[k] = h[k - 1] + s[k]
  BY <1>4, <1>6, <1>7
<1>9. Rule(h)
  <2>1. \A k \in 0 .. n : k # 0 => k \in 1 .. n
    OBVIOUS
  <2>2. \A k \in 0 .. n : h[k] = IF k = 0 THEN 0 ELSE h[k - 1] + s[k]
    BY <1>6, <1>8, <2>1
  <2> QED
    BY <2>2, <1>6
<1> HIDE DEF Rule
<1>10. Rule(F)
  BY <1>9
<1> HIDE DEF F
<1>11. /\ F[0] = 0 /\ F = [k \in 0 .. n |-> F[k]]
       /\ \A k \in 1 .. n : F[k] = F[k - 1] + s[k]
  <2>1. F = [k \in 0 .. n |-> IF k = 0 THEN 0 ELSE F[k - 1] + s[k]]
    BY <1>10 DEF Rule
  <2>2. 0 \in 0 .. n
    BY <1>1
  <2> QED
    BY <2>1, <2>2, <1>7
<1>12. \A k \in 1 .. n : F[k - 1] \in Nat => F[k] = g[k][F[k - 1]]
  BY <1>4, <1>11
<1>13. Walks(F, n, Nat, 0, g)
  BY <1>1, <1>3, <1>11, <1>12, KeepsWalking
<1>14. F \in [0 .. n -> Nat]
  BY <1>13 DEF Walks
<1> QED
  BY <1>1, <1>2, <1>11, <1>14 DEF n

(* The bytes after each file of the second phase.                           *)
LEMMA UsedSpends ==
  ASSUME NEW ranked, NEW n \in Nat, NEW bytes \in Nat, HeaderSums(ranked)[n] \in Nat,
         \A k \in 1 .. n : ranked[k].groups \in Nat /\ ranked[k].symbols \in Nat
  PROVE  /\ Used(ranked, n, bytes) \in [0 .. n -> Int] /\ Used(ranked, n, bytes)[0] = HeaderSums(ranked)[n]
         /\ \A k \in 1 .. n : Used(ranked, n, bytes)[k] = Detail(Used(ranked, n, bytes)[k - 1], ranked[k], bytes).used
<1> DEFINE a == HeaderSums(ranked)[n]
           Rule(f) == f = [k \in 0 .. n |-> IF k = 0 THEN a ELSE Detail(f[k - 1], ranked[k], bytes).used]
           g == [k \in 1 .. n |-> [x \in Int |-> Detail(x, ranked[k], bytes).used]]
           F == CHOOSE f : Rule(f)
<1>1. a \in Int
  OBVIOUS
<1>2. Used(ranked, n, bytes) = F
  BY DEF Used
<1> HIDE DEF a
<1>3. g \in Steps(n, Int)
  <2>1. ASSUME NEW k \in 1 .. n, NEW x \in Int PROVE Detail(x, ranked[k], bytes).used \in Int
    BY DEF Detail, SummaryCost, SymbolCost
  <2> QED
    BY <2>1 DEF Steps
<1>4. \A k \in 1 .. n : \A x \in Int : g[k][x] = Detail(x, ranked[k], bytes).used
  OBVIOUS
<1> HIDE DEF g
<1>5. PICK h : Walks(h, n, Int, a, g)
  BY <1>1, <1>3, StepByStep
<1>6. h \in [0 .. n -> Int] /\ h[0] = a /\ \A k \in 1 .. n : h[k] = g[k][h[k - 1]]
  BY <1>5 DEF Walks
<1>7. \A k \in 1 .. n : k - 1 \in 0 .. n /\ k \in 0 .. n /\ k # 0
  OBVIOUS
<1>8. \A k \in 1 .. n : h[k] = Detail(h[k - 1], ranked[k], bytes).used
  BY <1>4, <1>6, <1>7
<1>9. Rule(h)
  <2>1. \A k \in 0 .. n : k # 0 => k \in 1 .. n
    OBVIOUS
  <2>2. \A k \in 0 .. n : h[k] = IF k = 0 THEN a ELSE Detail(h[k - 1], ranked[k], bytes).used
    BY <1>6, <1>8, <2>1
  <2> QED
    BY <2>2, <1>6
<1> HIDE DEF Rule
<1>10. Rule(F)
  BY <1>9
<1> HIDE DEF F
<1>11. /\ F[0] = a /\ F = [k \in 0 .. n |-> F[k]]
       /\ \A k \in 1 .. n : F[k] = Detail(F[k - 1], ranked[k], bytes).used
  <2>1. F = [k \in 0 .. n |-> IF k = 0 THEN a ELSE Detail(F[k - 1], ranked[k], bytes).used]
    BY <1>10 DEF Rule
  <2>2. 0 \in 0 .. n
    OBVIOUS
  <2> QED
    BY <2>1, <2>2, <1>7
<1>12. \A k \in 1 .. n : F[k - 1] \in Int => F[k] = g[k][F[k - 1]]
  BY <1>4, <1>11
<1>13. Walks(F, n, Int, a, g)
  BY <1>1, <1>3, <1>11, <1>12, KeepsWalking
<1>14. F \in [0 .. n -> Int]
  BY <1>13 DEF Walks
<1> QED
  BY <1>2, <1>11, <1>14 DEF a

(* The bytes and the files of the third phase.                              *)
Spending == [used : Int, promoted : Nat]
ThirdPhase(third, ranked, n, levels, bytes) ==
  /\ third \in [0 .. n -> Spending]
  /\ third[0] = [used |-> Used(ranked, n, bytes)[n], promoted |-> 0]
  /\ \A k \in 1 .. n : third[k] = Promote(third[k - 1], ranked[k], levels[k], bytes)

(* It goes on from the second phase, one file after the other.              *)
LEMMA PromotedCounts ==
  ASSUME NEW ranked, NEW n \in Nat, NEW bytes \in Nat, NEW levels, Used(ranked, n, bytes)[n] \in Int,
         \A k \in 1 .. n : ranked[k].fields \in Nat /\ levels[k] \in Int
  PROVE  ThirdPhase(Promoted(ranked, n, levels, bytes), ranked, n, levels, bytes)
<1> DEFINE a == [used |-> Used(ranked, n, bytes)[n], promoted |-> 0]
           S == Spending
           Rule(f) == f = [k \in 0 .. n |-> IF k = 0 THEN a ELSE Promote(f[k - 1], ranked[k], levels[k], bytes)]
           g == [k \in 1 .. n |-> [x \in S |-> Promote(x, ranked[k], levels[k], bytes)]]
           F == CHOOSE f : Rule(f)
<1>1. a \in S
  BY DEF Spending
<1>2. Promoted(ranked, n, levels, bytes) = F
  BY DEF Promoted
<1> HIDE DEF a
<1>3. g \in Steps(n, S)
  <2>1. ASSUME NEW k \in 1 .. n, NEW x \in S PROVE Promote(x, ranked[k], levels[k], bytes) \in S
    BY DEF Promote, Spending
  <2> HIDE DEF S
  <2> QED
    BY <2>1 DEF Steps
<1>4. \A k \in 1 .. n : \A x \in S : g[k][x] = Promote(x, ranked[k], levels[k], bytes)
  OBVIOUS
<1> HIDE DEF g, S
<1>5. PICK h : Walks(h, n, S, a, g)
  BY <1>1, <1>3, StepByStep
<1>6. h \in [0 .. n -> S] /\ h[0] = a /\ \A k \in 1 .. n : h[k] = g[k][h[k - 1]]
  BY <1>5 DEF Walks
<1>7. \A k \in 1 .. n : k - 1 \in 0 .. n /\ k \in 0 .. n /\ k # 0
  OBVIOUS
<1>8. \A k \in 1 .. n : h[k] = Promote(h[k - 1], ranked[k], levels[k], bytes)
  BY <1>4, <1>6, <1>7
<1>9. Rule(h)
  <2>1. \A k \in 0 .. n : k # 0 => k \in 1 .. n
    OBVIOUS
  <2>2. \A k \in 0 .. n : h[k] = IF k = 0 THEN a ELSE Promote(h[k - 1], ranked[k], levels[k], bytes)
    BY <1>6, <1>8, <2>1
  <2> QED
    BY <2>2, <1>6
<1> HIDE DEF Rule
<1>10. Rule(F)
  BY <1>9
<1> HIDE DEF F
<1>11. /\ F[0] = a /\ F = [k \in 0 .. n |-> F[k]]
       /\ \A k \in 1 .. n : F[k] = Promote(F[k - 1], ranked[k], levels[k], bytes)
  <2>1. F = [k \in 0 .. n |-> IF k = 0 THEN a ELSE Promote(F[k - 1], ranked[k], levels[k], bytes)]
    BY <1>10 DEF Rule
  <2>2. 0 \in 0 .. n
    OBVIOUS
  <2> QED
    BY <2>1, <2>2, <1>7
<1>12. \A k \in 1 .. n : F[k - 1] \in S => F[k] = g[k][F[k - 1]]
  BY <1>4, <1>11
<1>13. Walks(F, n, S, a, g)
  BY <1>1, <1>3, <1>11, <1>12, KeepsWalking
<1>14. F \in [0 .. n -> S]
  BY <1>13 DEF Walks
<1> QED
  BY <1>2, <1>11, <1>14 DEF a, S, ThirdPhase

(* The text after each file.                                                *)
LEMMA LinesAdd ==
  ASSUME NEW ranked \in Seq(RankedFile), NEW head \in Nat, NEW bytes \in Nat
  PROVE  LET acc == LinesSoFar(head, ranked, bytes) IN
         /\ acc \in [0 .. Len(ranked) -> [shown : Nat, len : Nat, done : BOOLEAN]]
         /\ acc[0] = [shown |-> 0, len |-> head, done |-> FALSE]
         /\ \A k \in 1 .. Len(ranked) : acc[k] = Lines(acc[k - 1], ranked[k], bytes)
<1> DEFINE n == Len(ranked)
           a == [shown |-> 0, len |-> head, done |-> FALSE]
           S == [shown : Nat, len : Nat, done : BOOLEAN]
           Rule(f) == f = [k \in 0 .. n |-> IF k = 0 THEN a ELSE Lines(f[k - 1], ranked[k], bytes)]
           g == [k \in 1 .. n |-> [x \in S |-> Lines(x, ranked[k], bytes)]]
           F == CHOOSE f : Rule(f)
<1>1. a \in S /\ n \in Nat /\ \A k \in 1 .. n : ranked[k] \in RankedFile
  BY LenProperties, ElementOfSeq
<1>2. LinesSoFar(head, ranked, bytes) = F
  BY DEF LinesSoFar
<1> HIDE DEF a, n
<1>3. g \in Steps(n, S)
  <2>1. ASSUME NEW k \in 1 .. n, NEW x \in S PROVE Lines(x, ranked[k], bytes) \in S
    <3>1. ranked[k].block \in Nat
      BY <1>1 DEF RankedFile
    <3>2. x.shown \in Nat /\ x.len \in Nat /\ x.done \in BOOLEAN
      OBVIOUS
    <3>3. [x EXCEPT !.done = TRUE] \in S
      OBVIOUS
    <3>4. [x EXCEPT !.shown = @ + 1, !.len = @ + ranked[k].block] \in S
      <4>1. x.shown + 1 \in Nat /\ x.len + ranked[k].block \in Nat
        BY <3>1, <3>2
      <4> DEFINE u == x.shown + 1  v == x.len + ranked[k].block
      <4> HIDE DEF u, v
      <4>2. [x EXCEPT !.shown = u, !.len = v] \in S
        BY <4>1 DEF u, v
      <4> QED
        BY <4>2 DEF u, v
    <3> HIDE DEF S
    <3> QED
      BY <3>3, <3>4 DEF Lines
  <2> HIDE DEF S
  <2> QED
    BY <2>1 DEF Steps
<1>4. \A k \in 1 .. n : \A x \in S : g[k][x] = Lines(x, ranked[k], bytes)
  OBVIOUS
<1> HIDE DEF g, S
<1>5. PICK h : Walks(h, n, S, a, g)
  BY <1>1, <1>3, StepByStep
<1>6. h \in [0 .. n -> S] /\ h[0] = a /\ \A k \in 1 .. n : h[k] = g[k][h[k - 1]]
  BY <1>5 DEF Walks
<1>7. \A k \in 1 .. n : k - 1 \in 0 .. n /\ k \in 0 .. n /\ k # 0
  BY <1>1
<1>8. \A k \in 1 .. n : h[k] = Lines(h[k - 1], ranked[k], bytes)
  BY <1>4, <1>6, <1>7
<1>9. Rule(h)
  <2>1. \A k \in 0 .. n : k # 0 => k \in 1 .. n
    BY <1>1
  <2>2. \A k \in 0 .. n : h[k] = IF k = 0 THEN a ELSE Lines(h[k - 1], ranked[k], bytes)
    BY <1>6, <1>8, <2>1
  <2> QED
    BY <2>2, <1>6
<1> HIDE DEF Rule
<1>10. Rule(F)
  BY <1>9
<1> HIDE DEF F
<1>11. /\ F[0] = a /\ F = [k \in 0 .. n |-> F[k]]
       /\ \A k \in 1 .. n : F[k] = Lines(F[k - 1], ranked[k], bytes)
  <2>1. F = [k \in 0 .. n |-> IF k = 0 THEN a ELSE Lines(F[k - 1], ranked[k], bytes)]
    BY <1>10 DEF Rule
  <2>2. 0 \in 0 .. n
    BY <1>1
  <2> QED
    BY <2>1, <2>2, <1>7
<1>12. \A k \in 1 .. n : F[k - 1] \in S => F[k] = g[k][F[k - 1]]
  BY <1>4, <1>11
<1>13. Walks(F, n, S, a, g)
  BY <1>1, <1>3, <1>11, <1>12, KeepsWalking
<1>14. F \in [0 .. n -> S]
  BY <1>13 DEF Walks
<1> QED
  BY <1>2, <1>11, <1>14 DEF a, S, n

-----------------------------------------------------------------------------
(* The lines that are printed.                                             *)

(* What a file does to the text.                                            *)
LEMMA LineAdds ==
  ASSUME NEW acc \in [shown : Nat, len : Nat, done : BOOLEAN], NEW f \in RankedFile, NEW bytes \in Nat,
         bytes > 0 /\ acc.shown > 1 => acc.len <= bytes, acc.done => acc.shown > 0
  PROVE  LET new == Lines(acc, f, bytes) IN
         /\ bytes > 0 /\ new.shown > 1 => new.len <= bytes
         /\ new.done => new.shown > 0
         /\ acc.shown > 0 \/ ~f.test => new.shown > 0
<1> DEFINE over == acc.shown > 0 /\ bytes > 0 /\ (acc.len + f.block > bytes \/ (f.symbols > 0 /\ acc.len > bytes - 200))
           u == acc.shown + 1  v == acc.len + f.block
<1>1. acc.shown \in Nat /\ acc.len \in Nat /\ f.block \in Nat /\ f.symbols \in Nat
  BY DEF RankedFile
<1>2. Lines(acc, f, bytes) = IF acc.done \/ (f.symbols > 0 /\ f.test) THEN acc
                             ELSE IF over THEN [acc EXCEPT !.done = TRUE]
                             ELSE [acc EXCEPT !.shown = u, !.len = v]
  BY DEF Lines
<1>3. ~over => (acc.shown > 0 /\ bytes > 0 => v <= bytes)
  BY <1>1
<1>4. over => acc.shown > 0
  OBVIOUS
<1>5. u > 0 /\ (u > 1 => acc.shown > 0)
  BY <1>1
<1> HIDE DEF over, u, v
<1>6. [acc EXCEPT !.done = TRUE].shown = acc.shown /\ [acc EXCEPT !.done = TRUE].len = acc.len
  OBVIOUS
<1>7. /\ [acc EXCEPT !.shown = u, !.len = v].shown = u /\ [acc EXCEPT !.shown = u, !.len = v].len = v
      /\ [acc EXCEPT !.shown = u, !.len = v].done = acc.done
  OBVIOUS
<1>8. CASE acc.done \/ (f.symbols > 0 /\ f.test)
  BY <1>2, <1>8
<1>9. CASE ~(acc.done \/ (f.symbols > 0 /\ f.test)) /\ over
  BY <1>2, <1>4, <1>6, <1>9
<1>10. CASE ~(acc.done \/ (f.symbols > 0 /\ f.test)) /\ ~over
  BY <1>2, <1>3, <1>5, <1>7, <1>10
<1> QED
  BY <1>8, <1>9, <1>10

(* The text keeps to its bytes after the first file, which always comes.    *)
LEMMA LinesKeep ==
  ASSUME NEW ranked \in Seq(RankedFile), NEW head \in Nat, NEW bytes \in Nat
  PROVE  LET r == LinesSoFar(head, ranked, bytes)[Len(ranked)] IN
         /\ bytes > 0 /\ r.shown > 1 => r.len <= bytes
         /\ \A i \in DOMAIN ranked : ~ranked[i].test => r.shown > 0
<1> DEFINE n == Len(ranked)
           acc == LinesSoFar(head, ranked, bytes)
           S == [shown : Nat, len : Nat, done : BOOLEAN]
           T == {k \in 0 .. n : /\ bytes > 0 /\ acc[k].shown > 1 => acc[k].len <= bytes
                                /\ acc[k].done => acc[k].shown > 0
                                /\ \A i \in 1 .. k : ~ranked[i].test => acc[k].shown > 0}
<1>1. n \in Nat /\ DOMAIN ranked = 1 .. n /\ \A k \in 1 .. n : ranked[k] \in RankedFile
  BY LenProperties, ElementOfSeq
<1>2. /\ acc \in [0 .. n -> S] /\ acc[0] = [shown |-> 0, len |-> head, done |-> FALSE]
      /\ \A k \in 1 .. n : acc[k] = Lines(acc[k - 1], ranked[k], bytes)
  BY LinesAdd
<1> HIDE DEF acc, n
<1>3. 0 \in T
  <2>1. 0 \in 0 .. n /\ acc[0].shown = 0 /\ acc[0].done = FALSE
    BY <1>1, <1>2
  <2> QED
    BY <2>1
<1>4. ASSUME NEW k \in 1 .. n, k - 1 \in T PROVE k \in T
  <2> DEFINE old == acc[k - 1]
             new == acc[k]
             f == ranked[k]
  <2>1. k - 1 \in 0 .. n /\ k \in 0 .. n
    BY <1>1
  <2>2. old \in S /\ f \in RankedFile /\ new = Lines(old, f, bytes)
    BY <1>1, <1>2, <2>1
  <2>3. /\ bytes > 0 /\ old.shown > 1 => old.len <= bytes
        /\ old.done => old.shown > 0
        /\ \A i \in 1 .. k - 1 : ~ranked[i].test => old.shown > 0
    BY <1>4
  <2> HIDE DEF S
  <2>4. /\ bytes > 0 /\ new.shown > 1 => new.len <= bytes
        /\ new.done => new.shown > 0
        /\ old.shown > 0 \/ ~f.test => new.shown > 0
    <3> HIDE DEF old, f, new
    <3> QED
      BY <2>2, <2>3, LineAdds DEF S
  <2>5. ASSUME NEW i \in 1 .. k, ~ranked[i].test PROVE new.shown > 0
    <3>1. CASE i = k
      BY <2>4, <2>5, <3>1
    <3>2. CASE i # k
      <4>1. i \in 1 .. k - 1
        BY <3>2, <1>1
      <4> QED
        BY <2>3, <2>4, <2>5, <4>1
    <3> QED
      BY <3>1, <3>2
  <2> QED
    BY <2>1, <2>4, <2>5
<1> HIDE DEF T
<1>5. \A k \in 1 .. n : k - 1 \in T => k \in T
  BY <1>4
<1>6. n \in T
  <2>1. \A k \in 0 .. n : k \in T
    BY <1>1, <1>3, <1>5, Climb
  <2>2. n \in 0 .. n
    BY <1>1
  <2> QED
    BY <2>1, <2>2
<1> QED
  BY <1>1, <1>6 DEF T, acc, n

(* The footer stands under a map that leaves a file out.                    *)
LEMMA FooterTells ==
  ASSUME NEW ranked \in Seq(RankedFile), NEW maxTokens
  PROVE  FormatMap(ranked, maxTokens).footer
           <=> \E i \in DOMAIN ranked : BudgetFiles(ranked, maxTokens)[i].level = -1
<1> DEFINE n == Len(ranked)
           out == BudgetFiles(ranked, maxTokens)
           K == {i \in DOMAIN out : out[i].level # -1}
           c == Cardinality(K)
<1>1. n \in Nat /\ DOMAIN ranked = 1 .. n
  BY LenProperties
<1>2. DOMAIN out = 1 .. n
  BY <1>1 DEF BudgetFiles
<1>3. FormatMap(ranked, maxTokens).footer <=> c < n
  BY DEF FormatMap
<1> HIDE DEF out, n
<1>4. IsFiniteSet(1 .. n) /\ Cardinality(1 .. n) = n
  BY <1>1, Stretch
<1>5. K \in SUBSET (1 .. n)
  BY <1>2
<1>6. IsFiniteSet(K) /\ c <= n /\ (c = n => K = 1 .. n)
  BY <1>4, <1>5, FS_Subset
<1>7. K # 1 .. n <=> \E i \in 1 .. n : out[i].level = -1
  BY <1>2
<1>8. c \in Nat
  BY <1>6, FS_CardinalityType
<1>9. K = 1 .. n => c = n
  BY <1>4
<1> HIDE DEF c, K
<1>10. c < n <=> K # 1 .. n
  BY <1>1, <1>6, <1>8, <1>9
<1> QED
  BY <1>1, <1>3, <1>7, <1>10 DEF out

(* Once one file is shown no line beyond the budget is printed, whatever    *)
(* files were ranked, and the footer appears exactly when one was left out  *)
(* (render_lines.go:13, render.go:81).                                      *)
THEOREM LinesKeepTheirBudget ==
  ASSUME NEW ranked \in Seq(RankedFile), NEW head \in Nat, NEW maxTokens \in Nat
  PROVE  LinesKeepBudget(head, ranked, maxTokens)
<1> DEFINE bytes == maxTokens * 4
           r == LinesSoFar(head, ranked, bytes)[Len(ranked)]
<1>1. bytes \in Nat /\ (maxTokens > 0 => bytes > 0)
  OBVIOUS
<1>2. FormatLines(head, ranked, maxTokens) = r
  BY DEF FormatLines
<1> HIDE DEF bytes
<1>3. /\ bytes > 0 /\ r.shown > 1 => r.len <= bytes
      /\ \A i \in DOMAIN ranked : ~ranked[i].test => r.shown > 0
  BY <1>1, LinesKeep
<1> HIDE DEF r
<1>4. maxTokens > 0 /\ r.shown > 1 => r.len <= maxTokens * 4
  BY <1>1, <1>3 DEF bytes
<1> QED
  BY <1>2, <1>3, <1>4, FooterTells DEF LinesKeepBudget

-----------------------------------------------------------------------------
(* A larger budget gives no less detail.                                   *)

(* A ranked file at any level.                                              *)
LeveledFile == [header : Nat, groups : Nat, symbols : Nat, fields : Nat, level : Int, test : BOOLEAN, block : Nat]

(* What the second phase spends on a file.                                  *)
LEMMA DetailSpends ==
  ASSUME NEW used \in Int, NEW f \in LeveledFile, NEW bytes \in Nat
  PROVE  LET d == Detail(used, f, bytes) IN
         /\ d.used \in Int /\ d.level \in Int
         /\ used <= bytes => d.used <= bytes
         /\ f.level = 0 => /\ d.level \in {0, 1, 2}
                           /\ d.level = 0 => d.used = used
                           /\ d.level = 1 => d.used = used + SummaryCost(f)
                           /\ d.level = 2 => d.used + SummaryCost(f) >= used + SymbolCost(f)
<1> DEFINE a == SummaryCost(f)  b == SymbolCost(f)
           u1 == IF used + a <= bytes THEN used + a ELSE used
           d == Detail(used, f, bytes)
<1>1. a \in Nat /\ b \in Nat /\ f.level \in Int
  BY DEF SummaryCost, SymbolCost, LeveledFile
<1>2. d = IF f.symbols = 0 THEN [used |-> used, level |-> 0]
          ELSE [used |-> IF u1 + b - a <= bytes THEN u1 + b - a ELSE u1,
                level |-> IF u1 + b - a <= bytes THEN 2 ELSE IF used + a <= bytes THEN 1 ELSE f.level]
  BY DEF Detail
<1> HIDE DEF a, b
<1>3. u1 \in Int /\ (used <= bytes => u1 <= bytes) /\ used <= u1 /\ (used + a <= bytes => u1 = used + a)
  BY <1>1
<1> HIDE DEF d
<1>4. CASE f.symbols = 0
  BY <1>2, <1>4 DEF d, a, b
<1>5. CASE f.symbols # 0 /\ u1 + b - a <= bytes
  <2>1. d.used = u1 + b - a /\ d.level = 2
    BY <1>2, <1>5
  <2>2. u1 + b - a \in Int /\ (u1 + b - a) + a >= used + b
    BY <1>1, <1>3
  <2> HIDE DEF u1
  <2> QED
    BY <1>5, <2>1, <2>2 DEF d, a, b
<1>6. CASE f.symbols # 0 /\ ~(u1 + b - a <= bytes)
  <2>1. d.used = u1 /\ d.level = IF used + a <= bytes THEN 1 ELSE f.level
    BY <1>2, <1>6
  <2>2. ~(used + a <= bytes) => u1 = used
    OBVIOUS
  <2> HIDE DEF u1
  <2> QED
    BY <1>1, <1>3, <2>1, <2>2 DEF d, a, b
<1> QED
  BY <1>4, <1>5, <1>6

(* A file that keeps the level it got is treated the same once more.        *)
LEMMA DetailIsSteady ==
  ASSUME NEW used, NEW f \in LeveledFile, NEW bytes, f.level = 0, NEW v \in Int,
         Detail(used, f, bytes).level = 0 => v = 0
  PROVE  Detail(used, [f EXCEPT !.level = v], bytes) = Detail(used, f, bytes)
<1> DEFINE g == [f EXCEPT !.level = v]
<1>1. g.groups = f.groups /\ g.symbols = f.symbols /\ g.level = v
  BY DEF LeveledFile
<1>2. SummaryCost(g) = SummaryCost(f) /\ SymbolCost(g) = SymbolCost(f)
  BY <1>1 DEF SummaryCost, SymbolCost
<1> DEFINE a == SummaryCost(f)  b == SymbolCost(f)
           u1 == IF used + a <= bytes THEN used + a ELSE used
           fits1 == used + a <= bytes
           fits2 == u1 + b - a <= bytes
<1>4. Detail(used, f, bytes) = IF f.symbols = 0 THEN [used |-> used, level |-> 0]
                               ELSE [used |-> IF fits2 THEN u1 + b - a ELSE u1,
                                     level |-> IF fits2 THEN 2 ELSE IF fits1 THEN 1 ELSE f.level]
  BY DEF Detail
<1>5. Detail(used, g, bytes) = IF f.symbols = 0 THEN [used |-> used, level |-> 0]
                               ELSE [used |-> IF fits2 THEN u1 + b - a ELSE u1,
                                     level |-> IF fits2 THEN 2 ELSE IF fits1 THEN 1 ELSE v]
  BY <1>1, <1>2 DEF Detail
<1> HIDE DEF g, a, b, u1, fits1, fits2
<1>6. CASE f.symbols = 0 \/ fits2 \/ fits1
  BY <1>4, <1>5, <1>6 DEF g
<1>7. CASE ~(f.symbols = 0 \/ fits2 \/ fits1)
  <2>1. Detail(used, f, bytes).level = 0
    BY <1>4, <1>7
  <2> QED
    BY <1>4, <1>5, <1>7, <2>1 DEF g
<1> QED
  BY <1>6, <1>7

(* The cutoff is the largest of the numbers of headers that fit.            *)
LEMMA LargestFit ==
  ASSUME NEW N \in Nat, NEW fit, 0 \in fit, fit \subseteq 0 .. N
  PROVE  \E n \in fit : \A m \in fit : m <= n
<1> DEFINE T == {k \in 0 .. N : \E n \in fit : n <= k /\ \A m \in fit : m <= k => m <= n}
<1>1. 0 \in T
  OBVIOUS
<1>2. ASSUME NEW k \in 1 .. N, k - 1 \in T PROVE k \in T
  <2>1. PICK n \in fit : n <= k - 1 /\ \A m \in fit : m <= k - 1 => m <= n
    BY <1>2
  <2>2. CASE k \in fit
    <3>1. k <= k /\ \A m \in fit : m <= k => m <= k
      OBVIOUS
    <3> QED
      BY <2>2, <3>1
  <2>3. CASE k \notin fit
    <3>1. n <= k
      BY <2>1
    <3>2. ASSUME NEW m \in fit, m <= k PROVE m <= n
      <4>1. m # k /\ m \in 0 .. N
        BY <2>3
      <4>2. m <= k - 1
        BY <3>2, <4>1
      <4> QED
        BY <2>1, <4>2
    <3> QED
      BY <3>1, <3>2
  <2> QED
    BY <2>2, <2>3
<1> HIDE DEF T
<1>3. \A k \in 1 .. N : k - 1 \in T => k \in T
  BY <1>2
<1>4. \A k \in 0 .. N : k \in T
  BY <1>1, <1>3, Climb
<1>5. N \in T
  BY <1>4
<1>6. \A m \in fit : m <= N
  OBVIOUS
<1> QED
  BY <1>5, <1>6 DEF T

(* The sums of a number of each file.                                       *)
LEMMA SumsOfFiles ==
  ASSUME NEW N \in Nat, NEW s, s = [k \in 1 .. N |-> s[k]], \A k \in 1 .. N : s[k] \in Nat
  PROVE  /\ Len(s) = N /\ Sums(s) \in [0 .. N -> Nat] /\ Sums(s)[0] = 0
         /\ \A k \in 1 .. N : Sums(s)[k] = Sums(s)[k - 1] + s[k]
<1>1. s \in Seq(Nat) /\ Len(s) = N
  BY ListOf
<1> QED
  BY <1>1, SumsAdd

(* The headers before the cutoff, which fit.                                *)
LEMMA HeadersFit ==
  ASSUME NEW ranked \in Seq(LeveledFile), NEW bytes \in Nat
  PROVE  LET N == Len(ranked)  H == HeaderSums(ranked)  n == Cutoff(ranked, bytes) IN
         /\ N \in Nat /\ DOMAIN ranked = 1 .. N /\ (\A k \in 1 .. N : ranked[k] \in LeveledFile)
         /\ H \in [0 .. N -> Nat] /\ H[0] = 0 /\ (\A k \in 1 .. N : H[k] = H[k - 1] + ranked[k].header)
         /\ n \in 0 .. N /\ H[n] <= bytes
<1> DEFINE N == Len(ranked)  H == HeaderSums(ranked)
           s == [i \in DOMAIN ranked |-> ranked[i].header]
           cap == HeaderCap(bytes)
           fit == {n \in 0 .. N : H[n] <= cap}
<1>1. N \in Nat /\ DOMAIN ranked = 1 .. N /\ \A k \in 1 .. N : ranked[k] \in LeveledFile
  BY LenProperties, ElementOfSeq
<1>2. \A k \in 1 .. N : ranked[k].header \in Nat
  BY <1>1 DEF LeveledFile
<1> HIDE DEF N
<1>3. s = [k \in 1 .. N |-> s[k]] /\ \A k \in 1 .. N : s[k] = ranked[k].header /\ s[k] \in Nat
  BY <1>1, <1>2
<1>4. H = Sums(s)
  BY DEF HeaderSums
<1> HIDE DEF s, H
<1>5. H \in [0 .. N -> Nat] /\ H[0] = 0 /\ \A k \in 1 .. N : H[k] = H[k - 1] + ranked[k].header
  <2>1. N \in Nat /\ s = [k \in 1 .. N |-> s[k]] /\ \A k \in 1 .. N : s[k] \in Nat
    BY <1>1, <1>3
  <2>2. /\ Len(s) = N /\ Sums(s) \in [0 .. N -> Nat] /\ Sums(s)[0] = 0
        /\ \A k \in 1 .. N : Sums(s)[k] = Sums(s)[k - 1] + s[k]
    BY ONLY <2>1, SumsOfFiles
  <2> QED
    BY <1>3, <1>4, <2>2
<1>6. cap \in Nat /\ cap <= bytes
  BY DEF HeaderCap
<1>7. Cutoff(ranked, bytes) = CHOOSE n \in fit : \A m \in fit : m <= n
  BY DEF Cutoff, N, H
<1> HIDE DEF cap
<1>8. 0 \in fit /\ fit \subseteq 0 .. N
  BY <1>1, <1>5, <1>6
<1> HIDE DEF fit
<1>9. \E n \in fit : \A m \in fit : m <= n
  BY <1>1, <1>8, LargestFit
<1>10. Cutoff(ranked, bytes) \in fit
  BY <1>7, <1>9
<1>11. \A n \in fit : n \in 0 .. N /\ H[n] <= bytes
  BY <1>1, <1>5, <1>6 DEF fit
<1> QED
  BY <1>1, <1>5, <1>10, <1>11 DEF N, H

(* The phases of the budget, one after the other.                           *)
LEMMA BudgetPhases ==
  ASSUME NEW ranked \in Seq(LeveledFile), NEW bytes \in Nat
  PROVE  LET n == Cutoff(ranked, bytes)
             used == Used(ranked, n, bytes)
             second == SecondLevels(ranked, n, bytes)
             third == Promoted(ranked, n, second, bytes) IN
         /\ n \in Nat /\ n <= Len(ranked) /\ HeaderSums(ranked)[n] \in Nat
         /\ used \in [0 .. n -> Int] /\ used[0] = HeaderSums(ranked)[n]
         /\ \A k \in 1 .. n : used[k] = Detail(used[k - 1], ranked[k], bytes).used
         /\ second = [k \in 1 .. n |-> Detail(used[k - 1], ranked[k], bytes).level]
         /\ \A k \in 1 .. n : second[k] \in Int
         /\ ThirdPhase(third, ranked, n, second, bytes)
<1> DEFINE N == Len(ranked)  n == Cutoff(ranked, bytes)
           used == Used(ranked, n, bytes)
           second == SecondLevels(ranked, n, bytes)
           third == Promoted(ranked, n, second, bytes)
<1>1. /\ N \in Nat /\ DOMAIN ranked = 1 .. N /\ (\A k \in 1 .. N : ranked[k] \in LeveledFile)
      /\ HeaderSums(ranked) \in [0 .. N -> Nat] /\ n \in 0 .. N
  BY HeadersFit
<1> HIDE DEF N, n
<1>2. n \in Nat /\ n <= N /\ HeaderSums(ranked)[n] \in Nat
  BY <1>1
<1>3. \A k \in 1 .. n : k \in 1 .. N /\ k - 1 \in 0 .. n
  BY <1>1, <1>2
<1>4. \A k \in 1 .. n : ranked[k] \in LeveledFile
  BY <1>1, <1>3
<1>5. \A k \in 1 .. n : ranked[k].groups \in Nat /\ ranked[k].symbols \in Nat /\ ranked[k].fields \in Nat
  BY <1>4 DEF LeveledFile
<1>6. /\ used \in [0 .. n -> Int] /\ used[0] = HeaderSums(ranked)[n]
      /\ \A k \in 1 .. n : used[k] = Detail(used[k - 1], ranked[k], bytes).used
  BY <1>2, <1>5, UsedSpends
<1>7. second = [k \in 1 .. n |-> Detail(used[k - 1], ranked[k], bytes).level]
  BY DEF SecondLevels
<1> HIDE DEF used, second
<1>8. ASSUME NEW k \in 1 .. n PROVE second[k] \in Int
  <2>1. used[k - 1] \in Int
    BY <1>3, <1>6
  <2>2. Detail(used[k - 1], ranked[k], bytes).level \in Int
    BY <2>1, <1>4, DetailSpends
  <2> QED
    BY <1>7, <2>2
<1>9. used[n] \in Int
  BY <1>2, <1>6
<1>10. ThirdPhase(third, ranked, n, second, bytes)
  <2>1. n \in Nat /\ bytes \in Nat /\ Used(ranked, n, bytes)[n] \in Int
    BY <1>2, <1>9 DEF used
  <2>2. \A k \in 1 .. n : ranked[k].fields \in Nat /\ second[k] \in Int
    BY <1>5, <1>8
  <2> QED
    BY ONLY <2>1, <2>2, PromotedCounts
<1> HIDE DEF third
<1> QED
  BY <1>2, <1>6, <1>7, <1>8, <1>10 DEF N, n, used, second, third

(* Files at their first level are files at a level.                         *)
LEMMA FirstLevels ==
  ASSUME NEW ranked \in Seq(RankedFile)
  PROVE  /\ ranked \in Seq(LeveledFile) /\ Len(ranked) \in Nat /\ DOMAIN ranked = 1 .. Len(ranked)
         /\ \A k \in 1 .. Len(ranked) : ranked[k] \in RankedFile /\ ranked[k] \in LeveledFile /\ ranked[k].level = 0
<1>1. RankedFile \subseteq LeveledFile
  BY DEF RankedFile, LeveledFile
<1>2. ranked \in Seq(LeveledFile)
  BY <1>1, SeqMonotonic
<1>3. Len(ranked) \in Nat /\ DOMAIN ranked = 1 .. Len(ranked) /\ \A k \in 1 .. Len(ranked) : ranked[k] \in RankedFile
  BY LenProperties, ElementOfSeq
<1>4. \A f \in RankedFile : f.level = 0
  BY DEF RankedFile
<1> QED
  BY <1>1, <1>2, <1>3, <1>4

(* The levels the budget gives: none beyond the cutoff, and fields only to  *)
(* a file that got its symbols.                                             *)
LEMMA LevelsGiven ==
  ASSUME NEW ranked \in Seq(RankedFile), NEW bytes \in Nat
  PROVE  LET N == Len(ranked)
             n == Cutoff(ranked, bytes)
             second == SecondLevels(ranked, n, bytes)
             third == Promoted(ranked, n, second, bytes)
             L == BudgetLevels(ranked, bytes) IN
         /\ L = [k \in 1 .. N |-> L[k]]
         /\ \A k \in 1 .. n : /\ second[k] \in {0, 1, 2}
                              /\ L[k] = IF Fits(third[k - 1], ranked[k], second[k], bytes) THEN 3 ELSE second[k]
                              /\ L[k] \in {0, 1, 2, 3} /\ (L[k] = 3 => second[k] = 2)
         /\ \A k \in n + 1 .. N : L[k] = -1
<1> DEFINE N == Len(ranked)
           n == Cutoff(ranked, bytes)
           used == Used(ranked, n, bytes)
           second == SecondLevels(ranked, n, bytes)
           third == Promoted(ranked, n, second, bytes)
           L == BudgetLevels(ranked, bytes)
<1>1. /\ ranked \in Seq(LeveledFile) /\ N \in Nat /\ DOMAIN ranked = 1 .. N
      /\ \A k \in 1 .. N : ranked[k] \in LeveledFile /\ ranked[k].level = 0
  BY FirstLevels
<1>2. /\ n \in Nat /\ n <= N
      /\ used \in [0 .. n -> Int]
      /\ second = [k \in 1 .. n |-> Detail(used[k - 1], ranked[k], bytes).level]
  BY <1>1, BudgetPhases
<1>3. L = [k \in 1 .. N |-> IF k > n THEN -1
                            ELSE IF Fits(third[k - 1], ranked[k], second[k], bytes) THEN 3 ELSE second[k]]
  BY <1>1 DEF BudgetLevels
<1> HIDE DEF N, n, used, second, third, L
<1>4. ASSUME NEW k \in 1 .. n PROVE second[k] \in {0, 1, 2}
  <2>1. k \in 1 .. N /\ k - 1 \in 0 .. n
    BY <1>1, <1>2
  <2>2. used[k - 1] \in Int /\ ranked[k] \in LeveledFile /\ ranked[k].level = 0
    BY <1>1, <1>2, <2>1
  <2>3. Detail(used[k - 1], ranked[k], bytes).level \in {0, 1, 2}
    BY <2>2, DetailSpends
  <2> QED
    BY <1>2, <2>3
<1>5. ASSUME NEW k \in 1 .. n
      PROVE  /\ L[k] = IF Fits(third[k - 1], ranked[k], second[k], bytes) THEN 3 ELSE second[k]
             /\ L[k] \in {0, 1, 2, 3} /\ (L[k] = 3 => second[k] = 2)
  <2>1. k \in 1 .. N /\ ~(k > n)
    BY <1>1, <1>2
  <2>2. L[k] = IF Fits(third[k - 1], ranked[k], second[k], bytes) THEN 3 ELSE second[k]
    BY <1>3, <2>1
  <2>3. Fits(third[k - 1], ranked[k], second[k], bytes) => second[k] >= 2
    BY DEF Fits
  <2> QED
    BY <1>4, <2>2, <2>3
<1>6. ASSUME NEW k \in n + 1 .. N PROVE L[k] = -1
  <2>1. k \in 1 .. N /\ k > n
    BY <1>1, <1>2
  <2> QED
    BY <1>3, <2>1
<1>7. L = [k \in 1 .. N |-> L[k]]
  BY <1>3
<1> QED
  BY <1>4, <1>5, <1>6, <1>7 DEF N, n, used, second, third, L

Relevel(ranked, L) == [k \in DOMAIN ranked |-> [ranked[k] EXCEPT !.level = L[k]]]

(* A list of files at other levels.                                         *)
LEMMA Releveled ==
  ASSUME NEW ranked \in Seq(RankedFile), NEW L, \A k \in 1 .. Len(ranked) : L[k] \in Int
  PROVE  LET out == Relevel(ranked, L) IN
         /\ out \in Seq(LeveledFile) /\ Len(out) = Len(ranked) /\ DOMAIN out = 1 .. Len(ranked)
         /\ \A k \in 1 .. Len(ranked) :
              /\ out[k] = [ranked[k] EXCEPT !.level = L[k]] /\ out[k] \in LeveledFile
              /\ out[k].header = ranked[k].header /\ out[k].fields = ranked[k].fields
              /\ out[k].groups = ranked[k].groups /\ out[k].symbols = ranked[k].symbols /\ out[k].level = L[k]
<1> DEFINE N == Len(ranked)  out == Relevel(ranked, L)
<1>1. N \in Nat /\ DOMAIN ranked = 1 .. N /\ \A k \in 1 .. N : ranked[k] \in LeveledFile
  BY FirstLevels
<1>2. out = [k \in 1 .. N |-> [ranked[k] EXCEPT !.level = L[k]]]
  BY <1>1 DEF Relevel
<1> HIDE DEF N, out
<1>3. \A k \in 1 .. N : out[k] = [ranked[k] EXCEPT !.level = L[k]]
  BY <1>2
<1>5. \A k \in 1 .. N : L[k] \in Int
  BY DEF N
<1>6. ASSUME NEW k \in 1 .. N
      PROVE  /\ out[k] \in LeveledFile
             /\ out[k].header = ranked[k].header /\ out[k].fields = ranked[k].fields
             /\ out[k].groups = ranked[k].groups /\ out[k].symbols = ranked[k].symbols /\ out[k].level = L[k]
  <2> DEFINE f == ranked[k]
             v == L[k]
  <2>1. f \in LeveledFile /\ v \in Int /\ out[k] = [f EXCEPT !.level = v]
    BY <1>1, <1>3, <1>5
  <2> HIDE DEF f, v
  <2>2. /\ [f EXCEPT !.level = v] \in LeveledFile /\ [f EXCEPT !.level = v].header = f.header
        /\ [f EXCEPT !.level = v].fields = f.fields /\ [f EXCEPT !.level = v].groups = f.groups
        /\ [f EXCEPT !.level = v].symbols = f.symbols /\ [f EXCEPT !.level = v].level = v
    BY <2>1 DEF LeveledFile
  <2> QED
    BY <2>1, <2>2 DEF f, v
<1>7. out = [k \in 1 .. N |-> out[k]] /\ \A k \in 1 .. N : out[k] \in LeveledFile
  BY <1>2, <1>6
<1>8. out \in Seq(LeveledFile) /\ Len(out) = N /\ DOMAIN out = 1 .. N
  BY <1>1, <1>7, ListOf
<1> QED
  BY <1>3, <1>6, <1>8 DEF N, out

(* A second pass over the same files gives the levels of the first.         *)
LEMMA LevelsAreSteady ==
  ASSUME NEW ranked \in Seq(RankedFile), NEW bytes \in Nat
  PROVE  BudgetLevels(Relevel(ranked, BudgetLevels(ranked, bytes)), bytes) = BudgetLevels(ranked, bytes)
<1> DEFINE N == Len(ranked)
           L == BudgetLevels(ranked, bytes)
           out == Relevel(ranked, L)
           n == Cutoff(ranked, bytes)
           used == Used(ranked, n, bytes)
           second == SecondLevels(ranked, n, bytes)
           third == Promoted(ranked, n, second, bytes)
           used2 == Used(out, n, bytes)
           second2 == SecondLevels(out, n, bytes)
           third2 == Promoted(out, n, second2, bytes)
<1>1. /\ ranked \in Seq(LeveledFile) /\ N \in Nat /\ DOMAIN ranked = 1 .. N
      /\ \A k \in 1 .. N : ranked[k] \in LeveledFile /\ ranked[k].level = 0
  BY FirstLevels
<1>2. /\ n \in Nat /\ n <= N /\ HeaderSums(ranked)[n] \in Nat
      /\ used \in [0 .. n -> Int] /\ used[0] = HeaderSums(ranked)[n]
      /\ \A k \in 1 .. n : used[k] = Detail(used[k - 1], ranked[k], bytes).used
      /\ second = [k \in 1 .. n |-> Detail(used[k - 1], ranked[k], bytes).level]
      /\ ThirdPhase(third, ranked, n, second, bytes)
  BY <1>1, BudgetPhases
<1>3. /\ L = [k \in 1 .. N |-> L[k]]
      /\ \A k \in 1 .. n : /\ second[k] \in {0, 1, 2}
                           /\ L[k] = IF Fits(third[k - 1], ranked[k], second[k], bytes) THEN 3 ELSE second[k]
                           /\ L[k] \in {0, 1, 2, 3} /\ (L[k] = 3 => second[k] = 2)
      /\ \A k \in n + 1 .. N : L[k] = -1
  BY LevelsGiven
<1>4. \A k \in 1 .. N : L[k] \in Int
  <2> HIDE DEF N, n, second, third, L
  <2>1. \A k \in 1 .. N : k \in 1 .. n \/ k \in n + 1 .. N
    BY <1>1, <1>2
  <2>2. \A k \in 1 .. n : L[k] \in {0, 1, 2, 3}
    BY <1>3
  <2>3. \A k \in 1 .. n : L[k] \in Int
    BY <2>2
  <2>4. \A k \in n + 1 .. N : L[k] = -1
    BY <1>3
  <2>5. -1 \in Int
    OBVIOUS
  <2> HIDE <1>3
  <2> QED
    BY <2>1, <2>3, <2>4, <2>5
<1>5. /\ out \in Seq(LeveledFile) /\ Len(out) = N /\ DOMAIN out = 1 .. N
      /\ \A k \in 1 .. N :
           /\ out[k] = [ranked[k] EXCEPT !.level = L[k]] /\ out[k] \in LeveledFile
           /\ out[k].header = ranked[k].header /\ out[k].fields = ranked[k].fields
           /\ out[k].groups = ranked[k].groups /\ out[k].symbols = ranked[k].symbols /\ out[k].level = L[k]
  <2> HIDE DEF L
  <2> QED
    BY <1>4, Releveled
<1>6. HeaderSums(out) = HeaderSums(ranked)
  <2> HIDE DEF out, N
  <2>1. [i \in DOMAIN out |-> out[i].header] = [i \in DOMAIN ranked |-> ranked[i].header]
    BY <1>1, <1>5
  <2> QED
    BY <2>1 DEF HeaderSums
<1>7. Cutoff(out, bytes) = n
  <2> HIDE DEF out
  <2> QED
    BY <1>5, <1>6 DEF Cutoff
<1>8. /\ used2 \in [0 .. n -> Int] /\ used2[0] = HeaderSums(ranked)[n]
      /\ \A k \in 1 .. n : used2[k] = Detail(used2[k - 1], out[k], bytes).used
      /\ second2 = [k \in 1 .. n |-> Detail(used2[k - 1], out[k], bytes).level]
      /\ ThirdPhase(third2, out, n, second2, bytes)
  <2> HIDE DEF out
  <2> USE <1>5, <1>6, <1>7
  <2>1. LET m == Cutoff(out, bytes) IN
        /\ Used(out, m, bytes) \in [0 .. m -> Int] /\ Used(out, m, bytes)[0] = HeaderSums(out)[m]
        /\ \A k \in 1 .. m : Used(out, m, bytes)[k] = Detail(Used(out, m, bytes)[k - 1], out[k], bytes).used
        /\ SecondLevels(out, m, bytes) = [k \in 1 .. m |-> Detail(Used(out, m, bytes)[k - 1], out[k], bytes).level]
        /\ ThirdPhase(Promoted(out, m, SecondLevels(out, m, bytes), bytes), out, m, SecondLevels(out, m, bytes), bytes)
    BY BudgetPhases
  <2> HIDE DEF n
  <2> QED
    BY <2>1
<1>9. \A k \in 1 .. n : k \in 1 .. N /\ k - 1 \in 0 .. n
  <2> HIDE DEF n, N
  <2> QED
    BY <1>1, <1>2
<1> HIDE DEF N, L, out, n, used, second, third, used2, second2, third2
<1>10. ASSUME NEW k \in 1 .. n
       PROVE  Detail(used[k - 1], out[k], bytes) = Detail(used[k - 1], ranked[k], bytes)
  <2>1. second[k] = Detail(used[k - 1], ranked[k], bytes).level
    BY <1>2
  <2>2. L[k] \in Int /\ (second[k] = 0 => L[k] = 0)
    <3>1. Fits(third[k - 1], ranked[k], second[k], bytes) => second[k] >= 2
      BY DEF Fits
    <3>2. L[k] = IF Fits(third[k - 1], ranked[k], second[k], bytes) THEN 3 ELSE second[k]
      BY <1>3
    <3>3. L[k] \in Int
      BY <1>4, <1>9
    <3>4. second[k] = 0 => L[k] = 0
      BY <3>1, <3>2
    <3> QED
      BY <3>3, <3>4
  <2>3. ranked[k] \in LeveledFile /\ ranked[k].level = 0 /\ out[k] = [ranked[k] EXCEPT !.level = L[k]]
    BY <1>1, <1>5, <1>9
  <2>4. Detail(used[k - 1], [ranked[k] EXCEPT !.level = L[k]], bytes) = Detail(used[k - 1], ranked[k], bytes)
    BY <2>1, <2>2, <2>3, DetailIsSteady
  <2> QED
    BY <2>3, <2>4
<1>11. \A k \in 0 .. n : used2[k] = used[k]
  <2> DEFINE T == {k \in 0 .. n : used2[k] = used[k]}
  <2>1. 0 \in T
    BY <1>2, <1>8
  <2>2. ASSUME NEW k \in 1 .. n, k - 1 \in T PROVE k \in T
    <3>1. used2[k - 1] = used[k - 1] /\ k \in 0 .. n
      BY <2>2
    <3>2. used2[k] = used[k]
      BY <1>2, <1>8, <1>10, <3>1
    <3> QED
      BY <3>1, <3>2
  <2> HIDE DEF T
  <2>3. \A k \in 1 .. n : k - 1 \in T => k \in T
    BY <2>2
  <2>4. \A k \in 0 .. n : k \in T
    BY <1>2, <2>1, <2>3, Climb
  <2> QED
    BY <2>4 DEF T
<1>12. second2 = second
  BY <1>2, <1>8, <1>9, <1>10, <1>11
<1>13. ASSUME NEW k \in 1 .. n, NEW acc, NEW level
       PROVE  Fits(acc, out[k], level, bytes) = Fits(acc, ranked[k], level, bytes)
              /\ Promote(acc, out[k], level, bytes) = Promote(acc, ranked[k], level, bytes)
  BY <1>5, <1>9 DEF Fits, Promote
<1>14. \A k \in 0 .. n : third2[k] = third[k]
  <2> DEFINE T == {k \in 0 .. n : third2[k] = third[k]}
  <2>0. /\ third[0] = third2[0]
        /\ \A k \in 1 .. n : third[k] = Promote(third[k - 1], ranked[k], second[k], bytes)
        /\ \A k \in 1 .. n : third2[k] = Promote(third2[k - 1], out[k], second[k], bytes)
    <3>1. used2[n] = used[n]
      BY <1>2, <1>11
    <3>2. /\ third[0] = [used |-> used[n], promoted |-> 0]
          /\ \A k \in 1 .. n : third[k] = Promote(third[k - 1], ranked[k], second[k], bytes)
      BY <1>2 DEF ThirdPhase, used
    <3>3. /\ third2[0] = [used |-> used2[n], promoted |-> 0]
          /\ \A k \in 1 .. n : third2[k] = Promote(third2[k - 1], out[k], second2[k], bytes)
      BY <1>8 DEF ThirdPhase, used2
    <3> QED
      BY <1>12, <3>1, <3>2, <3>3
  <2>1. 0 \in T
    BY <1>2, <2>0
  <2>2. ASSUME NEW k \in 1 .. n, k - 1 \in T PROVE k \in T
    <3>1. third2[k - 1] = third[k - 1] /\ k \in 0 .. n
      BY <2>2
    <3>2. third2[k] = third[k]
      BY <2>0, <1>13, <3>1
    <3> QED
      BY <3>1, <3>2
  <2> HIDE DEF T
  <2>3. \A k \in 1 .. n : k - 1 \in T => k \in T
    BY <2>2
  <2>4. \A k \in 0 .. n : k \in T
    BY <1>2, <2>1, <2>3, Climb
  <2> QED
    BY <2>4 DEF T
<1>15. BudgetLevels(out, bytes) = [k \in 1 .. N |-> IF k > n THEN -1
                                   ELSE IF Fits(third2[k - 1], out[k], second2[k], bytes) THEN 3 ELSE second2[k]]
  BY <1>5, <1>7 DEF BudgetLevels, third2, second2
<1>16. L = [k \in 1 .. N |-> IF k > n THEN -1
                             ELSE IF Fits(third[k - 1], ranked[k], second[k], bytes) THEN 3 ELSE second[k]]
  BY <1>1 DEF BudgetLevels, L, third, second, n
<1>17. ASSUME NEW k \in 1 .. N, ~(k > n)
       PROVE  Fits(third2[k - 1], out[k], second2[k], bytes) = Fits(third[k - 1], ranked[k], second[k], bytes)
  <2>1. k \in 1 .. n /\ k - 1 \in 0 .. n
    BY <1>1, <1>2, <1>17
  <2> QED
    BY <2>1, <1>12, <1>13, <1>14
<1>18. BudgetLevels(out, bytes) = L
  BY <1>12, <1>15, <1>16, <1>17
<1> QED
  BY <1>18 DEF L, out

(* What a file costs at its level, by what was spent and given back.        *)
Pays(f, used, acc, bytes, g, s) ==
  LET d == Detail(used, f, bytes)  p == Promote(acc, f, s, bytes) IN
  /\ LevelCost(g) \in Nat /\ GivenBack(g) \in Nat /\ d.used \in Int /\ acc.used \in Int /\ p.used \in Int
  /\ LevelCost(g) + used + acc.used <= f.header + d.used + p.used + GivenBack(g)
  /\ acc.used <= bytes => p.used <= bytes

(* A file costs what both phases spent on it and what was given back.       *)
LEMMA FilePays ==
  ASSUME NEW f \in LeveledFile, f.level = 0, NEW used \in Int, NEW acc \in Spending, NEW bytes \in Nat, NEW g \in LeveledFile,
         NEW s, s = Detail(used, f, bytes).level, g.level = IF Fits(acc, f, s, bytes) THEN 3 ELSE s,
         g.header = f.header, g.groups = f.groups, g.symbols = f.symbols, g.fields = f.fields
  PROVE  Pays(f, used, acc, bytes, g, s)
<1> DEFINE d == Detail(used, f, bytes)
           p == Promote(acc, f, s, bytes)
           a == SummaryCost(f)  b == SymbolCost(f)  h == f.header  x == f.fields
           fits == Fits(acc, f, s, bytes)
<1>1. a \in Nat /\ b \in Nat /\ h \in Nat /\ x \in Nat
  BY DEF SummaryCost, SymbolCost, LeveledFile
<1>2. /\ d.used \in Int /\ s \in {0, 1, 2}
      /\ s = 0 => d.used = used
      /\ s = 1 => d.used = used + a
      /\ s = 2 => d.used + a >= used + b
  BY DetailSpends
<1>3. /\ acc.used \in Int
      /\ p.used = IF fits THEN acc.used + x + 10 ELSE acc.used
      /\ fits => s >= 2 /\ acc.used + x + 10 <= bytes
  BY DEF Spending, Promote, Fits
<1>4. SummaryCost(g) = a /\ SymbolCost(g) = b
  BY DEF SummaryCost, SymbolCost
<1>5. g.level = IF fits THEN 3 ELSE s
  OBVIOUS
<1>6. /\ g.level = 0 => LevelCost(g) = h
      /\ g.level = 1 => LevelCost(g) = h + a
      /\ g.level = 2 => LevelCost(g) = h + b
      /\ g.level = 3 => LevelCost(g) = h + b + x + 10
      /\ g.level < 2 => GivenBack(g) = 0
      /\ g.level >= 2 => GivenBack(g) = a
  <2> DEFINE l == g.level
  <2>1. LevelCost(g) = CASE l = -1 -> 0 [] l = 0 -> h [] l = 1 -> h + a [] l = 2 -> h + b [] OTHER -> h + b + x + 10
    BY <1>4 DEF LevelCost
  <2>2. GivenBack(g) = IF l >= 2 THEN a ELSE 0
    BY <1>4 DEF GivenBack
  <2>3. l \in Int
    BY DEF LeveledFile
  <2> HIDE DEF l, h, a, b, x
  <2> QED
    BY <2>1, <2>2, <2>3 DEF l
<1> DEFINE du == d.used  pu == p.used  au == acc.used  c == LevelCost(g)  k == GivenBack(g)  l == g.level
<1> HIDE DEF d, p, a, b, h, x, fits, du, pu, au, c, k, l
<1>7. l \in {0, 1, 2, 3} /\ (l = 3 => fits /\ s = 2) /\ (l # 3 => ~fits /\ s = l)
  BY <1>2, <1>3, <1>5 DEF l
<1>8. CASE l = 0
  <2>1. c = h /\ k = 0 /\ du = used /\ pu = au
    BY <1>2, <1>3, <1>6, <1>7, <1>8 DEF c, k, l, du, pu, au
  <2>2. c \in Nat /\ k \in Nat /\ du \in Int /\ au \in Int /\ pu \in Int /\ c + used + au <= h + du + pu + k /\ (au <= bytes => pu <= bytes)
    BY <2>1, <1>1, <1>3 DEF au
  <2> QED
    BY <2>2 DEF c, k, l, du, pu, au, d, p, h, Pays
<1>9. CASE l = 1
  <2>1. c = h + a /\ k = 0 /\ du = used + a /\ pu = au
    BY <1>2, <1>3, <1>6, <1>7, <1>9 DEF c, k, l, du, pu, au
  <2>2. c \in Nat /\ k \in Nat /\ du \in Int /\ au \in Int /\ pu \in Int /\ c + used + au <= h + du + pu + k /\ (au <= bytes => pu <= bytes)
    BY <2>1, <1>1, <1>3 DEF au
  <2> QED
    BY <2>2 DEF c, k, l, du, pu, au, d, p, h, Pays
<1>10. CASE l = 2
  <2>1. c = h + b /\ k = a /\ du \in Int /\ du + a >= used + b /\ pu = au
    BY <1>2, <1>3, <1>6, <1>7, <1>10 DEF c, k, l, du, pu, au
  <2>2. c \in Nat /\ k \in Nat /\ du \in Int /\ au \in Int /\ pu \in Int /\ c + used + au <= h + du + pu + k /\ (au <= bytes => pu <= bytes)
    BY <2>1, <1>1, <1>3 DEF au
  <2> QED
    BY <2>2 DEF c, k, l, du, pu, au, d, p, h, Pays
<1>11. CASE l = 3
  <2>1. /\ c = h + b + x + 10 /\ k = a /\ du \in Int /\ du + a >= used + b
        /\ pu = au + x + 10 /\ au + x + 10 <= bytes
    BY <1>2, <1>3, <1>6, <1>7, <1>11 DEF c, k, l, du, pu, au
  <2>2. c \in Nat /\ k \in Nat /\ du \in Int /\ au \in Int /\ pu \in Int /\ c + used + au <= h + du + pu + k /\ (au <= bytes => pu <= bytes)
    BY <2>1, <1>1, <1>3 DEF au
  <2> QED
    BY <2>2 DEF c, k, l, du, pu, au, d, p, h, Pays
<1> QED
  BY <1>7, <1>8, <1>9, <1>10, <1>11

(* The estimated cost of the levels, by the budget and what was given back. *)
LEMMA LevelsArePaid ==
  ASSUME NEW ranked \in Seq(RankedFile), NEW bytes \in Nat
  PROVE  LET out == Relevel(ranked, BudgetLevels(ranked, bytes)) IN
         EstimatedCost(out) <= bytes + Sums([i \in DOMAIN out |-> GivenBack(out[i])])[Len(out)]
<1> DEFINE N == Len(ranked)
           L == BudgetLevels(ranked, bytes)
           out == Relevel(ranked, L)
           n == Cutoff(ranked, bytes)
           H == HeaderSums(ranked)
           used == Used(ranked, n, bytes)
           second == SecondLevels(ranked, n, bytes)
           third == Promoted(ranked, n, second, bytes)
           cost == [i \in DOMAIN out |-> LevelCost(out[i])]
           back == [i \in DOMAIN out |-> GivenBack(out[i])]
           C == Sums(cost)  G == Sums(back)
<1>1. /\ ranked \in Seq(LeveledFile) /\ N \in Nat /\ DOMAIN ranked = 1 .. N
      /\ \A k \in 1 .. N : ranked[k] \in LeveledFile /\ ranked[k].level = 0
  BY FirstLevels
<1>2. /\ n \in Nat /\ n <= N
      /\ used \in [0 .. n -> Int] /\ used[0] = H[n]
      /\ \A k \in 1 .. n : used[k] = Detail(used[k - 1], ranked[k], bytes).used
      /\ second = [k \in 1 .. n |-> Detail(used[k - 1], ranked[k], bytes).level]
      /\ ThirdPhase(third, ranked, n, second, bytes)
  BY <1>1, BudgetPhases
<1>3. H \in [0 .. N -> Nat] /\ H[0] = 0 /\ (\A k \in 1 .. N : H[k] = H[k - 1] + ranked[k].header) /\ H[n] <= bytes
  BY <1>1, HeadersFit
<1>4. /\ \A k \in 1 .. n : L[k] = IF Fits(third[k - 1], ranked[k], second[k], bytes) THEN 3 ELSE second[k]
      /\ \A k \in 1 .. n : L[k] \in {0, 1, 2, 3}
      /\ \A k \in n + 1 .. N : L[k] = -1
  BY LevelsGiven
<1> HIDE DEF N, L, n, used, second, third, H
<1>5. \A k \in 1 .. N : L[k] \in Int
  <2>1. \A k \in 1 .. N : k \in 1 .. n \/ k \in n + 1 .. N
    BY <1>1, <1>2
  <2>2. \A k \in 1 .. n : L[k] \in Int
    BY <1>4
  <2>3. (\A k \in n + 1 .. N : L[k] = -1) /\ -1 \in Int
    BY <1>4
  <2> HIDE <1>4
  <2> QED
    BY <2>1, <2>2, <2>3
<1>6. /\ out \in Seq(LeveledFile) /\ Len(out) = N /\ DOMAIN out = 1 .. N
      /\ \A k \in 1 .. N :
           /\ out[k] = [ranked[k] EXCEPT !.level = L[k]] /\ out[k] \in LeveledFile
           /\ out[k].header = ranked[k].header /\ out[k].fields = ranked[k].fields
           /\ out[k].groups = ranked[k].groups /\ out[k].symbols = ranked[k].symbols /\ out[k].level = L[k]
  <2>1. \A k \in 1 .. Len(ranked) : L[k] \in Int
    BY <1>5 DEF N
  <2> QED
    BY <2>1, Releveled DEF N
<1> HIDE DEF out
<1>7. /\ \A k \in 1 .. n : k \in 1 .. N /\ k - 1 \in 0 .. n /\ k \in 0 .. n
      /\ \A k \in 1 .. N : k \in 1 .. n \/ k \in n + 1 .. N
      /\ \A k \in n + 1 .. N : k \in 1 .. N
  BY <1>1, <1>2
<1>8. /\ third \in [0 .. n -> Spending] /\ third[0] = [used |-> used[n], promoted |-> 0]
      /\ \A k \in 1 .. n : third[k] = Promote(third[k - 1], ranked[k], second[k], bytes)
  BY <1>2 DEF ThirdPhase, used
<1>9. ASSUME NEW k \in 1 .. n
      PROVE  /\ LevelCost(out[k]) \in Nat /\ GivenBack(out[k]) \in Nat
             /\ LevelCost(out[k]) + used[k - 1] + third[k - 1].used
                  <= ranked[k].header + used[k] + third[k].used + GivenBack(out[k])
             /\ third[k - 1].used <= bytes => third[k].used <= bytes
             /\ used[k - 1] <= bytes => used[k] <= bytes
             /\ used[k - 1] \in Int /\ used[k] \in Int /\ third[k - 1].used \in Int /\ third[k].used \in Int
  <2> DEFINE f == ranked[k]  g == out[k]  u == used[k - 1]  acc == third[k - 1]  s == second[k]
  <2>1. /\ f \in LeveledFile /\ f.level = 0 /\ u \in Int /\ acc \in Spending /\ g \in LeveledFile
        /\ s = Detail(u, f, bytes).level /\ g.level = IF Fits(acc, f, s, bytes) THEN 3 ELSE s
        /\ g.header = f.header /\ g.groups = f.groups /\ g.symbols = f.symbols /\ g.fields = f.fields
        /\ used[k] = Detail(u, f, bytes).used /\ third[k] = Promote(acc, f, s, bytes)
    BY <1>1, <1>2, <1>4, <1>6, <1>7, <1>8
  <2> HIDE DEF f, g, u, acc, s
  <2>2. Pays(f, u, acc, bytes, g, s)
    BY <2>1, FilePays
  <2>3. u <= bytes => Detail(u, f, bytes).used <= bytes
    BY <2>1, DetailSpends
  <2> QED
    BY <2>1, <2>2, <2>3 DEF f, g, u, acc, s, Pays
<1>10. ASSUME NEW k \in n + 1 .. N PROVE LevelCost(out[k]) = 0 /\ GivenBack(out[k]) = 0
  <2>1. out[k].level = -1
    BY <1>4, <1>6, <1>7
  <2> QED
    BY <2>1 DEF LevelCost, GivenBack
<1>11. /\ \A k \in 1 .. N : cost[k] = LevelCost(out[k]) /\ back[k] = GivenBack(out[k])
       /\ cost = [k \in 1 .. N |-> cost[k]] /\ back = [k \in 1 .. N |-> back[k]]
  BY <1>6
<1>12. \A k \in 1 .. N : cost[k] \in Nat /\ back[k] \in Nat
  BY <1>7, <1>9, <1>10, <1>11
<1> HIDE DEF cost, back
<1>13. C \in [0 .. N -> Nat] /\ C[0] = 0 /\ \A k \in 1 .. N : C[k] = C[k - 1] + cost[k]
  BY <1>1, <1>11, <1>12, SumsOfFiles
<1>14. G \in [0 .. N -> Nat] /\ G[0] = 0 /\ \A k \in 1 .. N : G[k] = G[k - 1] + back[k]
  BY <1>1, <1>11, <1>12, SumsOfFiles
<1> HIDE DEF C, G
<1> DEFINE T == {k \in 0 .. n : /\ used[k] <= bytes
                                /\ C[k] + H[n] + used[n] <= H[k] + used[k] + third[k].used + G[k]}
<1>15. \A k \in 0 .. n : k \in T
  <2>1. 0 \in T
    <3>1. 0 \in 0 .. n /\ 0 \in 0 .. N /\ third[0].used = used[n] /\ used[n] \in Int /\ H[n] \in Nat
      BY <1>1, <1>2, <1>3, <1>8
    <3> QED
      BY <3>1, <1>2, <1>3, <1>13, <1>14
  <2>2. ASSUME NEW k \in 1 .. n, k - 1 \in T PROVE k \in T
    <3> DEFINE c1 == C[k]  c0 == C[k - 1]  g1 == G[k]  g0 == G[k - 1]  h1 == H[k]  h0 == H[k - 1]
               u1 == used[k]  u0 == used[k - 1]  t1 == third[k].used  t0 == third[k - 1].used
               c == LevelCost(out[k])  b == GivenBack(out[k])  h == ranked[k].header  hn == H[n]  un == used[n]
    <3>1. k \in 0 .. n /\ k \in 1 .. N /\ k - 1 \in 0 .. N /\ k \in 0 .. N
      BY <1>1, <1>2
    <3>2. c1 = c0 + c /\ g1 = g0 + b /\ h1 = h0 + h /\ c0 \in Nat /\ g0 \in Nat /\ h0 \in Nat
      BY <3>1, <1>3, <1>11, <1>13, <1>14
    <3>3. /\ c \in Nat /\ b \in Nat /\ h \in Nat
          /\ u0 \in Int /\ u1 \in Int /\ t0 \in Int /\ t1 \in Int
          /\ c + u0 + t0 <= h + u1 + t1 + b
          /\ u0 <= bytes => u1 <= bytes
      BY <3>1, <1>1, <1>9 DEF LeveledFile
    <3>4. hn \in Nat /\ un \in Int
      BY <1>1, <1>2, <1>3
    <3>5. u0 <= bytes /\ c0 + hn + un <= h0 + u0 + t0 + g0
      BY <2>2
    <3>6. u1 <= bytes /\ c1 + hn + un <= h1 + u1 + t1 + g1 => k \in T
      BY <3>1
    <3> HIDE DEF c1, c0, g1, g0, h1, h0, u1, u0, t1, t0, c, b, h, hn, un, T
    <3>7. u1 <= bytes /\ c1 + hn + un <= h1 + u1 + t1 + g1
      BY <3>2, <3>3, <3>4, <3>5
    <3> QED
      BY <3>6, <3>7
  <2> HIDE DEF T
  <2>3. \A k \in 1 .. n : k - 1 \in T => k \in T
    BY <2>2
  <2> QED
    BY <1>2, <2>1, <2>3, Climb
<1> DEFINE U == {k \in 0 .. n : third[k].used <= bytes}
<1>16. \A k \in 0 .. n : k \in U
  <2>1. 0 \in U
    <3>1. n \in T /\ third[0].used = used[n] /\ 0 \in 0 .. n
      BY <1>2, <1>8, <1>15
    <3> QED
      BY <3>1
  <2>2. ASSUME NEW k \in 1 .. n, k - 1 \in U PROVE k \in U
    BY <1>7, <1>9, <2>2
  <2> HIDE DEF U
  <2>3. \A k \in 1 .. n : k - 1 \in U => k \in U
    BY <2>2
  <2> QED
    BY <1>2, <2>1, <2>3, Climb
<1>17. C[n] <= bytes + G[n]
  <2>1. n \in T /\ n \in U
    BY <1>2, <1>15, <1>16
  <2>2. /\ C[n] \in Nat /\ G[n] \in Nat /\ H[n] \in Nat /\ used[n] \in Int /\ third[n].used \in Int
    BY <1>1, <1>2, <1>3, <1>8, <1>13, <1>14 DEF Spending
  <2>3. C[n] + H[n] + used[n] <= H[n] + used[n] + third[n].used + G[n] /\ third[n].used <= bytes
    BY <2>1
  <2> QED
    BY <2>2, <2>3
<1> HIDE DEF T, U
<1> DEFINE V == {k \in 0 .. N : k >= n => C[k] <= bytes + G[k]}
<1>18. \A k \in 0 .. N : k \in V
  <2>1. 0 \in V
    BY <1>1, <1>2, <1>17
  <2>2. ASSUME NEW k \in 1 .. N, k - 1 \in V PROVE k \in V
    <3>1. CASE k < n
      BY <3>1, <1>2
    <3>2. CASE k = n
      BY <3>2, <1>17
    <3>3. CASE k > n
      <4>1. k \in n + 1 .. N /\ k - 1 \in 0 .. N /\ k \in 0 .. N /\ k - 1 >= n
        BY <3>3, <1>1, <1>2
      <4>2. C[k - 1] <= bytes + G[k - 1] /\ cost[k] = 0 /\ back[k] = 0 /\ C[k - 1] \in Nat /\ G[k - 1] \in Nat
        BY <4>1, <2>2, <1>10, <1>11, <1>13, <1>14
      <4>3. C[k] = C[k - 1] + cost[k] /\ G[k] = G[k - 1] + back[k]
        BY <1>13, <1>14
      <4>4. C[k] <= bytes + G[k]
        BY <4>2, <4>3
      <4> QED
        BY <4>1, <4>4
    <3> QED
      BY <3>1, <3>2, <3>3, <1>2
  <2> HIDE DEF V
  <2>3. \A k \in 1 .. N : k - 1 \in V => k \in V
    BY <2>2
  <2> QED
    BY <1>1, <2>1, <2>3, Climb
<1>19. C[N] <= bytes + G[N]
  <2>1. N \in V /\ N >= n
    BY <1>1, <1>2, <1>18
  <2> QED
    BY <2>1
<1>20. EstimatedCost(out) = C[N]
  BY <1>6 DEF EstimatedCost, C, cost
<1>21. EstimatedCost(out) <= bytes + G[Len(out)]
  BY <1>6, <1>19, <1>20
<1> QED
  BY <1>21 DEF G, back, out, L

(* For every list of ranked files and every budget the omitted ones are the *)
(* lowest ranked, a second pass changes no level, and what is spent exceeds *)
(* the budget by no more than what was given back (budget.go:15).           *)
THEOREM BudgetsAreSteady ==
  ASSUME NEW ranked \in Seq(RankedFile), NEW maxTokens \in Nat
  PROVE  BudgetIsSteady(ranked, maxTokens)
<1> DEFINE N == Len(ranked)
           bytes == maxTokens * 4
           L == IF maxTokens = 0 THEN [k \in 1 .. N |-> 2] ELSE BudgetLevels(ranked, bytes)
           out == BudgetFiles(ranked, maxTokens)
           n == Cutoff(ranked, bytes)
<1>1. /\ N \in Nat /\ DOMAIN ranked = 1 .. N /\ ranked \in Seq(LeveledFile)
      /\ \A k \in 1 .. N : ranked[k] \in LeveledFile
  BY FirstLevels
<1>2. bytes \in Nat
  OBVIOUS
<1>3. out = Relevel(ranked, L)
  BY <1>1 DEF BudgetFiles, Relevel
<1>4. n \in Nat /\ n <= N
  <2> HIDE DEF bytes
  <2> QED
    BY <1>1, <1>2, BudgetPhases
<1>5. /\ \A k \in 1 .. n : BudgetLevels(ranked, bytes)[k] \in {0, 1, 2, 3}
      /\ \A k \in n + 1 .. N : BudgetLevels(ranked, bytes)[k] = -1
  <2> HIDE DEF bytes
  <2> QED
    BY <1>2, LevelsGiven
<1> HIDE DEF N, n
<1>6. \A k \in 1 .. N : k \in 1 .. n \/ k \in n + 1 .. N
  BY <1>1, <1>4
<1>7. \A k \in 1 .. N : L[k] \in Int
  <2>1. CASE maxTokens = 0
    BY <2>1
  <2>2. CASE maxTokens # 0
    <3>1. L = BudgetLevels(ranked, bytes)
      BY <2>2
    <3> HIDE DEF L, bytes
    <3>2. \A k \in 1 .. n : L[k] \in {0, 1, 2, 3}
      BY <1>5, <3>1
    <3>3. \A k \in n + 1 .. N : L[k] = -1
      BY <1>5, <3>1
    <3>4. -1 \in Int /\ \A v \in {0, 1, 2, 3} : v \in Int
      OBVIOUS
    <3> HIDE <1>5
    <3> QED
      BY <1>6, <3>2, <3>3, <3>4
  <2> QED
    BY <2>1, <2>2
<1>8. /\ out \in Seq(LeveledFile) /\ Len(out) = N /\ DOMAIN out = 1 .. N
      /\ \A k \in 1 .. N :
           /\ out[k] = [ranked[k] EXCEPT !.level = L[k]] /\ out[k] \in LeveledFile
           /\ out[k].header = ranked[k].header /\ out[k].fields = ranked[k].fields
           /\ out[k].groups = ranked[k].groups /\ out[k].symbols = ranked[k].symbols /\ out[k].level = L[k]
  <2> HIDE DEF L, out
  <2>1. \A k \in 1 .. Len(ranked) : L[k] \in Int
    BY <1>7 DEF N
  <2> QED
    BY <1>3, <2>1, Releveled DEF N
<1>9. maxTokens # 0 => BudgetLevels(out, bytes) = L
  <2> HIDE DEF bytes, out
  <2> QED
    BY <1>2, <1>3, LevelsAreSteady
<1>10. BudgetFiles(out, maxTokens) = out
  <2>1. BudgetFiles(out, maxTokens) = [k \in 1 .. N |-> [out[k] EXCEPT !.level = IF maxTokens = 0 THEN 2 ELSE BudgetLevels(out, bytes)[k]]]
    <3> HIDE DEF out
    <3> QED
      BY <1>8 DEF BudgetFiles
  <2>2. \A k \in 1 .. N : (IF maxTokens = 0 THEN 2 ELSE BudgetLevels(out, bytes)[k]) = L[k]
    BY <1>9
  <2>3. BudgetFiles(out, maxTokens) = [k \in 1 .. N |-> [out[k] EXCEPT !.level = L[k]]]
    <3> HIDE DEF out, L, bytes
    <3> QED
      BY <2>1, <2>2
  <2>4. ASSUME NEW k \in 1 .. N PROVE [out[k] EXCEPT !.level = L[k]] = out[k]
    <3> DEFINE f == out[k]  v == L[k]
    <3>1. f \in LeveledFile /\ f.level = v
      BY <1>8
    <3> HIDE DEF f, v
    <3>2. [f EXCEPT !.level = v] = f
      BY <3>1 DEF LeveledFile
    <3> QED
      BY <3>2 DEF f, v
  <2>5. out = [k \in 1 .. N |-> out[k]]
    BY <1>1, <1>3 DEF Relevel
  <2> HIDE DEF out, L
  <2> QED
    BY <2>3, <2>4, <2>5
<1> HIDE DEF out, L
<1>11. ASSUME NEW i \in DOMAIN out, NEW j \in DOMAIN out, i < j, out[i].level = -1 PROVE out[j].level = -1
  <2>1. i \in 1 .. N /\ j \in 1 .. N /\ L[i] = -1 /\ out[j].level = L[j]
    BY <1>8, <1>11
  <2>2. maxTokens # 0
    BY <2>1 DEF L
  <2>3. L = BudgetLevels(ranked, bytes)
    BY <2>2 DEF L
  <2> HIDE DEF bytes
  <2>4. L[i] \notin {0, 1, 2, 3}
    BY <2>1
  <2>5. i \in n + 1 .. N
    BY <1>5, <1>6, <2>1, <2>3, <2>4
  <2>6. j \in n + 1 .. N
    BY <1>11, <2>1, <2>5, <1>1, <1>4
  <2> QED
    BY <1>5, <2>1, <2>3, <2>6
<1>12. ASSUME maxTokens > 0
       PROVE  EstimatedCost(out) <= maxTokens * 4 + Sums([i \in DOMAIN out |-> GivenBack(out[i])])[Len(out)]
  <2>1. out = Relevel(ranked, BudgetLevels(ranked, bytes))
    BY <1>3, <1>12 DEF L
  <2>2. EstimatedCost(out) <= bytes + Sums([i \in DOMAIN out |-> GivenBack(out[i])])[Len(out)]
    <3> HIDE DEF bytes
    <3> QED
      BY <1>2, <2>1, LevelsArePaid
  <2> QED
    BY <2>2
<1>13. /\ BudgetFiles(out, maxTokens) = out
       /\ \A i, j \in DOMAIN out : i < j /\ out[i].level = -1 => out[j].level = -1
       /\ maxTokens > 0 => EstimatedCost(out) <= maxTokens * 4 + Sums([i \in DOMAIN out |-> GivenBack(out[i])])[Len(out)]
  BY <1>10, <1>11, <1>12
<1> QED
  BY <1>13 DEF BudgetIsSteady, out

-----------------------------------------------------------------------------
(* The inventory.                                                          *)

(* Of some places, those with fewer than cap before them are at most cap.   *)
LEMMA FirstOnes ==
  ASSUME NEW K, IsFiniteSet(K), K \subseteq Nat, NEW cap \in Nat
  PROVE  LET first == {i \in K : Cardinality({j \in K : j < i}) < cap} IN
         /\ IsFiniteSet(first) /\ Cardinality(first) \in Nat /\ Cardinality(first) <= cap
         /\ Cardinality(K) < cap => first = K
<1> DEFINE Under(i) == {j \in K : j < i}
           first == {i \in K : Cardinality(Under(i)) < cap}
           c == [i \in first |-> Cardinality(Under(i))]
<1>1. ASSUME NEW i \in K
      PROVE  /\ Under(i) \in SUBSET K /\ IsFiniteSet(Under(i)) /\ Cardinality(Under(i)) \in Nat
             /\ Cardinality(Under(i)) <= Cardinality(K)
  <2>1. Under(i) \in SUBSET K
    OBVIOUS
  <2> HIDE DEF Under
  <2>2. IsFiniteSet(Under(i)) /\ Cardinality(Under(i)) <= Cardinality(K)
    BY <2>1, FS_Subset
  <2> QED
    BY <2>1, <2>2, FS_CardinalityType
<1>2. first \in SUBSET K
  OBVIOUS
<1>3. IsFiniteSet(first) /\ Cardinality(first) \in Nat
  <2> HIDE DEF first
  <2>1. IsFiniteSet(first)
    BY <1>2, FS_Subset
  <2> QED
    BY <2>1, FS_CardinalityType
<1>4. ASSUME NEW i \in K, NEW j \in K, i < j PROVE Cardinality(Under(i)) < Cardinality(Under(j))
  <2>0. \A k \in K : k \in Nat
    OBVIOUS
  <2>a. i \in Under(j) /\ i \notin Under(i)
    BY <1>4, <2>0
  <2>b. Under(i) \in SUBSET Under(j)
    <3>1. ASSUME NEW k \in Under(i) PROVE k \in Under(j)
      <4>1. k \in K /\ k < i /\ k \in Nat /\ i \in Nat /\ j \in Nat
        BY <2>0
      <4>2. k < j
        BY <4>1, <1>4
      <4> QED
        BY <4>1, <4>2
    <3> QED
      BY <3>1
  <2>1. Under(i) \in SUBSET Under(j) /\ i \in Under(j) /\ i \notin Under(i)
    BY <2>a, <2>b
  <2> HIDE DEF Under
  <2>2. IsFiniteSet(Under(j)) /\ Cardinality(Under(i)) \in Nat /\ Cardinality(Under(j)) \in Nat
    BY <1>1
  <2>3. Cardinality(Under(i)) <= Cardinality(Under(j)) /\ Cardinality(Under(i)) # Cardinality(Under(j))
    BY <2>1, <2>2, FS_Subset
  <2> QED
    BY <2>2, <2>3
<1>5. c \in Injection(first, 0 .. cap - 1)
  <2>1. ASSUME NEW i \in first PROVE c[i] \in 0 .. cap - 1
    <3>1. Cardinality(Under(i)) \in Nat /\ Cardinality(Under(i)) < cap
      BY <1>1
    <3> HIDE DEF Under
    <3> QED
      BY <3>1
  <2>2. ASSUME NEW i \in first, NEW j \in first, c[i] = c[j] PROVE i = j
    <3>1. i \in K /\ j \in K /\ i \in Nat /\ j \in Nat
      OBVIOUS
    <3>2. Cardinality(Under(i)) = Cardinality(Under(j)) /\ Cardinality(Under(i)) \in Nat
      BY <2>2, <1>1
    <3> HIDE DEF Under
    <3>3. ~(i < j) /\ ~(j < i)
      BY <3>1, <3>2, <1>4
    <3> QED
      BY <3>1, <3>3
  <2>3. c \in [first -> 0 .. cap - 1]
    BY <2>1
  <2>4. \A i, j \in first : c[i] = c[j] => i = j
    BY <2>2
  <2> QED
    BY ONLY <2>3, <2>4 DEF Injection, IsInjective
<1>6. IsFiniteSet(0 .. cap - 1) /\ Cardinality(0 .. cap - 1) = cap
  BY Stretch
<1>7. Cardinality(first) <= cap
  <2> HIDE DEF first, c
  <2> QED
    BY <1>5, <1>6, FS_Injection
<1>8. Cardinality(K) < cap => first = K
  <2> HIDE DEF Under
  <2>1. Cardinality(K) \in Nat
    BY FS_CardinalityType
  <2>2. Cardinality(K) < cap => \A i \in K : Cardinality(Under(i)) < cap
    BY <1>1, <2>1
  <2> QED
    BY <2>2
<1> QED
  BY <1>3, <1>7, <1>8

(* Files are sorted by their lines, then by their paths.                    *)
LEMMA LongerSorts ==
  ASSUME NEW files \in Seq(CountedFile), NEW K, K \subseteq DOMAIN files
  PROVE  LET Longer(a, b) == a.lines > b.lines \/ (a.lines = b.lines /\ a.path < b.path)
             B == {e \in K \X K : Longer(files[e[1]], files[e[2]])} IN
         /\ Sorts(K, B)
         /\ \A i, j \in K : <<i, j>> \notin B => files[i].lines <= files[j].lines
<1> DEFINE Longer(a, b) == a.lines > b.lines \/ (a.lines = b.lines /\ a.path < b.path)
           B == {e \in K \X K : Longer(files[e[1]], files[e[2]])}
           l == [i \in K |-> files[i].lines]
           p == [i \in K |-> files[i].path]
<1>1. \A i \in K : l[i] \in Nat /\ p[i] \in Nat /\ l[i] = files[i].lines /\ p[i] = files[i].path
  <2>1. \A i \in K : files[i] \in CountedFile
    OBVIOUS
  <2> QED
    BY <2>1 DEF CountedFile
<1>2. \A i, j \in K : <<i, j>> \in B <=> l[i] > l[j] \/ (l[i] = l[j] /\ p[i] < p[j])
  <2>1. \A i, j \in K : <<i, j>> \in B <=> Longer(files[i], files[j])
    OBVIOUS
  <2> HIDE DEF B
  <2> QED
    BY <1>1, <2>1
<1> HIDE DEF B, l, p
<1>3. Sorts(K, B)
  <2> SUFFICES ASSUME NEW i \in K, NEW j \in K, <<i, j>> \in B
               PROVE  <<j, i>> \notin B /\ \A k \in K : <<i, k>> \in B \/ <<k, j>> \in B
    BY DEF Sorts
  <2>1. <<j, i>> \notin B
    BY <1>1, <1>2
  <2>2. ASSUME NEW k \in K PROVE <<i, k>> \in B \/ <<k, j>> \in B
    <3>1. l[i] \in Nat /\ l[j] \in Nat /\ l[k] \in Nat /\ p[i] \in Nat /\ p[j] \in Nat /\ p[k] \in Nat
      BY <1>1
    <3> QED
      BY <1>2, <3>1
  <2> QED
    BY <2>1, <2>2
<1>4. \A i, j \in K : <<i, j>> \notin B => files[i].lines <= files[j].lines
  BY <1>1, <1>2
<1> QED
  BY <1>3, <1>4 DEF B

(* No inventory is longer than its cap, one that does not call itself cut   *)
(* holds every Go file, and the longest come first (inventory.go:60).       *)
THEOREM InventoriesAreHonest ==
  ASSUME NEW files \in Seq(CountedFile), NEW cap \in Nat, NEW stop \in Nat
  PROVE  InventoryIsHonest(files, cap, stop)
<1> DEFINE inv == ScanInventory(files, cap, stop)
           n == Len(files)
           goes == {i \in DOMAIN files : i < stop /\ files[i].go}
           kept == {i \in goes : Cardinality({j \in goes : j < i}) < cap}
           ended == Cardinality(goes) >= cap \/ stop <= Len(files)
           Longer(a, b) == a.lines > b.lines \/ (a.lines = b.lines /\ a.path < b.path)
           B == {e \in kept \X kept : Longer(files[e[1]], files[e[2]])}
           O == Ordered(kept, B)
           m == Cardinality(kept)
           listed == [k \in DOMAIN O |-> files[O[k]]]
<1>1. n \in Nat /\ DOMAIN files = 1 .. n /\ \A i \in 1 .. n : files[i] \in CountedFile
  BY LenProperties, ElementOfSeq
<1>2. goes \in SUBSET (1 .. n) /\ goes \subseteq Nat
  BY <1>1
<1>3. IsFiniteSet(goes)
  <2> HIDE DEF goes
  <2>1. IsFiniteSet(1 .. n)
    BY <1>1, Stretch
  <2> QED
    BY <1>2, <2>1, FS_Subset
<1>4. inv = IF ended /\ kept = {} THEN Failed ELSE [failed |-> FALSE, truncated |-> ended, files |-> listed]
  BY DEF ScanInventory
<1>5. IsFiniteSet(kept) /\ m \in Nat /\ m <= cap /\ (Cardinality(goes) < cap => kept = goes)
  <2> HIDE DEF goes
  <2> QED
    BY <1>2, <1>3, FirstOnes
<1>6. kept \subseteq DOMAIN files /\ kept \subseteq Nat
  BY <1>1, <1>2
<1> HIDE DEF kept
<1>7. Sorts(kept, B) /\ \A i, j \in kept : <<i, j>> \notin B => files[i].lines <= files[j].lines
  BY <1>6, LongerSorts
<1> HIDE DEF B
<1>8. /\ O \in [1 .. m -> kept]
      /\ \A i \in kept : \E k \in 1 .. m : O[k] = i
      /\ \A k, l \in 1 .. m : k < l => <<O[l], O[k]>> \notin B
  BY <1>5, <1>6, <1>7, OrderedSorts
<1> HIDE DEF O, m
<1>9. /\ listed = [k \in 1 .. m |-> listed[k]] /\ DOMAIN listed = 1 .. m
      /\ \A k \in 1 .. m : listed[k] = files[O[k]] /\ O[k] \in kept /\ listed[k] \in CountedFile
  BY <1>1, <1>6, <1>8
<1> HIDE DEF listed
<1>10. listed \in Seq(CountedFile) /\ Len(listed) = m
  BY <1>5, <1>9, ListOf
<1>11. ASSUME NEW k \in 1 .. m, NEW l \in 1 .. m, k < l PROVE listed[k].lines >= listed[l].lines
  <2>1. O[k] \in kept /\ O[l] \in kept /\ <<O[l], O[k]>> \notin B
    BY <1>8, <1>11
  <2>2. files[O[l]].lines <= files[O[k]].lines
    BY <1>7, <2>1
  <2>3. files[O[l]].lines \in Nat /\ files[O[k]].lines \in Nat
    BY <1>9 DEF CountedFile
  <2> QED
    BY <1>9, <2>2, <2>3
<1>12. ASSUME ~ended PROVE ToSet(listed) = {f \in ToSet(files) : f.go}
  <2>1. Cardinality(goes) \in Nat
    BY <1>3, FS_CardinalityType
  <2>2. kept = goes /\ stop > n
    BY <1>1, <1>5, <1>12, <2>1
  <2>3. \A i \in 1 .. n : i \in goes <=> files[i].go
    BY <1>1, <2>2
  <2>4. ASSUME NEW f \in ToSet(listed) PROVE f \in ToSet(files) /\ f.go
    <3>1. PICK k \in 1 .. m : f = listed[k]
      BY <1>9 DEF ToSet
    <3>2. O[k] \in goes /\ f = files[O[k]]
      BY <1>9, <2>2, <3>1
    <3> QED
      BY <1>1, <1>2, <2>3, <3>2 DEF ToSet
  <2>5. ASSUME NEW f \in ToSet(files), f.go PROVE f \in ToSet(listed)
    <3>1. PICK i \in 1 .. n : f = files[i]
      BY <1>1 DEF ToSet
    <3>2. i \in kept
      BY <2>2, <2>3, <2>5, <3>1
    <3>3. PICK k \in 1 .. m : O[k] = i
      BY <1>8, <3>2
    <3> QED
      BY <1>9, <3>1, <3>3 DEF ToSet
  <2> QED
    BY <2>4, <2>5
<1> HIDE DEF inv, ended
<1>13. CASE ended /\ kept = {}
  <2>1. inv = Failed /\ Len(<<>>) = 0 /\ DOMAIN <<>> = {}
    BY <1>4, <1>13
  <2>2. inv.failed = TRUE /\ inv.files = <<>>
    BY <2>1 DEF Failed
  <2>3. Len(inv.files) <= cap /\ DOMAIN inv.files = {}
    BY <2>1, <2>2
  <2> QED
    BY <2>2, <2>3 DEF InventoryIsHonest, inv
<1>14. CASE ~(ended /\ kept = {})
  <2>1. inv = [failed |-> FALSE, truncated |-> ended, files |-> listed]
    BY <1>4, <1>14
  <2>2. inv.failed = FALSE /\ inv.truncated = ended /\ inv.files = listed
    BY <2>1
  <2>3. Len(inv.files) <= cap
    BY <1>5, <1>10, <2>2
  <2>4. ~inv.failed /\ ~inv.truncated => ToSet(inv.files) = {f \in ToSet(files) : f.go}
    BY <1>12, <2>2
  <2>5. \A i, j \in DOMAIN inv.files : i < j => inv.files[i].lines >= inv.files[j].lines
    BY <1>9, <1>11, <2>2
  <2> QED
    BY <2>3, <2>4, <2>5 DEF InventoryIsHonest, inv
<1> QED
  BY <1>13, <1>14

-----------------------------------------------------------------------------
(* Fields and their owners.                                                *)

(* Of some places one is the last.                                          *)
LEMMA LastOne ==
  ASSUME NEW K, IsFiniteSet(K), K \subseteq Nat, K # {}
  PROVE  \E i \in K : \A j \in K : j <= i
<1> DEFINE n == Cardinality(K)  O == InTurn(K)
<1> HIDE DEF n, O
<1>1. /\ n \in Nat /\ O \in [1 .. n -> K]
      /\ \A i \in K : \E k \in 1 .. n : O[k] = i
      /\ \A k, l \in 1 .. n : k < l => O[k] < O[l]
  BY InTurnLists DEF n, O
<1>2. n \in 1 .. n
  <2>1. PICK i \in K : TRUE
    OBVIOUS
  <2>2. \E k \in 1 .. n : O[k] = i
    BY <1>1
  <2>3. \E k \in 1 .. n : TRUE
    BY <2>2
  <2>4. n \in Nat
    BY <1>1
  <2> QED
    BY ONLY <2>3, <2>4
<1>3. ASSUME NEW j \in K PROVE j <= O[n]
  <2>1. PICK k \in 1 .. n : O[k] = j
    BY <1>1
  <2>2. j \in Nat /\ O[n] \in Nat
    BY <1>1, <1>2
  <2>3. CASE k = n
    BY <2>1, <2>2, <2>3
  <2>4. CASE k # n
    <3>1. k < n
      BY <1>1, <2>4
    <3> QED
      BY <1>1, <1>2, <2>1, <2>2, <3>1
  <2> QED
    BY <2>3, <2>4
<1> QED
  BY <1>1, <1>2, <1>3

(* What is read off places listed in turn is what stands at these places.   *)
LEMMA ReadInTurn ==
  ASSUME NEW K, IsFiniteSet(K), K \subseteq Nat, NEW f
  PROVE  LET s == [k \in DOMAIN InTurn(K) |-> f[InTurn(K)[k]]] IN
         \A x : x \in ToSet(s) <=> \E i \in K : f[i] = x
<1> DEFINE n == Cardinality(K)  O == InTurn(K)  s == [k \in DOMAIN O |-> f[O[k]]]
<1> HIDE DEF n, O
<1>1. /\ n \in Nat /\ O \in [1 .. n -> K]
      /\ \A i \in K : \E k \in 1 .. n : O[k] = i
  BY InTurnLists DEF n, O
<1>2. DOMAIN s = 1 .. n /\ \A k \in 1 .. n : s[k] = f[O[k]]
  BY <1>1
<1> HIDE DEF s
<1>3. \A x : x \in ToSet(s) <=> \E i \in K : f[i] = x
  <2>1. ToSet(s) = {s[k] : k \in 1 .. n}
    BY <1>2 DEF ToSet
  <2>2. ASSUME NEW k \in 1 .. n PROVE O[k] \in K /\ f[O[k]] = s[k]
    BY <1>1, <1>2
  <2>3. ASSUME NEW i \in K PROVE \E k \in 1 .. n : s[k] = f[i]
    <3>1. PICK k \in 1 .. n : O[k] = i
      BY <1>1
    <3> QED
      BY <3>1, <2>2
  <2>4. ASSUME NEW x, x \in ToSet(s) PROVE \E i \in K : f[i] = x
    <3>1. PICK k \in 1 .. n : x = s[k]
      BY <2>1, <2>4
    <3>2. O[k] \in K /\ f[O[k]] = s[k]
      BY <2>2
    <3> QED
      BY <3>1, <3>2
  <2>5. ASSUME NEW x, \E i \in K : f[i] = x PROVE x \in ToSet(s)
    BY <2>1, <2>3, <2>5
  <2> QED
    BY <2>4, <2>5
<1> QED
  BY <1>3 DEF s, O

(* The symbols of a file: each stands for an entry of its name and gathers  *)
(* the names of the members of that entry.                                  *)
LEMMA SymbolsGather ==
  ASSUME NEW entries \in Seq(CtagsEntry), NEW file
  PROVE  LET S == SymbolEntries(file, entries)  O == InTurn(S)  C == CtagsSymbols(file, entries)  n == Cardinality(S) IN
         /\ n \in Nat /\ n <= Len(entries) /\ O \in [1 .. n -> S]
         /\ \A i \in S : \E k \in 1 .. n : O[k] = i
         /\ \A k, l \in 1 .. n : O[k] = O[l] => k = l
         /\ DOMAIN C = 1 .. n
         /\ \A k \in 1 .. n : /\ C[k].name = entries[O[k]].name
                              /\ \A x : x \in ToSet(C[k].fields) <=> \E m \in MemberEntries(file, entries, O[k]) : entries[m].name = x
<1> DEFINE S == SymbolEntries(file, entries)  O == InTurn(S)  C == CtagsSymbols(file, entries)  n == Cardinality(S)
           Own(i) == InTurn(MemberEntries(file, entries, i))
           Fields(i) == [k \in DOMAIN Own(i) |-> entries[Own(i)[k]].name]
           names == [m \in DOMAIN entries |-> entries[m].name]
<1>0. Len(entries) \in Nat /\ DOMAIN entries = 1 .. Len(entries)
  BY LenProperties
<1>1. IsFiniteSet(DOMAIN entries) /\ Cardinality(DOMAIN entries) = Len(entries) /\ DOMAIN entries \subseteq Nat
  BY <1>0, Stretch
<1>2. S \in SUBSET DOMAIN entries /\ \A i : MemberEntries(file, entries, i) \in SUBSET DOMAIN entries
  BY DEF SymbolEntries, MemberEntries
<1>3. IsFiniteSet(S) /\ S \subseteq Nat /\ n <= Len(entries)
  <2> HIDE DEF S
  <2> QED
    BY <1>1, <1>2, FS_Subset
<1>4. \A i : IsFiniteSet(MemberEntries(file, entries, i)) /\ MemberEntries(file, entries, i) \subseteq Nat
  BY <1>1, <1>2, FS_Subset
<1>5. C = [k \in DOMAIN O |-> [name |-> entries[O[k]].name, kind |-> entries[O[k]].kind, fields |-> Fields(O[k])]]
  BY DEF CtagsSymbols
<1> HIDE DEF S, n, O, C
<1>6. /\ n \in Nat /\ O \in [1 .. n -> S]
      /\ \A i \in S : \E k \in 1 .. n : O[k] = i
      /\ \A k, l \in 1 .. n : O[k] = O[l] => k = l
  BY <1>3, InTurnLists DEF n, O
<1>7. DOMAIN C = 1 .. n /\ \A k \in 1 .. n : C[k].name = entries[O[k]].name /\ C[k].fields = Fields(O[k])
  <2> HIDE DEF Fields
  <2> QED
    BY <1>5, <1>6
<1>8. ASSUME NEW i, NEW x PROVE x \in ToSet(Fields(i)) <=> \E m \in MemberEntries(file, entries, i) : entries[m].name = x
  <2> DEFINE M == MemberEntries(file, entries, i)
  <2>1. IsFiniteSet(M) /\ M \subseteq Nat /\ M \subseteq DOMAIN entries
    BY <1>2, <1>4
  <2> HIDE DEF M
  <2> DEFINE s == [k \in DOMAIN InTurn(M) |-> names[InTurn(M)[k]]]
  <2>2. InTurn(M) \in [1 .. Cardinality(M) -> M]
    BY <2>1, InTurnLists
  <2>3. \A k \in DOMAIN InTurn(M) : names[InTurn(M)[k]] = entries[InTurn(M)[k]].name
    BY <2>1, <2>2
  <2>4. Fields(i) = s
    BY <2>3 DEF M
  <2>5. \A y : y \in ToSet(s) <=> \E m \in M : names[m] = y
    <3> HIDE DEF names
    <3> QED
      BY <2>1, ReadInTurn
  <2>6. \A m \in M : names[m] = entries[m].name
    BY <2>1
  <2> HIDE DEF names, s, Fields
  <2>7. x \in ToSet(s) <=> \E m \in M : entries[m].name = x
    BY <2>5, <2>6
  <2> QED
    BY <2>4, <2>7 DEF M
<1> HIDE DEF Fields
<1>9. \A k \in 1 .. n : \A x : x \in ToSet(C[k].fields) <=> \E m \in MemberEntries(file, entries, O[k]) : entries[m].name = x
  BY <1>7, <1>8
<1> QED
  BY <1>3, <1>6, <1>7, <1>9 DEF S, n, O, C

(* Every file of another language has one result, with the symbols ctags    *)
(* found in it.                                                             *)
LEMMA FilesAnswerOnce ==
  ASSUME NEW files \in Seq(CtagsFile), PathsDiffer(files), NEW entries
  PROVE  LET out == ParseWithCtags(files, entries) IN
         /\ \A i \in DOMAIN out : out[i].symbols = CtagsSymbols(out[i].path, entries)
         /\ \A i, j \in DOMAIN out : out[i].path = out[j].path => i = j
<1> DEFINE K == {i \in DOMAIN files : files[i].lang # "go"}  O == InTurn(K)  n == Cardinality(K)
           out == ParseWithCtags(files, entries)
<1>0. Len(files) \in Nat /\ DOMAIN files = 1 .. Len(files)
  BY LenProperties
<1>1. K \in SUBSET DOMAIN files
  OBVIOUS
<1>2. out = [k \in DOMAIN O |-> [path |-> files[O[k]].path, symbols |-> CtagsSymbols(files[O[k]].path, entries)]]
  BY DEF ParseWithCtags
<1> HIDE DEF K, n, O, out
<1>3. IsFiniteSet(K) /\ K \subseteq Nat
  BY <1>0, <1>1, Stretch, FS_Subset
<1>4. n \in Nat /\ O \in [1 .. n -> K] /\ \A k, l \in 1 .. n : O[k] = O[l] => k = l
  BY <1>3, InTurnLists DEF n, O
<1>5. DOMAIN out = 1 .. n /\ \A k \in 1 .. n : out[k].path = files[O[k]].path /\ out[k].symbols = CtagsSymbols(files[O[k]].path, entries)
  BY <1>2, <1>4
<1>6. \A i, j \in DOMAIN out : out[i].path = out[j].path => i = j
  BY <1>1, <1>4, <1>5 DEF PathsDiffer
<1> QED
  BY <1>5, <1>6 DEF out

(* A set that holds something and nothing else has one element.             *)
LEMMA OneElement ==
  ASSUME NEW s, NEW a, s = {a}
  PROVE  Cardinality(s) = 1
BY FS_Singleton

(* Whatever entries ctags prints, a field whose container is a symbol of    *)
(* its file is shown under exactly one, and no other (parser_ctags.go:60).  *)
THEOREM FieldsAreOwned ==
  ASSUME NEW files \in Seq(CtagsFile), PathsDiffer(files), NEW entries \in Seq(CtagsEntry)
  PROVE  FieldsFindTheirOwner(files, entries)
<1> DEFINE out == ParseWithCtags(files, entries)
           Shown(x) == {p \in (DOMAIN out) \X (1 .. Len(entries)) :
                          p[2] \in DOMAIN out[p[1]].symbols /\ x \in ToSet(out[p[1]].symbols[p[2]].fields)}
           Twin(k) == \E l \in DOMAIN entries \ {k} : entries[l].name = entries[k].name /\ IsMemberKind(entries[l].kind)
           Owned(k) == /\ IsScopeContainer(entries[k].of)
                       /\ \E i \in DOMAIN out : /\ out[i].path = entries[k].file
                                                /\ \E j \in DOMAIN out[i].symbols : out[i].symbols[j].name = entries[k].scope
           Place(i, j) == InTurn(SymbolEntries(out[i].path, entries))[j]
           Mine(i, k) == MemberEntries(out[i].path, entries, k)
           Count(i) == Cardinality(SymbolEntries(out[i].path, entries))
<1>0. Len(entries) \in Nat /\ DOMAIN entries = 1 .. Len(entries) /\ \A k \in DOMAIN entries : entries[k] \in CtagsEntry
  BY LenProperties
<1>1. /\ \A i \in DOMAIN out : out[i].symbols = CtagsSymbols(out[i].path, entries)
      /\ \A i, j \in DOMAIN out : out[i].path = out[j].path => i = j
  BY FilesAnswerOnce
<1> HIDE DEF out
<1>2. ASSUME NEW i \in DOMAIN out
      PROVE  /\ Count(i) \in Nat /\ Count(i) <= Len(entries) /\ DOMAIN out[i].symbols = 1 .. Count(i)
             /\ \A j \in 1 .. Count(i) : Place(i, j) \in SymbolEntries(out[i].path, entries)
             /\ \A l \in SymbolEntries(out[i].path, entries) : \E j \in 1 .. Count(i) : Place(i, j) = l
             /\ \A j, l \in 1 .. Count(i) : Place(i, j) = Place(i, l) => j = l
             /\ \A j \in 1 .. Count(i) : /\ out[i].symbols[j].name = entries[Place(i, j)].name
                                         /\ \A x : x \in ToSet(out[i].symbols[j].fields) <=> \E m \in Mine(i, Place(i, j)) : entries[m].name = x
  <2> DEFINE q == out[i].path
  <2>1. out[i].symbols = CtagsSymbols(q, entries)
    BY <1>1
  <2> HIDE DEF q
  <2> DEFINE S == SymbolEntries(q, entries)  O == InTurn(S)  C == CtagsSymbols(q, entries)  n == Cardinality(S)
  <2>2. /\ n \in Nat /\ n <= Len(entries) /\ O \in [1 .. n -> S]
        /\ \A l \in S : \E k \in 1 .. n : O[k] = l
        /\ \A k, l \in 1 .. n : O[k] = O[l] => k = l
        /\ DOMAIN C = 1 .. n
        /\ \A k \in 1 .. n : /\ C[k].name = entries[O[k]].name
                             /\ \A x : x \in ToSet(C[k].fields) <=> \E m \in MemberEntries(q, entries, O[k]) : entries[m].name = x
    BY SymbolsGather
  <2> HIDE DEF S, O, C, n
  <2>3. \A k \in 1 .. n : O[k] \in S
    BY <2>2
  <2>4. out[i].symbols = C
    BY <2>1 DEF C
  <2> QED
    BY <2>2, <2>3, <2>4 DEF S, O, n, q
<1> HIDE DEF Place, Mine, Count
<1>3. ASSUME NEW k \in DOMAIN entries, IsMemberKind(entries[k].kind), ~Twin(k)
      PROVE  /\ Owned(k) <=> Cardinality(Shown(entries[k].name)) = 1
             /\ \A p \in Shown(entries[k].name) : out[p[1]].path = entries[k].file
  <2> DEFINE e == entries[k]  s == Shown(entries[k].name)
  <2>a. ASSUME NEW i \in DOMAIN out, NEW j \in 1 .. Count(i), e.name \in ToSet(out[i].symbols[j].fields)
        PROVE  k \in Mine(i, Place(i, j))
    <3> DEFINE x == e.name  F == out[i].symbols[j].fields  M == Mine(i, Place(i, j))
    <3>0. \A y : y \in ToSet(F) <=> \E m \in M : entries[m].name = y
      BY <1>2
    <3> HIDE DEF F
    <3>x. x \in ToSet(F)
      BY <2>a DEF F
    <3> HIDE DEF x, M
    <3>y. \E m \in M : entries[m].name = x
      BY <3>0, <3>x
    <3>1. PICK m \in Mine(i, Place(i, j)) : entries[m].name = e.name
      BY <3>y DEF x, M
    <3>2. m \in DOMAIN entries /\ IsMemberKind(entries[m].kind)
      BY DEF Mine, MemberEntries
    <3>3. m = k
      BY <1>3, <3>1, <3>2
    <3> QED
      BY <3>3
  <2>b. ASSUME NEW i \in DOMAIN out, NEW j \in 1 .. Count(i), k \in Mine(i, Place(i, j))
        PROVE  <<i, j>> \in s
    <3>1. e.name \in ToSet(out[i].symbols[j].fields)
      BY <1>2, <2>b
    <3>2. j \in DOMAIN out[i].symbols /\ j \in 1 .. Len(entries)
      BY <1>2, <1>0
    <3> QED
      BY <3>1, <3>2
  <2>c. ASSUME NEW p \in s
        PROVE  /\ p = <<p[1], p[2]>> /\ p[1] \in DOMAIN out /\ p[2] \in 1 .. Count(p[1])
               /\ k \in Mine(p[1], Place(p[1], p[2]))
    <3>1. p = <<p[1], p[2]>> /\ p[1] \in DOMAIN out /\ p[2] \in DOMAIN out[p[1]].symbols
          /\ e.name \in ToSet(out[p[1]].symbols[p[2]].fields)
      OBVIOUS
    <3>2. p[2] \in 1 .. Count(p[1])
      BY <1>2, <3>1
    <3> QED
      BY <2>a, <3>1, <3>2
  <2> HIDE DEF s
  <2>d. ASSUME NEW i, NEW l, k \in Mine(i, l)
        PROVE  /\ out[i].path = e.file /\ IsScopeContainer(e.of) /\ e.scope = entries[l].name
               /\ \A j \in SymbolEntries(out[i].path, entries) : j > l => entries[j].name # entries[l].name
    BY <2>d DEF Mine, MemberEntries
  <2>1. \A p \in s : out[p[1]].path = e.file
    BY <2>c, <2>d
  <2>2. ASSUME NEW p \in s, NEW q \in s PROVE p = q
    <3>1. p[1] = q[1]
      BY <2>1, <2>2, <2>c, <1>1
    <3> DEFINE i == p[1]
    <3>2. i \in DOMAIN out /\ p[2] \in 1 .. Count(i) /\ q[2] \in 1 .. Count(i)
          /\ k \in Mine(i, Place(i, p[2])) /\ k \in Mine(i, Place(i, q[2]))
      BY <2>c, <3>1
    <3> HIDE DEF i
    <3> DEFINE a == Place(i, p[2])  b == Place(i, q[2])
    <3>3. /\ a \in SymbolEntries(out[i].path, entries) /\ b \in SymbolEntries(out[i].path, entries)
          /\ a \in Nat /\ b \in Nat
      <4>1. a \in SymbolEntries(out[i].path, entries) /\ b \in SymbolEntries(out[i].path, entries)
        BY <3>2, <1>2
      <4> HIDE DEF a, b
      <4>2. a \in 1 .. Len(entries) /\ b \in 1 .. Len(entries)
        BY <4>1, <1>0 DEF SymbolEntries
      <4> QED
        BY <4>1, <4>2
    <3>4. /\ e.scope = entries[a].name /\ e.scope = entries[b].name
          /\ \A j \in SymbolEntries(out[i].path, entries) : j > a => entries[j].name # entries[a].name
          /\ \A j \in SymbolEntries(out[i].path, entries) : j > b => entries[j].name # entries[b].name
      BY <3>2, <2>d
    <3> HIDE DEF e
    <3>5. a = b
      <4> HIDE DEF a, b
      <4>1. ~(a > b) /\ ~(b > a)
        BY <3>3, <3>4
      <4> QED
        BY <3>3, <4>1
    <3>6. p[2] = q[2]
      BY <3>2, <3>5, <1>2
    <3> QED
      BY <2>c, <3>1, <3>6
  <2>3. ASSUME Owned(k) PROVE s # {}
    <3>1. PICK i \in DOMAIN out : out[i].path = e.file /\ \E j \in DOMAIN out[i].symbols : out[i].symbols[j].name = e.scope
      BY <2>3
    <3>2. PICK j \in 1 .. Count(i) : out[i].symbols[j].name = e.scope
      BY <3>1, <1>2
    <3> DEFINE L == {l \in SymbolEntries(out[i].path, entries) : entries[l].name = e.scope}
    <3>3. Place(i, j) \in L
      BY <3>2, <1>2
    <3>4. L \in SUBSET DOMAIN entries
      BY DEF SymbolEntries
    <3> HIDE DEF L
    <3>5. IsFiniteSet(L) /\ L \subseteq Nat
      <4>1. IsFiniteSet(DOMAIN entries) /\ DOMAIN entries \subseteq Nat
        BY <1>0, Stretch
      <4> QED
        BY <4>1, <3>4, FS_Subset
    <3>6. PICK l \in L : \A h \in L : h <= l
      BY <3>3, <3>5, LastOne
    <3>7. l \in SymbolEntries(out[i].path, entries) /\ entries[l].name = e.scope /\ l \in DOMAIN entries /\ l \in Nat
      BY <3>4, <3>5 DEF L
    <3>8. \A h \in SymbolEntries(out[i].path, entries) : h > l => entries[h].name # entries[l].name
      <4>1. SUFFICES ASSUME NEW h \in SymbolEntries(out[i].path, entries), h > l, entries[h].name = entries[l].name
                     PROVE  FALSE
        OBVIOUS
      <4>2. h \in L
        BY <3>7, <4>1 DEF L
      <4> QED
        BY <3>5, <3>6, <4>1, <4>2
    <3>9. e.scope # NoName
      <4> HIDE DEF NoName
      <4>1. entries[l].name \in STRING \ {NoName}
        BY <1>0, <3>7 DEF CtagsEntry
      <4> QED
        BY <3>7, <4>1
    <3>10. k \in Mine(i, l)
      BY <3>1, <3>7, <3>8, <3>9, <1>3, <2>3 DEF Mine, MemberEntries
    <3>11. PICK h \in 1 .. Count(i) : Place(i, h) = l
      BY <3>7, <1>2
    <3> QED
      BY <2>b, <3>10, <3>11
  <2>4. ASSUME s # {} PROVE Owned(k)
    <3>1. PICK p \in s : TRUE
      BY <2>4
    <3>2. p[1] \in DOMAIN out /\ p[2] \in 1 .. Count(p[1]) /\ k \in Mine(p[1], Place(p[1], p[2]))
      BY <2>c
    <3>3. out[p[1]].path = e.file /\ IsScopeContainer(e.of) /\ e.scope = entries[Place(p[1], p[2])].name
      BY <3>2, <2>d
    <3>4. p[2] \in DOMAIN out[p[1]].symbols /\ out[p[1]].symbols[p[2]].name = e.scope
      BY <3>2, <3>3, <1>2
    <3> QED
      BY <3>2, <3>3, <3>4
  <2>5. s = {} => Cardinality(s) = 0
    BY FS_EmptySet
  <2>6. s # {} => Cardinality(s) = 1
    <3>1. SUFFICES ASSUME NEW p \in s PROVE Cardinality(s) = 1
      OBVIOUS
    <3>2. s = {p}
      BY <2>2
    <3> QED
      BY <3>2, OneElement
  <2>7. Owned(k) <=> Cardinality(s) = 1
    <3> HIDE DEF Owned
    <3> QED
      BY <2>3, <2>4, <2>5, <2>6
  <2> QED
    BY <2>1, <2>7 DEF s
<1> QED
  BY <1>3 DEF FieldsFindTheirOwner, out

-----------------------------------------------------------------------------
(* Comments, line by line.                                                 *)

(* Following comments is a yes or a no.                                     *)
LEMMA TracksYesOrNo ==
  ASSUME NEW lang, NEW line, NEW b \in BOOLEAN
  PROVE  Track(lang, line, b) \in BOOLEAN
<1> DEFINE i == SelectInSeq(line.tokens, LAMBDA t : t = "open")
<1>1. TrackBlockComment(line, b) \in BOOLEAN
  <2>1. CASE b
    BY <2>1 DEF TrackBlockComment, Has
  <2>2. CASE ~b
    BY <2>2 DEF TrackBlockComment
  <2> QED
    BY <2>1, <2>2
<1>2. TrackDocstring(line, b) \in BOOLEAN
  BY DEF TrackDocstring, Has, Starts
<1> QED
  BY <1>1, <1>2 DEF Track

(* Comments are followed from line to line.                                 *)
LEMMA InsideFollows ==
  ASSUME NEW lang, NEW lines, Len(lines) \in Nat
  PROVE  /\ Inside(lang, lines)[0] = FALSE
         /\ \A k \in 1 .. Len(lines) : Inside(lang, lines)[k] = Track(lang, lines[k], Inside(lang, lines)[k - 1])
<1> DEFINE n == Len(lines)
           Rule(f) == f = [k \in 0 .. n |-> k > 0 /\ Track(lang, lines[k], f[k - 1])]
           g == [k \in 1 .. n |-> [b \in BOOLEAN |-> Track(lang, lines[k], b)]]
           F == CHOOSE f : Rule(f)
<1>1. n \in Nat /\ FALSE \in BOOLEAN
  OBVIOUS
<1>2. Inside(lang, lines) = F
  BY DEF Inside
<1> HIDE DEF n
<1>3. g \in Steps(n, BOOLEAN)
  <2>1. ASSUME NEW k \in 1 .. n PROVE [b \in BOOLEAN |-> Track(lang, lines[k], b)] \in [BOOLEAN -> BOOLEAN]
    BY TracksYesOrNo
  <2> QED
    BY <2>1 DEF Steps
<1>4. \A k \in 1 .. n : \A b \in BOOLEAN : g[k][b] = Track(lang, lines[k], b)
  OBVIOUS
<1> HIDE DEF g
<1>5. PICK h : Walks(h, n, BOOLEAN, FALSE, g)
  BY <1>1, <1>3, StepByStep
<1>6. h \in [0 .. n -> BOOLEAN] /\ h[0] = FALSE /\ \A k \in 1 .. n : h[k] = g[k][h[k - 1]]
  BY <1>5 DEF Walks
<1>7. \A k \in 1 .. n : k - 1 \in 0 .. n /\ k \in 0 .. n /\ k > 0
  BY <1>1
<1>8. \A k \in 1 .. n : h[k] = Track(lang, lines[k], h[k - 1])
  <2>1. \A k \in 1 .. n : h[k - 1] \in BOOLEAN
    BY <1>6, <1>7
  <2> QED
    BY <1>4, <1>6, <2>1
<1>9. Rule(h)
  <2>0. 0 \in 0 .. n /\ ~(0 > 0)
    BY <1>1
  <2>1. \A k \in 0 .. n : k # 0 => k \in 1 .. n
    OBVIOUS
  <2>2. ASSUME NEW k \in 0 .. n PROVE h[k] = (k > 0 /\ Track(lang, lines[k], h[k - 1]))
    <3>1. CASE k = 0
      BY <1>6, <2>0, <3>1
    <3>2. CASE k # 0
      <4>1. k \in 1 .. n /\ k > 0 /\ k - 1 \in 0 .. n
        BY <3>2, <2>1, <1>7
      <4>2. h[k - 1] \in BOOLEAN
        BY <1>6, <4>1
      <4>3. Track(lang, lines[k], h[k - 1]) \in BOOLEAN
        BY <4>2, TracksYesOrNo
      <4>4. h[k] = Track(lang, lines[k], h[k - 1])
        BY <4>1, <1>8
      <4>5. (k > 0 /\ Track(lang, lines[k], h[k - 1])) = Track(lang, lines[k], h[k - 1])
        BY <4>1, <4>3
      <4> QED
        BY <4>4, <4>5
    <3> QED
      BY <3>1, <3>2
  <2>3. h = [k \in 0 .. n |-> h[k]]
    BY <1>6
  <2>4. [k \in 0 .. n |-> h[k]] = [k \in 0 .. n |-> k > 0 /\ Track(lang, lines[k], h[k - 1])]
    BY <2>2
  <2> QED
    BY <2>3, <2>4
<1> HIDE DEF Rule
<1>10. Rule(F)
  BY <1>9
<1> HIDE DEF F
<1>11. F = [k \in 0 .. n |-> k > 0 /\ Track(lang, lines[k], F[k - 1])]
  BY <1>10 DEF Rule
<1>12. \A k \in 0 .. n : F[k] = (k > 0 /\ Track(lang, lines[k], F[k - 1]))
  BY <1>11
<1>13. F[0] = FALSE
  <2>1. 0 \in 0 .. n /\ ~(0 > 0)
    BY <1>1
  <2> QED
    BY <2>1, <1>12
<1>14. \A k \in 1 .. n : F[k] = (TRUE /\ Track(lang, lines[k], F[k - 1]))
  BY <1>7, <1>12
<1>15. \A k \in 1 .. n : F[k - 1] \in BOOLEAN => F[k] = Track(lang, lines[k], F[k - 1])
  <2>1. ASSUME NEW k \in 1 .. n, F[k - 1] \in BOOLEAN PROVE F[k] = Track(lang, lines[k], F[k - 1])
    <3>1. Track(lang, lines[k], F[k - 1]) \in BOOLEAN
      BY <2>1, TracksYesOrNo
    <3> QED
      BY <3>1, <1>14
  <2> QED
    BY <2>1
<1>16. Walks(F, n, BOOLEAN, FALSE, g)
  <2>1. F = [k \in 0 .. n |-> F[k]]
    BY <1>11
  <2>2. \A k \in 1 .. n : F[k - 1] \in BOOLEAN => F[k] = g[k][F[k - 1]]
    BY <1>4, <1>15
  <2> QED
    BY <1>1, <1>3, <1>13, <2>1, <2>2, KeepsWalking
<1>17. \A k \in 1 .. n : F[k - 1] \in BOOLEAN
  BY <1>16, <1>7 DEF Walks
<1> QED
  BY <1>2, <1>13, <1>15, <1>17 DEF n

(* What stands behind the first m of a sequence is in the rest of it.       *)
LEMMA StandsBehind ==
  ASSUME NEW T, NEW t \in Seq(T), NEW m \in Nat, NEW j \in m + 1 .. Len(t)
  PROVE  t[j] \in ToSet(SubSeq(t, m + 1, Len(t)))
<1> DEFINE n == Len(t)  r == SubSeq(t, m + 1, n)
<1>1. n \in Nat /\ \A i \in m + 1 .. n : t[i] \in T
  BY LenProperties
<1>2. m + 1 \in Int /\ n \in Int
  BY <1>1
<1> HIDE DEF n
<1>3. /\ r \in Seq(T) /\ Len(r) = (IF m + 1 <= n THEN n - (m + 1) + 1 ELSE 0)
      /\ \A i \in 1 .. n - (m + 1) + 1 : r[i] = t[m + 1 + i - 1]
  BY <1>1, <1>2, SubSeqProperties
<1> HIDE DEF r
<1>4. j \in Int /\ m + 1 <= j /\ j <= n
  BY <1>1 DEF n
<1>5. j - m \in 1 .. n - (m + 1) + 1 /\ m + 1 + (j - m) - 1 = j /\ Len(r) = n - m /\ j - m \in 1 .. n - m
  BY <1>1, <1>3, <1>4
<1>6. r[j - m] = t[j]
  BY <1>3, <1>5
<1>7. j - m \in DOMAIN r
  BY <1>3, <1>5, LenProperties
<1>8. t[j] \in ToSet(r)
  BY <1>6, <1>7 DEF ToSet
<1> QED
  BY <1>8 DEF r, n

(* A tidy line opens a comment exactly when it is only its beginning.       *)
LEMMA TidyLinesOpen ==
  ASSUME NEW line \in SourceLine, Tidy(line)
  PROVE  TrackBlockComment(line, FALSE) <=> line.tokens = <<"open">>
<1> DEFINE t == line.tokens
           T == {"open", "close", "quote", "decl", "func", "use", "hash", "word"}
           I == {i \in 1 .. Len(t) : t[i] = "open"}
           i == SelectInSeq(t, LAMBDA x : x = "open")
           opens == TrackBlockComment(line, FALSE)
           rest == ToSet(SubSeq(t, i + 1, Len(t)))
<1>0. t \in Seq(T)
  BY DEF SourceLine
<1>1. i = IF I # {} THEN Min(I) ELSE 0
  BY DEF SelectInSeq
<1>2. opens <=> i # 0 /\ "close" \notin rest
  BY DEF TrackBlockComment
<1>3. \A j \in DOMAIN t : t[j] \in {"open", "close"} => \/ t = <<"open">> \/ t = <<"close">>
                                                        \/ t = <<"open", "close">> \/ t = <<"open", "decl", "close">>
  BY DEF Tidy
<1> SUFFICES opens <=> t = <<"open">>
  OBVIOUS
<1> HIDE DEF t, i, opens, T, rest
<1>4. DOMAIN t = 1 .. Len(t) /\ Len(t) \in Nat
  BY <1>0, LenProperties
<1>a. I = {1} => i = 1
  <2>1. Min({1}) = 1
    BY DEF Min
  <2> QED
    BY <1>1, <2>1
<1>b. I = {} => i = 0
  BY <1>1
<1>c. ASSUME NEW j \in 1 .. Len(t), j > 1, t[j] = "close", i = 1 PROVE "close" \in rest
  <2>1. j \in 1 + 1 .. Len(t) /\ 1 \in Nat
    BY <1>4, <1>c
  <2> QED
    BY <1>0, <1>c, <2>1, StandsBehind DEF rest
<1>5. CASE t = <<"open">>
  <2>1. Len(t) = 1 /\ t[1] = "open"
    BY <1>5
  <2>2. I = {1}
    BY <2>1
  <2>3. i = 1
    BY <1>a, <2>2
  <2>4. rest = ToSet(<<>>)
    <3>1. i + 1 \in Int /\ Len(t) \in Int /\ Len(t) < i + 1
      BY <2>1, <2>3
    <3> QED
      BY <3>1, SubSeqEmpty DEF rest
  <2>5. "close" \notin ToSet(<<>>)
    BY DEF ToSet
  <2> QED
    BY <1>2, <1>5, <2>3, <2>4, <2>5
<1>6. CASE t = <<"close">>
  <2>1. I = {}
    BY <1>6
  <2>2. t # <<"open">>
    BY <1>6
  <2> QED
    BY <1>b, <1>2, <2>1, <2>2
<1>7. CASE t = <<"open", "close">>
  <2>1. Len(t) = 2 /\ t[1] = "open" /\ t[2] = "close"
    BY <1>7
  <2>2. I = {1}
    <3>1. 1 .. Len(t) = {1, 2}
      BY <2>1
    <3> QED
      BY <2>1, <3>1
  <2>3. i = 1
    BY <1>a, <2>2
  <2>4. "close" \in rest
    BY <1>c, <2>1, <2>3
  <2>5. t # <<"open">>
    BY <2>1
  <2> QED
    BY <1>2, <2>4, <2>5
<1>8. CASE t = <<"open", "decl", "close">>
  <2>1. Len(t) = 3 /\ t[1] = "open" /\ t[2] = "decl" /\ t[3] = "close"
    BY <1>8
  <2>2. I = {1}
    <3>1. 1 .. Len(t) = {1, 2, 3}
      BY <2>1
    <3> QED
      BY <2>1, <3>1
  <2>3. i = 1
    BY <1>a, <2>2
  <2>4. "close" \in rest
    BY <1>c, <2>1, <2>3
  <2>5. t # <<"open">>
    BY <2>1
  <2> QED
    BY <1>2, <2>4, <2>5
<1>9. CASE t # <<"open">> /\ t # <<"close">> /\ t # <<"open", "close">> /\ t # <<"open", "decl", "close">>
  <2>1. I = {}
    BY <1>3, <1>4, <1>9
  <2> QED
    BY <1>b, <1>2, <1>9, <2>1
<1> QED
  BY <1>5, <1>6, <1>7, <1>8, <1>9

(* In tidy lines a comment is open where one was begun and none ended.      *)
LEMMA InsideIsOpen ==
  ASSUME NEW lang \in {"rust", "c", "java", "php"}, NEW lines \in Seq(SourceLine),
         \A i \in DOMAIN lines : Tidy(lines[i]), NEW n \in 1 .. Len(lines)
  PROVE  Inside(lang, lines)[n] <=> OpenAfter(lines, n)
<1> DEFINE m == Len(lines)  F == Inside(lang, lines)
           Agrees == {k \in 0 .. m : F[k] = OpenAfter(lines, k)}
<1>1. m \in Nat /\ DOMAIN lines = 1 .. m
  BY LenProperties
<1>2. \A k \in 1 .. m : lines[k] \in SourceLine /\ Tidy(lines[k])
  BY <1>1
<1>3. F[0] = FALSE /\ \A k \in 1 .. m : F[k] = Track(lang, lines[k], F[k - 1])
  BY <1>1, InsideFollows
<1>4. \A k \in 1 .. m : F[k] = TrackBlockComment(lines[k], F[k - 1])
  <2>1. \A line, b : Track(lang, line, b) = TrackBlockComment(line, b)
    BY DEF Track
  <2> QED
    BY <1>3, <2>1
<1> HIDE DEF F, m
<1>5. 0 \in Agrees
  <2>1. OpenAfter(lines, 0) = FALSE
    BY DEF OpenAfter
  <2>2. F[0] = OpenAfter(lines, 0)
    BY <1>3, <2>1
  <2>3. 0 \in 0 .. m
    BY <1>1
  <2> QED
    BY <2>2, <2>3
<1>6. ASSUME NEW k \in 1 .. m, k - 1 \in Agrees PROVE k \in Agrees
  <2> DEFINE line == lines[k]  a == OpenAfter(lines, k - 1)  b == OpenAfter(lines, k)
  <2>1. F[k - 1] = a /\ k \in 0 .. m
    BY <1>6
  <2>2. line.tokens = <<"open">> => ~Has(line, "close")
    BY DEF Has, ToSet
  <2>3. ASSUME a, ~Has(line, "close") PROVE b
    <3>1. PICK i \in 1 .. k - 1 : lines[i].tokens = <<"open">> /\ \A j \in i + 1 .. k - 1 : ~Has(lines[j], "close")
      BY <2>3 DEF OpenAfter
    <3>2. i \in 1 .. k /\ \A j \in i + 1 .. k : j = k \/ j \in i + 1 .. k - 1
      OBVIOUS
    <3> QED
      BY <2>3, <3>1, <3>2 DEF OpenAfter
  <2>4. ASSUME line.tokens = <<"open">> PROVE b
    <3>1. k \in 1 .. k /\ \A j \in k + 1 .. k : FALSE
      OBVIOUS
    <3> QED
      BY <2>4, <3>1 DEF OpenAfter
  <2>5. ASSUME b PROVE line.tokens = <<"open">> \/ (a /\ ~Has(line, "close"))
    <3>1. PICK i \in 1 .. k : lines[i].tokens = <<"open">> /\ \A j \in i + 1 .. k : ~Has(lines[j], "close")
      BY <2>5 DEF OpenAfter
    <3>2. CASE i = k
      BY <3>1, <3>2
    <3>3. CASE i # k
      <4>1. i \in 1 .. k - 1 /\ k \in i + 1 .. k /\ \A j \in i + 1 .. k - 1 : j \in i + 1 .. k
        BY <3>3
      <4> QED
        BY <3>1, <4>1 DEF OpenAfter
    <3> QED
      BY <3>2, <3>3
  <2>6. b \in BOOLEAN /\ a \in BOOLEAN /\ F[k] \in BOOLEAN
    <3>1. a \in BOOLEAN /\ b \in BOOLEAN
      BY DEF OpenAfter
    <3>2. \A x \in BOOLEAN : Track(lang, line, x) \in BOOLEAN
      BY TracksYesOrNo
    <3> QED
      BY <1>3, <2>1, <3>1, <3>2
  <2>7. F[k] = TrackBlockComment(line, a)
    BY <1>4, <2>1
  <2>8. a => (TrackBlockComment(line, a) <=> ~Has(line, "close"))
    BY DEF TrackBlockComment
  <2>9. ~a => (TrackBlockComment(line, a) <=> line.tokens = <<"open">>)
    <3>1. TrackBlockComment(line, FALSE) <=> line.tokens = <<"open">>
      BY <1>2, TidyLinesOpen
    <3> HIDE DEF line
    <3>2. SUFFICES ASSUME ~a PROVE TrackBlockComment(line, a) <=> line.tokens = <<"open">>
      OBVIOUS
    <3>3. a = FALSE
      BY <2>6, <3>2
    <3> QED
      BY <3>1, <3>3
  <2> HIDE DEF a, b, line
  <2>10. F[k] <=> b
    BY <2>2, <2>3, <2>4, <2>5, <2>7, <2>8, <2>9
  <2>11. F[k] = b
    BY <2>6, <2>10
  <2> QED
    BY <2>1, <2>11 DEF b
<1> HIDE DEF Agrees
<1>7. \A k \in 1 .. m : k - 1 \in Agrees => k \in Agrees
  BY <1>6
<1>8. \A k \in 0 .. m : k \in Agrees
  BY <1>1, <1>5, <1>7, Climb
<1>9. n \in 0 .. m
  BY <1>1 DEF m
<1> QED
  BY <1>8, <1>9 DEF Agrees, F

(* The parsers with comment tracking report the declarations that stand     *)
(* outside of comments, in any lines (parser_cfamily.go:135).               *)
THEOREM DeclarationsAreReported ==
  ASSUME NEW lang \in Languages, NEW lines \in Seq(SourceLine), NEW cap \in Nat
  PROVE  DeclarationsAreFound(lang, lines, cap)
<1> DEFINE m == Len(lines)
           K == {n \in 1 .. m : n <= cap /\ ~Inside(lang, lines)[n] /\ Parse(lang, lines[n]) = Sym}
           s == InTurn(K)  n == Cardinality(K)
<1>1. m \in Nat /\ DOMAIN lines = 1 .. m
  BY LenProperties
<1>2. ParseGenericFile(lang, lines, cap) = s
  BY DEF ParseGenericFile
<1>3. K \in SUBSET (1 .. m)
  OBVIOUS
<1>4. IsFiniteSet(K) /\ K \subseteq Nat
  <2>1. IsFiniteSet(1 .. m) /\ 1 .. m \subseteq Nat
    BY <1>1, Stretch
  <2> HIDE DEF K
  <2> QED
    BY <2>1, <1>3, FS_Subset
<1>5. \A k \in K : k <= cap /\ ~Inside(lang, lines)[k] /\ Parse(lang, lines[k]) = Sym /\ k \in 1 .. m
  OBVIOUS
<1>6. \A k \in 1 .. m : k <= cap /\ ~Inside(lang, lines)[k] /\ Parse(lang, lines[k]) = Sym => k \in K
  OBVIOUS
<1> HIDE DEF K, n
<1>7. /\ n \in Nat /\ s \in [1 .. n -> K]
      /\ \A i \in K : \E k \in 1 .. n : s[k] = i
      /\ \A k, l \in 1 .. n : k < l => s[k] < s[l]
  BY <1>4, InTurnLists DEF n
<1> HIDE DEF s
<1>8. ASSUME NEW k \in 1 .. m, Parse(lang, lines[k]) = Sym PROVE Has(lines[k], "decl") \/ Has(lines[k], "func")
  <2> DEFINE line == lines[k]
  <2>1. Sym # Imp /\ Sym # NoSymbol
    BY DEF Sym, Imp, NoSymbol
  <2>2. line.tokens \in Seq({"open", "close", "quote", "decl", "func", "use", "hash", "word"})
    <3>1. line \in SourceLine
      BY <1>1
    <3> HIDE DEF line
    <3> QED
      BY <3>1 DEF SourceLine
  <2>3. (Starts(line, "decl") => Has(line, "decl")) /\ (Starts(line, "func") => Has(line, "func"))
    <3> DEFINE t == line.tokens
    <3> HIDE DEF line
    <3>1. t # <<>> => Len(t) \in Nat /\ Len(t) >= 1 /\ DOMAIN t = 1 .. Len(t) /\ Head(t) = t[1]
      BY <2>2
    <3> HIDE DEF t
    <3>2. t # <<>> => Head(t) \in ToSet(t)
      BY <3>1 DEF ToSet
    <3> QED
      BY <3>2 DEF Starts, Has, t
  <2>4. Parse(lang, line) = Sym
    BY <1>8
  <2> HIDE DEF line
  <2>5. \/ ParseRust(line) = Sym \/ ParseC(line) = Sym \/ ParseJava(line) = Sym \/ ParsePHP(line) = Sym
        \/ ParseRuby(line) = Sym \/ ParseTS(line) = Sym \/ ParsePython(line) = Sym
    BY <2>1, <2>4 DEF Parse, Languages
  <2>6. Has(line, "decl") \/ Has(line, "func")
    <3> HIDE DEF Sym, Imp, NoSymbol
    <3> QED
      BY <2>1, <2>3, <2>5 DEF ParseRust, ParseC, ParseJava, ParsePHP, ParseRuby, ParseTS, ParsePython
  <2> QED
    BY <2>6 DEF line
<1>9. \A i \in DOMAIN s : s[i] <= cap /\ (Has(lines[s[i]], "decl") \/ Has(lines[s[i]], "func")) /\ (i > 1 => s[i - 1] < s[i])
  <2>1. ASSUME NEW i \in 1 .. n PROVE s[i] \in K /\ (i > 1 => s[i - 1] < s[i])
    <3>1. i > 1 => i - 1 \in 1 .. n /\ i - 1 < i
      BY <1>7
    <3> QED
      BY <1>7, <3>1
  <2> QED
    BY <1>5, <1>7, <1>8, <2>1
<1>10. ASSUME lang \in {"rust", "c", "java", "php"}, \A i \in DOMAIN lines : Tidy(lines[i]),
              NEW k \in 1 .. m, k <= cap
       PROVE  /\ Starts(lines[k], "decl") => (k \in ToSet(s) <=> ~OpenAfter(lines, k))
              /\ lang = "c" /\ Starts(lines[k], "func") => (k \in ToSet(s) <=> ~OpenAfter(lines, k) /\ ~lines[k].indented)
  <2> DEFINE line == lines[k]
  <2>1. Inside(lang, lines)[k] <=> OpenAfter(lines, k)
    BY <1>10, InsideIsOpen DEF m
  <2>2. Sym # NoSymbol
    BY DEF Sym, NoSymbol
  <2>3. /\ Starts(line, "decl") => Has(line, "decl") /\ ~Starts(line, "use") /\ ~Starts(line, "hash")
        /\ Starts(line, "func") => ~Starts(line, "decl") /\ ~Starts(line, "hash")
    <3> DEFINE t == line.tokens
    <3>1. t \in Seq({"open", "close", "quote", "decl", "func", "use", "hash", "word"})
      <4>1. line \in SourceLine
        BY <1>1
      <4> HIDE DEF line
      <4> QED
        BY <4>1 DEF SourceLine
    <3> HIDE DEF line
    <3>2. t # <<>> => Len(t) \in Nat /\ Len(t) >= 1 /\ DOMAIN t = 1 .. Len(t) /\ Head(t) = t[1]
      BY <3>1
    <3> HIDE DEF t
    <3>3. t # <<>> => Head(t) \in ToSet(t)
      BY <3>2 DEF ToSet
    <3> QED
      BY <3>3 DEF Has, Starts, t
  <2> HIDE DEF line
  <2>4. /\ Starts(line, "decl") => Parse(lang, line) = Sym
        /\ lang = "c" /\ Starts(line, "func") => (Parse(lang, line) = Sym <=> ~line.indented)
    <3>1. Starts(line, "decl") => ParseRust(line) = Sym /\ ParseC(line) = Sym /\ ParseJava(line) = Sym /\ ParsePHP(line) = Sym
      BY <2>3 DEF ParseRust, ParseC, ParseJava, ParsePHP
    <3>2. Starts(line, "func") => (ParseC(line) = Sym <=> ~line.indented)
      <4> HIDE DEF Sym, NoSymbol
      <4> QED
        BY <2>2, <2>3 DEF ParseC
    <3> HIDE DEF Sym
    <3> QED
      BY <3>1, <3>2, <1>10 DEF Parse
  <2>5. k \in K <=> ~Inside(lang, lines)[k] /\ Parse(lang, line) = Sym
    BY <1>5, <1>6, <1>10 DEF line
  <2>6. k \in ToSet(s) <=> k \in K
    <3>1. ToSet(s) = {s[i] : i \in 1 .. n}
      BY <1>7 DEF ToSet
    <3>2. \A i \in 1 .. n : s[i] \in K
      BY <1>7
    <3> QED
      BY <1>7, <3>1, <3>2
  <2> QED
    BY <2>1, <2>4, <2>5, <2>6 DEF line
<1> QED
  BY <1>1, <1>2, <1>9, <1>10 DEF DeclarationsAreFound, m

-----------------------------------------------------------------------------
(* Time: days, weeks and remainders.                                        *)

-----------------------------------------------------------------------------
(* Days and weeks.                                                         *)

(* What divides and what is left over are told by the sum they make.        *)
LEMMA Divides ==
  ASSUME NEW n \in Int, NEW D \in Nat \ {0}
  PROVE  /\ n \div D \in Int /\ n % D \in 0 .. D - 1
         /\ n = (n \div D) * D + (n % D)
OBVIOUS

(* A product grows with a factor.                                           *)
LEMMA Products ==
  ASSUME NEW a \in Int, NEW b \in Int, NEW D \in Nat, a <= b
  PROVE  a * D \in Int /\ b * D \in Int /\ a * D <= b * D
OBVIOUS

(* No other numbers make the sum.                                           *)
LEMMA DividesOnce ==
  ASSUME NEW q \in Int, NEW D \in Nat \ {0}, NEW r \in 0 .. D - 1
  PROVE  /\ (q * D + r) \div D = q /\ (q * D + r) % D = r
<1> DEFINE n == q * D + r  p == n \div D  m == n % D
<1>1. q * D \in Int /\ n \in Int
  OBVIOUS
<1>2. p \in Int /\ m \in 0 .. D - 1 /\ n = p * D + m
  BY <1>1, Divides
<1>3. CASE p < q
  <2>1. (p + 1) * D <= q * D /\ (p + 1) * D = p * D + D
    BY <1>2, <1>3, Products
  <2> QED
    BY <1>1, <1>2, <2>1
<1>4. CASE p > q
  <2>1. (q + 1) * D <= p * D /\ (q + 1) * D = q * D + D
    BY <1>2, <1>4, Products
  <2> QED
    BY <1>1, <1>2, <2>1
<1>5. CASE p = q
  BY <1>1, <1>2, <1>5
<1> QED
  BY <1>2, <1>3, <1>4, <1>5

(* The same of a number that is known by its parts.                         *)
LEMMA PartsTell ==
  ASSUME NEW n \in Int, NEW q \in Int, NEW D \in Nat \ {0}, NEW r \in 0 .. D - 1, n = q * D + r
  PROVE  n \div D = q /\ n % D = r
BY DividesOnce

(* Products of sums.                                                        *)
LEMMA Distributes ==
  ASSUME NEW a \in Int, NEW b \in Int, NEW D \in Int
  PROVE  a * D \in Int /\ b * D \in Int /\ (a + b) * D = a * D + b * D /\ 1 * D = D
OBVIOUS

-----------------------------------------------------------------------------
(* Schedules.                                                               *)

(* The days of one weekday are whole weeks apart.                           *)
LEMMA WeeksApart ==
  ASSUME NEW a \in Int, NEW b \in Int, NEW W \in Nat \ {0}, a % W = b % W, a < b
  PROVE  a + W <= b
<1> DEFINE p == a \div W  q == b \div W  m == a % W
<1>1. p \in Int /\ q \in Int /\ m \in 0 .. W - 1 /\ a = p * W + m /\ b = q * W + m
  BY Divides
<1>2. CASE q <= p
  <2>1. q * W <= p * W /\ p * W \in Int /\ q * W \in Int
    BY <1>1, <1>2, Products
  <2> QED
    BY <1>1, <2>1
<1>3. CASE p + 1 <= q
  <2>1. (p + 1) * W <= q * W /\ (p + 1) * W = p * W + W /\ p * W \in Int /\ q * W \in Int
    BY <1>1, <1>3, Products
  <2> QED
    BY <1>1, <2>1
<1> QED
  BY <1>1, <1>2, <1>3

(* The coming day of a weekday.                                             *)
LEMMA ComingDay ==
  ASSUME NEW d \in Nat, NEW W \in Nat \ {0}, NEW w \in 0 .. W - 1
  PROVE  LET c == d + ((w - d) % W) IN
         /\ c \in d .. d + W - 1 /\ c % W = w
         /\ \A a \in Nat : a % W = w /\ a >= d => a >= c
         /\ \A a \in Nat : a % W = w /\ a > c => a >= c + W
<1> DEFINE x == (w - d) % W  q == (w - d) \div W  c == d + x
<1>1. w - d \in Int /\ q \in Int /\ x \in 0 .. W - 1 /\ w - d = q * W + x /\ q * W \in Int
  <2>1. w - d \in Int
    OBVIOUS
  <2> HIDE DEF x, q
  <2>2. q \in Int /\ x \in 0 .. W - 1 /\ w - d = q * W + x
    BY <2>1, Divides DEF q, x
  <2> QED
    BY <2>1, <2>2
<1> HIDE DEF x, q
<1>2. c \in d .. d + W - 1 /\ c \in Int
  BY <1>1
<1>3. c % W = w
  <2>1. -q \in Int /\ c = (-q) * W + w
    BY <1>1
  <2> HIDE DEF c
  <2> QED
    BY <2>1, DividesOnce
<1> HIDE DEF c
<1>4. ASSUME NEW a \in Nat, a % W = w, a >= d PROVE a >= c
  <2>1. CASE a < c
    <3>1. a \in Int /\ a % W = c % W
      BY <1>3, <1>4
    <3>2. a + W <= c
      BY ONLY <1>2, <2>1, <3>1, WeeksApart, W \in Nat \ {0}
    <3> QED
      BY <1>2, <1>4, <3>2
  <2> QED
    BY <1>2, <2>1
<1>5. ASSUME NEW a \in Nat, a % W = w, a > c PROVE a >= c + W
  <2>1. a \in Int /\ a % W = c % W
    BY <1>3, <1>5
  <2>2. c + W <= a
    BY ONLY <1>2, <1>5, <2>1, WeeksApart, W \in Nat \ {0}
  <2> QED
    BY <1>2, <2>2
<1> QED
  BY <1>2, <1>3, <1>4, <1>5 DEF c, x

(* The times of a schedule.                                                 *)
Falls(s, u) == u % Day = s.at /\ (s.kind = "weekly" => (u \div Day) % Week = s.weekday)
Daily(s) == \E a \in 0 .. Day - 1 : s = [kind |-> "daily", at |-> a]
Weekly(s) == \E w \in 0 .. Week - 1, a \in 0 .. Day - 1 : s = [kind |-> "weekly", weekday |-> w, at |-> a]
Interval(s) == \E e \in Nat \ {0} : s = [kind |-> "interval", every |-> e]
ASchedule(s) == Daily(s) \/ Weekly(s) \/ Interval(s)
Midnight(t) == (t \div Day) * Day

(* What is true of the time of today, or of the coming weekday.             *)
Targets(s, t) ==
  LET T == TargetAt(s, t)  P == PeriodOf(s) IN
  /\ T \in Nat /\ P \in Nat \ {0} /\ Midnight(t) <= T /\ T < Midnight(t) + P /\ t < Midnight(t) + P
  /\ Falls(s, T) /\ Falls(s, T + P)
  /\ \A u \in Nat : Falls(s, u) /\ Midnight(t) <= u => T <= u
  /\ \A u \in Nat : Falls(s, u) /\ T < u => T + P <= u

(* A time is in its day.                                                    *)
LEMMA InItsDay ==
  ASSUME NEW t \in Nat
  PROVE  /\ Day \in Nat \ {0} /\ t \div Day \in Nat /\ Midnight(t) \in Nat /\ t % Day \in 0 .. Day - 1
         /\ t = Midnight(t) + (t % Day)
<1>1. Day \in Nat \ {0}
  BY CronViewsAssumption
<1>2. t \div Day \in Int /\ t % Day \in 0 .. Day - 1 /\ t = Midnight(t) + (t % Day)
  BY <1>1, Divides DEF Midnight
<1>3. t \div Day \in Nat
  <2>1. CASE t \div Day <= -1
    <3>1. (t \div Day) * Day <= (-1) * Day /\ (t \div Day) * Day \in Int
      BY <1>1, <1>2, <2>1, Products
    <3> QED
      BY <1>1, <1>2, <3>1 DEF Midnight
  <2> QED
    BY <1>2, <2>1
<1>4. Midnight(t) \in Int /\ Midnight(t) >= 0
  <2>1. (t \div Day) * Day \in Int /\ 0 * Day <= (t \div Day) * Day /\ 0 * Day = 0
    BY <1>1, <1>3, Products
  <2> QED
    BY <2>1 DEF Midnight
<1> QED
  BY <1>1, <1>2, <1>3, <1>4

(* The target of a daily schedule is its time of the day.                  *)
LEMMA TargetsOfDays ==
  ASSUME NEW t \in Nat, NEW s, Daily(s)
  PROVE  Targets(s, t)
<1> DEFINE d == t \div Day  T == d * Day + s.at
<1>1. PICK a \in 0 .. Day - 1 : s = [kind |-> "daily", at |-> a]
  BY DEF Daily
<1>2. s.kind = "daily" /\ s.at = a /\ s.at \in 0 .. Day - 1
  BY <1>1
<1>3. Day \in Nat \ {0} /\ d \in Nat /\ d * Day \in Nat /\ Midnight(t) = d * Day
  BY InItsDay DEF Midnight
<1>4. TargetAt(s, t) = T /\ PeriodOf(s) = Day
  BY <1>2 DEF TargetAt, PeriodOf
<1>5. T \in Nat /\ Midnight(t) <= T /\ T < Midnight(t) + Day /\ t < Midnight(t) + Day
  <2>1. Midnight(t) \in Nat /\ t % Day \in 0 .. Day - 1 /\ t = Midnight(t) + (t % Day)
    BY InItsDay
  <2>2. t < Midnight(t) + Day
    BY <1>3, <2>1
  <2> QED
    BY <1>2, <1>3, <2>2
<1>6. Falls(s, T) /\ Falls(s, T + Day)
  <2>1. T % Day = s.at
    BY <1>2, <1>3, <1>5, PartsTell
  <2>2. d + 1 \in Int /\ (d + 1) * Day + s.at = T + Day
    BY <1>2, <1>3
  <2>3. ((d + 1) * Day + s.at) % Day = s.at
    BY <1>2, <1>3, <2>2, DividesOnce
  <2> QED
    BY <1>2, <2>1, <2>2, <2>3 DEF Falls
<1>7. ASSUME NEW u \in Nat, Falls(s, u)
      PROVE  (Midnight(t) <= u => T <= u) /\ (T < u => T + Day <= u)
  <2> DEFINE b == u \div Day
  <2>1. b \in Nat /\ u = b * Day + s.at
    BY <1>7, InItsDay DEF Falls, Midnight
  <2>2. CASE b <= d - 1
    <3>1. b * Day <= (d - 1) * Day /\ b * Day \in Int /\ (d - 1) * Day = d * Day - Day
      BY <1>3, <2>1, <2>2, Products
    <3> QED
      BY <1>2, <1>3, <2>1, <3>1
  <2>3. CASE b = d
    BY <1>2, <1>3, <2>1, <2>3
  <2>4. CASE d + 1 <= b
    <3>1. (d + 1) * Day <= b * Day /\ b * Day \in Int /\ (d + 1) * Day = d * Day + Day
      BY <1>3, <2>1, <2>4, Products
    <3> QED
      BY <1>2, <1>3, <2>1, <3>1
  <2> QED
    BY <1>3, <2>1, <2>2, <2>3, <2>4
<1> HIDE DEF T
<1> QED
  BY <1>3, <1>4, <1>5, <1>6, <1>7 DEF Targets

(* The target of a weekly one is its time of the coming weekday.            *)
LEMMA TargetsOfWeeks ==
  ASSUME NEW t \in Nat, NEW s, Weekly(s)
  PROVE  Targets(s, t)
<1> DEFINE d == t \div Day  w == s.weekday  c == d + ((w - d) % Week)  T == c * Day + s.at  P == Week * Day
<1>1. PICK v \in 0 .. Week - 1, a \in 0 .. Day - 1 : s = [kind |-> "weekly", weekday |-> v, at |-> a]
  BY DEF Weekly
<1>2. s.kind = "weekly" /\ s.at \in 0 .. Day - 1 /\ w \in 0 .. Week - 1
  BY <1>1
<1>3. /\ Day \in Nat \ {0} /\ Week \in Nat \ {0} /\ d \in Nat /\ d * Day \in Nat /\ Midnight(t) = d * Day
      /\ s.at \in Nat /\ s.at < Day
  <2>1. Day \in Nat \ {0} /\ Week \in Nat \ {0}
    BY CronViewsAssumption
  <2>2. d \in Nat /\ d * Day \in Nat /\ Midnight(t) = d * Day
    BY InItsDay DEF Midnight
  <2> QED
    BY <1>2, <2>1, <2>2
<1>4. TargetAt(s, t) = T /\ PeriodOf(s) = P
  BY <1>2 DEF TargetAt, PeriodOf
<1> HIDE DEF d, w
<1>5. /\ c \in Nat /\ d <= c /\ c <= d + Week - 1 /\ c % Week = w
      /\ \A b \in Nat : b % Week = w /\ b >= d => b >= c
      /\ \A b \in Nat : b % Week = w /\ b > c => b >= c + Week
  <2>1. /\ c \in d .. d + Week - 1 /\ c % Week = w
        /\ \A b \in Nat : b % Week = w /\ b >= d => b >= c
        /\ \A b \in Nat : b % Week = w /\ b > c => b >= c + Week
    BY <1>2, <1>3, ComingDay
  <2> HIDE DEF c
  <2> QED
    BY <1>3, <2>1
<1> HIDE DEF c
<1>6. /\ c * Day \in Nat /\ P \in Nat /\ P >= Day /\ d * Day <= c * Day /\ c * Day <= d * Day + P - Day
      /\ (c + Week) * Day = c * Day + P
  <2>0. /\ d \in Int /\ c \in Int /\ 1 \in Int /\ Week \in Int /\ Day \in Int /\ Day \in Nat
        /\ c + 1 \in Int /\ d + Week \in Int /\ 1 <= Week /\ c + 1 <= d + Week
    BY <1>3, <1>5
  <2>1. /\ d * Day <= c * Day /\ (c + 1) * Day <= (d + Week) * Day /\ c * Day \in Int /\ 1 * Day <= Week * Day
        /\ Week * Day \in Int
    BY ONLY <2>0, <1>5, Products
  <2>2. /\ (d + Week) * Day = d * Day + Week * Day /\ (c + Week) * Day = c * Day + Week * Day
        /\ (c + 1) * Day = c * Day + 1 * Day /\ 1 * Day = Day
    BY ONLY <2>0, Distributes
  <2>3. P = Week * Day
    OBVIOUS
  <2> HIDE DEF P
  <2> QED
    BY <1>3, <2>1, <2>2, <2>3
<1>7. T \in Nat /\ P \in Nat \ {0} /\ Midnight(t) <= T /\ T < Midnight(t) + P /\ t < Midnight(t) + P
  <2>1. Midnight(t) \in Nat /\ t % Day \in 0 .. Day - 1 /\ t = Midnight(t) + (t % Day)
    BY InItsDay
  <2> DEFINE r == t % Day
  <2>2. r \in 0 .. Day - 1 /\ t = Midnight(t) + r
    BY <2>1
  <2> HIDE DEF r
  <2> HIDE DEF P, d
  <2> QED
    BY <1>3, <1>6, <2>2
<1>8. Falls(s, T) /\ Falls(s, T + P)
  <2>0. T \in Int /\ T + P \in Int /\ c \in Int /\ c + Week \in Int /\ T = c * Day + s.at
    BY <1>3, <1>5, <1>7
  <2>1. T % Day = s.at /\ T \div Day = c
    BY ONLY <2>0, <1>2, <1>3, PartsTell
  <2>2. c + Week \in Nat /\ (c + Week) * Day + s.at = T + P
    <3> HIDE DEF P
    <3> QED
      BY <1>3, <1>5, <1>6
  <2>3. (T + P) % Day = s.at /\ (T + P) \div Day = c + Week
    <3>1. T + P = (c + Week) * Day + s.at
      BY <2>2
    <3> HIDE DEF T, P
    <3>2. s.at \in 0 .. Day - 1 /\ Day \in Nat \ {0}
      BY <1>2, <1>3
    <3> DEFINE n == T + P  e == c + Week
    <3>3. n \in Int /\ e \in Int /\ n = e * Day + s.at
      BY <2>0, <3>1
    <3> HIDE DEF n, e
    <3>4. \A m, q \in Int, r \in 0 .. Day - 1 : m = q * Day + r => m \div Day = q /\ m % Day = r
      BY <3>2, PartsTell
    <3>5. n % Day = s.at /\ n \div Day = e
      BY ONLY <3>2, <3>3, <3>4
    <3> QED
      BY <3>5 DEF n, e
  <2>4. (c + Week) % Week = w
    <3> DEFINE q == c \div Week
    <3>1. q \in Int /\ c = q * Week + w
      BY <1>3, <1>5, Divides
    <3> HIDE DEF q
    <3>2. q + 1 \in Int /\ Week \in Int /\ 1 \in Int
      BY <1>3, <3>1
    <3>3. q * Week \in Int /\ (q + 1) * Week = q * Week + 1 * Week /\ 1 * Week = Week
      BY ONLY <3>1, <3>2, Distributes
    <3>4. c + Week \in Int /\ c + Week = (q + 1) * Week + w
      BY <1>2, <1>3, <3>1, <3>3
    <3> QED
      BY ONLY <1>2, <1>3, <3>2, <3>4, PartsTell
  <2> QED
    <3> HIDE DEF T, P
    <3> QED
      BY <1>5, <2>1, <2>3, <2>4 DEF Falls, w
<1>9. ASSUME NEW u \in Nat, Falls(s, u)
      PROVE  (Midnight(t) <= u => T <= u) /\ (T < u => T + P <= u)
  <2> DEFINE b == u \div Day
  <2>1. b \in Nat /\ u = b * Day + s.at /\ b * Day \in Nat /\ b % Week = w
    BY <1>2, <1>9, InItsDay DEF Falls, Midnight, w
  <2> HIDE DEF b
  <2>2. b >= d => b >= c
    BY <1>5, <2>1
  <2>3. b > c => b >= c + Week
    BY <1>5, <2>1
  <2>4. CASE b <= d - 1
    <3>1. b * Day <= (d - 1) * Day /\ b * Day \in Int /\ (d - 1) * Day = d * Day - Day
      BY <1>3, <2>1, <2>4, Products
    <3> HIDE DEF P, d
    <3> QED
      BY <1>3, <1>6, <2>1, <3>1
  <2>5. CASE b = c
    <3> HIDE DEF P, d
    <3> QED
      BY <1>3, <1>6, <2>1, <2>5
  <2>6. CASE c + Week <= b
    <3>1. (c + Week) * Day <= b * Day
      BY <1>3, <1>5, <2>1, <2>6, Products
    <3> HIDE DEF P, d
    <3> QED
      BY <1>3, <1>6, <2>1, <3>1
  <2> QED
    BY <1>3, <1>5, <2>1, <2>2, <2>3, <2>4, <2>5, <2>6
<1> HIDE DEF T, P
<1> QED
  BY <1>3, <1>4, <1>7, <1>8, <1>9 DEF Targets

(* What is next is the first time of the schedule after the last run, not   *)
(* more than a period after it.                                            *)
LEMMA NextIsFirst ==
  ASSUME NEW s, Daily(s) \/ Weekly(s), NEW from \in Nat
  PROVE  LET N == NextAfter(s, from) IN
         /\ N \in Nat /\ from < N /\ N <= from + PeriodOf(s) /\ Falls(s, N)
         /\ \A u \in Nat : Falls(s, u) /\ from < u => N <= u
<1> DEFINE T == TargetAt(s, from)  P == PeriodOf(s)  N == NextAfter(s, from)  M == Midnight(from)
<1>1. Targets(s, from) /\ s.kind # "interval"
  BY TargetsOfDays, TargetsOfWeeks DEF Daily, Weekly
<1>2. /\ T \in Nat /\ P \in Nat \ {0} /\ M <= T /\ T < M + P /\ from < M + P /\ Falls(s, T) /\ Falls(s, T + P)
      /\ \A u \in Nat : Falls(s, u) /\ M <= u => T <= u
      /\ \A u \in Nat : Falls(s, u) /\ T < u => T + P <= u
  BY <1>1 DEF Targets
<1>3. M \in Nat /\ M <= from
  BY InItsDay
<1>4. N = IF from >= T THEN T + P ELSE T
  BY <1>1 DEF NextAfter
<1> HIDE DEF T, P, N, M
<1> DEFINE First == N \in Nat /\ from < N /\ N <= from + P /\ Falls(s, N) /\ \A u \in Nat : Falls(s, u) /\ from < u => N <= u
<1>5. ASSUME from >= T PROVE First
  <2>1. N = T + P
    BY <1>4, <1>5
  <2> QED
    BY <1>2, <1>3, <1>5, <2>1
<1>6. ASSUME from < T PROVE First
  <2>1. N = T
    BY <1>2, <1>4, <1>6
  <2> QED
    BY <1>2, <1>3, <1>6, <2>1
<1>7. from >= T \/ from < T
  BY <1>2
<1>8. First
  BY <1>5, <1>6, <1>7
<1> QED
  BY <1>8 DEF N, P

(* A task that never ran is due once the time of the day has come.          *)
LEMMA DueTheFirstTime ==
  ASSUME NEW s, Daily(s) \/ Weekly(s), NEW t \in Nat
  PROVE  DueAt(s, NeverRan, t) <=> \E u \in Occurrences(s, t) : u \div Day = t \div Day
<1> DEFINE T == TargetAt(s, t)  P == PeriodOf(s)  M == Midnight(t)
<1>1. Targets(s, t) /\ s.kind # "interval"
  BY TargetsOfDays, TargetsOfWeeks DEF Daily, Weekly
<1>2. T \in Nat /\ M <= T /\ Falls(s, T) /\ \A u \in Nat : Falls(s, u) /\ M <= u => T <= u
  BY <1>1 DEF Targets
<1>3. Day \in Nat \ {0} /\ t \div Day \in Nat /\ M \in Nat /\ t % Day \in 0 .. Day - 1 /\ t = M + (t % Day)
  BY InItsDay
<1>4. DueAt(s, NeverRan, t) <=> t >= T
  BY <1>1, <1>2 DEF DueAt, NeverRan
<1>5. \A u : u \in Occurrences(s, t) <=> u \in 0 .. t /\ Falls(s, u)
  BY DEF Occurrences, Falls
<1>6. ASSUME t >= T PROVE T \in Occurrences(s, t) /\ T \div Day = t \div Day
  <2> DEFINE r == T - M
  <2>1. r \in 0 .. Day - 1 /\ T = M + r
    BY <1>2, <1>3, <1>6
  <2>2. M = (t \div Day) * Day
    BY DEF Midnight
  <2> DEFINE d == t \div Day
  <2>3. d \in Int /\ T \in Int /\ T = d * Day + r
    BY <1>2, <1>3, <2>1, <2>2
  <2> HIDE DEF r, d, T
  <2>4. T \div Day = d
    BY ONLY <1>3, <2>1, <2>3, PartsTell
  <2> QED
    BY <1>2, <1>3, <1>5, <1>6, <2>4 DEF d
<1>7. ASSUME NEW u \in Occurrences(s, t), u \div Day = t \div Day PROVE t >= T
  <2>1. u \in Nat /\ u <= t /\ Falls(s, u)
    BY <1>5
  <2>2. Midnight(u) = M /\ Midnight(u) \in Nat /\ u = Midnight(u) + (u % Day) /\ u % Day \in 0 .. Day - 1
    BY <1>7, <2>1, InItsDay DEF Midnight
  <2> HIDE DEF T, M
  <2>3. M <= u
    BY <1>3, <2>1, <2>2
  <2> QED
    BY <1>2, <2>1, <2>3
<1> HIDE DEF T
<1> QED
  BY <1>4, <1>6, <1>7

(* The next run that is shown is the first time of a schedule after the     *)
(* last run, a task is due only when that time has come and at the latest a *)
(* period after it, and the first time on the day itself: for every length  *)
(* of a day and a week and every schedule (cron/schedules.go:20-120).       *)
THEOREM SchedulesTellTheTime ==
  ASSUME NEW s, s = Bad \/ ASchedule(s), NEW last \in Nat \cup {NeverRan}, NEW t \in Nat
  PROVE  SchedulesKeepTime(s, last, t)
<1> DEFINE N == NextAfter(s, last)  P == PeriodOf(s)
<1> SUFFICES ASSUME s # Bad, last <= t PROVE SchedulesKeepTime(s, last, t)
  BY DEF SchedulesKeepTime
<1>1. CASE Interval(s)
  <2>1. PICK e \in Nat \ {0} : s = [kind |-> "interval", every |-> e]
    BY <1>1 DEF Interval
  <2>2. s.kind = "interval" /\ s.every = e
    BY <2>1
  <2>3. P = e /\ N = last + e /\ (last # NeverRan => (DueAt(s, last, t) <=> t - last >= e))
    BY <2>2 DEF PeriodOf, NextAfter, DueAt
  <2>4. ASSUME last # NeverRan PROVE last \in Nat
    BY <2>4
  <2> HIDE DEF N, P
  <2>5. ASSUME last # NeverRan
        PROVE  /\ DueAt(s, last, t) => N <= t
               /\ t - N >= P => DueAt(s, last, t)
               /\ DueAt(s, last, t) <=> N <= t
    <3> DEFINE due == DueAt(s, last, t)
    <3>1. due <=> t - last >= e
      BY <2>3, <2>5
    <3> HIDE DEF due
    <3> QED
      BY <2>3, <2>4, <2>5, <3>1 DEF due
  <2> QED
    BY <2>2, <2>5 DEF SchedulesKeepTime, N, P
<1>2. CASE Daily(s) \/ Weekly(s)
  <2>1. s.kind # "interval"
    BY <1>2 DEF Daily, Weekly
  <2>2. CASE last = NeverRan
    BY <1>2, <2>1, <2>2, DueTheFirstTime DEF SchedulesKeepTime
  <2>3. CASE last # NeverRan
    <3> DEFINE T == TargetAt(s, t)  later == {u \in Occurrences(s, last + Week * Day) : u > last}
    <3>1. last \in Nat
      BY <2>3
    <3>2. /\ N \in Nat /\ last < N /\ N <= last + P /\ Falls(s, N)
          /\ \A u \in Nat : Falls(s, u) /\ last < u => N <= u
      BY <1>2, <3>1, NextIsFirst
    <3>3. T \in Nat /\ P \in Nat \ {0} /\ Falls(s, T)
      BY <1>2, TargetsOfDays, TargetsOfWeeks DEF Targets
    <3>4. DueAt(s, last, t) <=> t - last > P \/ (t >= T /\ last < T)
      BY <2>1, <2>3 DEF DueAt
    <3>5. P <= Week * Day /\ Week * Day \in Nat
      <4>1. Week \in Nat \ {0} /\ Day \in Nat \ {0} /\ Week \in Int /\ 1 \in Int /\ Day \in Int /\ Day \in Nat /\ 1 <= Week
        BY CronViewsAssumption
      <4>2. 1 * Day <= Week * Day /\ Week * Day \in Int /\ 1 * Day = Day
        BY ONLY <4>1, Products, Distributes
      <4>3. P \in {Day, Week * Day}
        BY <2>1 DEF PeriodOf
      <4> DEFINE w == Week * Day
      <4> HIDE DEF w, P
      <4> QED
        BY <4>1, <4>2, <4>3 DEF w
    <3>6. \A u : u \in later <=> u \in 0 .. last + Week * Day /\ Falls(s, u) /\ last < u
      BY <3>1, <3>5 DEF Occurrences, Falls
    <3> HIDE DEF N, P, T
    <3>7. N \in later /\ \A u \in later : N <= u
      <4> DEFINE w == Week * Day
      <4>1. w \in Nat /\ P <= w /\ \A u : u \in later <=> u \in 0 .. last + w /\ Falls(s, u) /\ last < u
        BY <3>5, <3>6
      <4> HIDE DEF w, later
      <4> QED
        BY <3>1, <3>2, <3>3, <4>1
    <3> HIDE DEF later
    <3> DEFINE due == DueAt(s, last, t)
    <3>8. due <=> t - last > P \/ (t >= T /\ last < T)
      BY <3>4
    <3> HIDE DEF due
    <3>9. (due => N <= t) /\ (t - N >= P => due)
      BY <3>1, <3>2, <3>3, <3>8
    <3> QED
      BY <2>1, <2>3, <3>7, <3>9 DEF SchedulesKeepTime, due, N, P, later
  <2> QED
    BY <2>2, <2>3
<1> QED
  BY <1>1, <1>2 DEF ASchedule

-----------------------------------------------------------------------------
(* The history of runs.                                                     *)

(* One run of a task, and histories, oldest first.                          *)
ARun(e) == e.at \in Nat /\ e.ok \in BOOLEAN
AHistory(h) == /\ h \in Seq(Range(h)) /\ \A i \in DOMAIN h : ARun(h[i])
               /\ \A i, j \in DOMAIN h : i <= j => h[i].at <= h[j].at

(* The last success is the newest of the successes.                         *)
LEMMA NewestSuccess ==
  ASSUME NEW h, AHistory(h), NEW name
  PROVE  LET ok == {i \in DOMAIN h : h[i].task = name /\ h[i].ok}  last == LastSuccess(h, name) IN
         /\ last = NeverRan <=> ok = {}
         /\ last # NeverRan => \E i \in ok : h[i].at = last /\ \A j \in ok : h[j].at <= last
         /\ last \in Nat \cup {NeverRan}
<1> DEFINE ok == {i \in DOMAIN h : h[i].task = name /\ h[i].ok}  last == LastSuccess(h, name)
<1>1. /\ Len(h) \in Nat /\ DOMAIN h = 1 .. Len(h) /\ \A i \in DOMAIN h : h[i].at \in Nat
      /\ \A i, j \in DOMAIN h : i <= j => h[i].at <= h[j].at
  BY DEF AHistory, ARun
<1>2. CASE ok = {}
  BY <1>2 DEF LastSuccess, NeverRan
<1>3. CASE ok # {}
  <2>1. \E i \in ok : \A j \in ok : j <= i
    <3>1. ok \in SUBSET Nat /\ IsFiniteSet(ok)
      <4>1. ok \subseteq 1 .. Len(h) /\ IsFiniteSet(1 .. Len(h))
        BY <1>1, Stretch
      <4> QED
        BY <1>1, <4>1, FS_Subset
    <3> HIDE DEF ok
    <3> QED
      BY <1>3, <3>1, LastOne
  <2> DEFINE i == CHOOSE i \in ok : \A j \in ok : j <= i
  <2>2. i \in ok /\ \A j \in ok : j <= i
    BY <2>1
  <2>3. last = h[i].at
    BY <1>3 DEF LastSuccess
  <2> HIDE DEF i, last
  <2>4. last \in Nat /\ \A j \in ok : h[j].at <= last
    BY <1>1, <2>2, <2>3
  <2> QED
    BY <1>3, <2>2, <2>3, <2>4 DEF NeverRan, last
<1> QED
  BY <1>2, <1>3

(* A list of the entries at some places of a history, in their order.       *)
Upto(K, j) == {l \in K : l <= j}
ListsThem(h, K, q) ==
  /\ q \in Seq(Range(h)) /\ Len(q) = Cardinality(K)
  /\ \A i \in 1 .. Len(q) : \E j \in K : q[i] = h[j] /\ Cardinality(Upto(K, j)) = i

(* One place more.                                                          *)
LEMMA OneMore ==
  ASSUME NEW K, IsFiniteSet(K), NEW k \in Nat, K \subseteq 0 .. k - 1
  PROVE  /\ Cardinality(K) \in Nat /\ IsFiniteSet(K \cup {k}) /\ Cardinality(K \cup {k}) = Cardinality(K) + 1
         /\ \A j \in K : Upto(K \cup {k}, j) = Upto(K, j)
         /\ Upto(K \cup {k}, k) = K \cup {k}
<1>1. k \notin K
  OBVIOUS
<1>2. Cardinality(K) \in Nat
  BY FS_CardinalityType
<1>3. IsFiniteSet(K \cup {k}) /\ Cardinality(K \cup {k}) = Cardinality(K) + 1
  BY <1>1, FS_AddElement
<1>4. ASSUME NEW j \in K PROVE Upto(K \cup {k}, j) = Upto(K, j)
  BY DEF Upto
<1>5. Upto(K \cup {k}, k) = K \cup {k}
  <2>1. \A l \in K \cup {k} : l <= k
    OBVIOUS
  <2> QED
    BY <2>1, Zenon DEF Upto
<1> QED
  BY <1>2, <1>3, <1>4, <1>5

(* The history of one task, or the whole of it.                             *)
Mine(h, name) == {i \in DOMAIN h : name \in {Unset, h[i].task}}

(* The history of a task is what there is of it, in order.                 *)
LEMMA HistoryIsFiltered ==
  ASSUME NEW h, AHistory(h), NEW name
  PROVE  ListsThem(h, Mine(h, name), FilterHistory(h, name))
<1> DEFINE n == Len(h)  S == Seq(Range(h))  K(k) == {j \in 1 .. k : h[j].task = name}
           Rule(f) == f = [k \in 0 .. n |-> IF k = 0 THEN <<>> ELSE IF h[k].task = name THEN Append(f[k - 1], h[k]) ELSE f[k - 1]]
           g == [k \in 1 .. n |-> [q \in S |-> IF h[k].task = name THEN Append(q, h[k]) ELSE q]]
           F == CHOOSE f : Rule(f)
<1>1. h \in S /\ n \in Nat /\ DOMAIN h = 1 .. n /\ <<>> \in S /\ \A k \in 1 .. n : h[k] \in Range(h)
  BY DEF AHistory, Range
<1>2. CASE name = Unset
  <2>1. FilterHistory(h, name) = h
    BY <1>2 DEF FilterHistory
  <2>2. Mine(h, name) = 1 .. n
    BY <1>1, <1>2 DEF Mine
  <2>3. Cardinality(1 .. n) = n
    BY <1>1, Stretch
  <2>4. ASSUME NEW i \in 1 .. n PROVE Cardinality(Upto(1 .. n, i)) = i
    <3>1. Upto(1 .. n, i) = 1 .. i /\ i \in Nat
      BY <1>1 DEF Upto
    <3> QED
      BY <3>1, Stretch
  <2> HIDE DEF n
  <2> QED
    BY <1>1, <2>1, <2>2, <2>3, <2>4 DEF ListsThem, n
<1>3. CASE name # Unset
  <2>1. FilterHistory(h, name) = F[n]
    BY <1>3 DEF FilterHistory
  <2>2. Mine(h, name) = K(n)
    BY <1>1, <1>3 DEF Mine
  <2> HIDE DEF n, S
  <2>3. g \in Steps(n, S) /\ \A k \in 1 .. n : \A q \in S : g[k][q] = IF h[k].task = name THEN Append(q, h[k]) ELSE q
    <3>1. \A k \in 1 .. n : \A q \in S : Append(q, h[k]) \in S
      BY <1>1, AppendProperties DEF S
    <3> QED
      BY <3>1 DEF Steps
  <2> HIDE DEF g
  <2>4. PICK f : Walks(f, n, S, <<>>, g)
    BY <1>1, <2>3, StepByStep
  <2>5. f \in [0 .. n -> S] /\ f[0] = <<>> /\ \A k \in 1 .. n : f[k] = g[k][f[k - 1]]
    BY <2>4 DEF Walks
  <2>6. \A k \in 1 .. n : k - 1 \in 0 .. n /\ k \in 0 .. n /\ k # 0
    BY <1>1
  <2>7. Rule(f)
    <3>1. \A k \in 0 .. n : k # 0 => k \in 1 .. n
      OBVIOUS
    <3>2. \A k \in 1 .. n : f[k] = IF h[k].task = name THEN Append(f[k - 1], h[k]) ELSE f[k - 1]
      BY <2>3, <2>5, <2>6
    <3>3. \A k \in 0 .. n : f[k] = IF k = 0 THEN <<>> ELSE IF h[k].task = name THEN Append(f[k - 1], h[k]) ELSE f[k - 1]
      BY <2>5, <3>1, <3>2
    <3> QED
      BY <3>3, <2>5
  <2> HIDE DEF Rule
  <2>8. Rule(F)
    BY <2>7
  <2> HIDE DEF F
  <2>9. /\ F[0] = <<>> /\ F = [k \in 0 .. n |-> F[k]]
        /\ \A k \in 1 .. n : F[k] = IF h[k].task = name THEN Append(F[k - 1], h[k]) ELSE F[k - 1]
    <3>1. F = [k \in 0 .. n |-> IF k = 0 THEN <<>> ELSE IF h[k].task = name THEN Append(F[k - 1], h[k]) ELSE F[k - 1]]
      BY <2>8 DEF Rule
    <3>2. 0 \in 0 .. n
      BY <1>1
    <3> QED
      BY <3>1, <3>2, <2>6
  <2>10. \A k \in 1 .. n : F[k - 1] \in S => F[k] = g[k][F[k - 1]]
    BY <2>3, <2>9
  <2>11. Walks(F, n, S, <<>>, g)
    BY <1>1, <2>3, <2>9, <2>10, KeepsWalking
  <2>12. F \in [0 .. n -> S]
    BY <2>11 DEF Walks
  <2> DEFINE Good == {k \in 0 .. n : ListsThem(h, K(k), F[k])}
  <2>13. \A k \in 0 .. n : IsFiniteSet(K(k)) /\ K(k) \subseteq 1 .. k
    <3>1. ASSUME NEW k \in 0 .. n PROVE IsFiniteSet(K(k)) /\ K(k) \subseteq 1 .. k
      <4>1. K(k) \subseteq 1 .. k /\ IsFiniteSet(1 .. k)
        BY <1>1, Stretch
      <4> QED
        BY <4>1, FS_Subset
    <3> QED
      BY <3>1
  <2>14. 0 \in Good
    <3>1. K(0) = {} /\ 0 \in 0 .. n
      BY <1>1
    <3>2. Len(<<>>) = 0 /\ Cardinality({}) = 0 /\ 1 .. 0 = {}
      BY FS_EmptySet
    <3> QED
      BY <1>1, <2>9, <3>1, <3>2 DEF ListsThem, S
  <2>15. ASSUME NEW k \in 1 .. n, k - 1 \in Good PROVE k \in Good
    <3> DEFINE J == K(k - 1)  q == F[k - 1]
    <3>1. ListsThem(h, J, q) /\ k \in 0 .. n /\ k \in Nat /\ q \in S
      BY <1>1, <2>6, <2>12, <2>15
    <3>2. IsFiniteSet(J) /\ J \subseteq 0 .. k - 1
      BY <2>6, <2>13
    <3>3. CASE h[k].task # name
      <4>1. K(k) = J
        BY <1>1, <3>3
      <4>2. F[k] = q
        BY <2>9, <3>3
      <4> QED
        BY <3>1, <4>1, <4>2
    <3>4. CASE h[k].task = name
      <4>1. K(k) = J \cup {k}
        BY <1>1, <3>4
      <4>2. F[k] = Append(q, h[k])
        BY <2>9, <3>4
      <4> HIDE DEF J, q
      <4> DEFINE r == Append(q, h[k])  L == J \cup {k}
      <4>3. /\ Cardinality(J) \in Nat /\ Cardinality(L) = Cardinality(J) + 1
            /\ (\A j \in J : Upto(L, j) = Upto(J, j)) /\ Upto(L, k) = L
        BY <3>1, <3>2, OneMore
      <4>4. /\ q \in Seq(Range(h)) /\ Len(q) = Cardinality(J)
            /\ \A i \in 1 .. Len(q) : \E j \in J : q[i] = h[j] /\ Cardinality(Upto(J, j)) = i
        BY <3>1 DEF ListsThem
      <4>5. /\ r \in Seq(Range(h)) /\ Len(r) = Len(q) + 1 /\ r[Len(q) + 1] = h[k]
            /\ \A i \in 1 .. Len(q) : r[i] = q[i]
        BY <1>1, <4>4, AppendProperties
      <4> HIDE DEF r, L
      <4>6. ASSUME NEW i \in 1 .. Len(r) PROVE \E j \in L : r[i] = h[j] /\ Cardinality(Upto(L, j)) = i
        <5>1. CASE i = Len(q) + 1
          <6>1. k \in L
            BY DEF L
          <6> QED
            BY <4>3, <4>4, <4>5, <5>1, <6>1
        <5>2. CASE i # Len(q) + 1
          <6>1. i \in 1 .. Len(q)
            BY <4>3, <4>4, <4>5, <5>2
          <6>2. PICK j \in J : q[i] = h[j] /\ Cardinality(Upto(J, j)) = i
            BY <4>4, <6>1
          <6>3. j \in L /\ r[i] = h[j] /\ Upto(L, j) = Upto(J, j)
            BY <4>3, <4>5, <6>1, <6>2 DEF L
          <6> QED
            BY <6>2, <6>3
        <5> QED
          BY <5>1, <5>2
      <4>7. ListsThem(h, L, r)
        BY <4>3, <4>4, <4>5, <4>6 DEF ListsThem
      <4> QED
        BY <3>1, <4>1, <4>2, <4>7 DEF L, r
    <3> QED
      BY <3>3, <3>4
  <2> HIDE DEF Good
  <2>16. \A k \in 1 .. n : k - 1 \in Good => k \in Good
    BY <2>15
  <2>17. n \in Good
    <3>1. n \in 0 .. n
      BY <1>1
    <3> QED
      BY <1>1, <2>14, <2>16, <3>1, Climb
  <2> QED
    BY <2>1, <2>2, <2>17 DEF Good
<1> QED
  BY <1>2, <1>3

(* From a place of K on there are as many as are listed from there.         *)
LEMMA FromThereOn ==
  ASSUME NEW K, IsFiniteSet(K), K \subseteq Nat, NEW j \in K
  PROVE  /\ Cardinality(K) \in Nat /\ Cardinality(Upto(K, j)) \in Nat
         /\ Cardinality({k \in K : k >= j}) = Cardinality(K) - Cardinality(Upto(K, j)) + 1
<1> DEFINE A == Upto(K, j)  B == {k \in K : k >= j}
<1>1. A \subseteq K /\ B \subseteq K /\ A \cup B = K /\ A \cap B = {j}
  <2>1. /\ \A l : l \in A <=> l \in K /\ l <= j
        /\ \A l : l \in B <=> l \in K /\ l >= j
    BY DEF Upto
  <2>2. \A l \in K : (l <= j \/ l >= j) /\ (l <= j /\ l >= j <=> l = j)
    OBVIOUS
  <2> HIDE DEF A, B
  <2>3. A \subseteq K /\ B \subseteq K /\ A \cup B = K
    BY <2>1, <2>2
  <2>4. A \cap B = {j}
    BY <2>1, <2>2
  <2> QED
    BY <2>3, <2>4
<1> HIDE DEF A, B
<1>2. IsFiniteSet(A) /\ IsFiniteSet(B)
  BY <1>1, FS_Subset
<1>3. Cardinality(A) \in Nat /\ Cardinality(B) \in Nat /\ Cardinality(K) \in Nat
  BY <1>2, FS_CardinalityType
<1>4. Cardinality(A \cup B) = Cardinality(A) + Cardinality(B) - Cardinality(A \cap B)
  BY <1>2, FS_Union
<1>5. Cardinality({j}) = 1
  BY FS_Singleton
<1>6. Cardinality(B) = Cardinality(K) - Cardinality(A) + 1
  BY <1>1, <1>3, <1>4, <1>5
<1> QED
  BY <1>3, <1>6 DEF A, B

(* The history that is shown is the end of the history of the task, as much *)
(* of it as is asked for, and the last run that is told is the newest       *)
(* success in it (cron/tools.go:22, history.go LastRun).                    *)
THEOREM HistoryIsShown ==
  ASSUME NEW h, AHistory(h), NEW name, NEW limit \in Nat
  PROVE  ViewsAreFaithful(h, name, limit)
<1> DEFINE K == Mine(h, name)  q == FilterHistory(h, name)  m == Cardinality(K)  shown == ShownHistory(h, name, limit)
           n == IF m < limit THEN m ELSE limit
           ok == {i \in DOMAIN h : h[i].task = name /\ h[i].ok}
           last == LastSuccess(h, name)
<1>1. ListsThem(h, K, q)
  BY HistoryIsFiltered
<1>2. /\ Len(h) \in Nat /\ DOMAIN h = 1 .. Len(h) /\ \A i \in DOMAIN h : h[i].at \in Nat
      /\ \A i, j \in DOMAIN h : i <= j => h[i].at <= h[j].at
  BY DEF AHistory, ARun
<1>3. K \subseteq DOMAIN h /\ K \subseteq Nat /\ IsFiniteSet(K)
  <2>1. K \subseteq DOMAIN h
    BY DEF Mine
  <2>2. IsFiniteSet(1 .. Len(h))
    BY <1>2, Stretch
  <2> QED
    BY <1>2, <2>1, <2>2, FS_Subset
<1>4. m \in Nat
  BY <1>3, FS_CardinalityType
<1>5. shown = IF Len(q) > limit THEN SubSeq(q, Len(q) - limit + 1, Len(q)) ELSE q
  BY DEF ShownHistory
<1>6. (name # Unset => last = NeverRan <=> ok = {}) /\ (last # NeverRan => \E i \in ok : h[i].at = last /\ \A j \in ok : h[j].at <= last)
  BY NewestSuccess
<1>7. /\ \A i : i \in K <=> i \in DOMAIN h /\ name \in {Unset, h[i].task}
      /\ \A i : i \in ok <=> i \in DOMAIN h /\ h[i].task = name /\ h[i].ok
  BY DEF Mine
<1> HIDE DEF K, q, shown, ok, last
<1>8. q \in Seq(Range(h)) /\ Len(q) = m /\ \A i \in 1 .. m : \E j \in K : q[i] = h[j] /\ Cardinality(Upto(K, j)) = i
  BY <1>1 DEF ListsThem
<1> HIDE DEF m
<1> DEFINE skip == IF m > limit THEN m - limit ELSE 0
<1>9. skip \in Nat /\ n \in Nat /\ skip + n = m
  BY <1>4
<1>10. DOMAIN shown = 1 .. n /\ Len(shown) = n /\ \A i \in 1 .. n : shown[i] = q[skip + i]
  <2>1. CASE m > limit
    <3>1. shown = SubSeq(q, m - limit + 1, m) /\ skip = m - limit /\ n = limit
      BY <1>4, <1>5, <1>8, <2>1
    <3> DEFINE from == m - limit + 1
    <3>2. from \in 1 .. Len(q) + 1 /\ m \in from - 1 .. Len(q)
      BY <1>4, <1>8, <2>1
    <3>3. /\ shown \in Seq(Range(h)) /\ Len(shown) = (IF from <= m THEN m - from + 1 ELSE 0)
          /\ \A i \in 1 .. m - from + 1 : shown[i] = q[from + i - 1]
      BY <1>8, <3>1, <3>2, SubSeqProperties
    <3>4. m - from + 1 = limit /\ (from <= m <=> limit >= 1) /\ \A i \in 1 .. limit : from + i - 1 = m - limit + i
      BY <1>4
    <3> HIDE DEF from
    <3>5. Len(shown) = limit /\ DOMAIN shown = 1 .. limit /\ \A i \in 1 .. limit : shown[i] = q[m - limit + i]
      BY <3>3, <3>4
    <3> QED
      BY <3>1, <3>5
  <2>2. CASE ~(m > limit)
    <3>1. shown = q /\ skip = 0 /\ n = m
      BY <1>4, <1>5, <1>8, <2>2
    <3> QED
      BY <1>4, <1>8, <3>1
  <2> QED
    BY <2>1, <2>2
<1>11. ASSUME NEW i \in 1 .. n
       PROVE  \E j \in K : shown[i] = h[j] /\ Cardinality({k \in K : k >= j}) = n - i + 1
  <2>1. skip + i \in 1 .. m
    BY <1>9
  <2>2. PICK j \in K : q[skip + i] = h[j] /\ Cardinality(Upto(K, j)) = skip + i
    BY <1>8, <2>1
  <2> HIDE DEF skip, n
  <2>3. Cardinality({k \in K : k >= j}) = m - (skip + i) + 1
    BY <1>3, <2>2, FromThereOn DEF m
  <2>4. m - (skip + i) + 1 = n - i + 1
    BY <1>9
  <2> QED
    BY <1>10, <2>2, <2>3, <2>4
<1> HIDE DEF skip
<1>12. ASSUME name # Unset, NEW i \in 1 .. n, shown[i].ok PROVE shown[i].at <= last
  <2>1. PICK j \in K : shown[i] = h[j]
    BY <1>11
  <2>2. j \in ok
    BY <1>7, <1>12, <2>1
  <2>3. last # NeverRan
    BY <1>6, <1>12, <2>2
  <2> QED
    BY <1>6, <2>1, <2>2, <2>3
<1>13. ASSUME name # Unset, last # NeverRan PROVE \E i \in K : h[i].ok /\ h[i].at = last
  BY <1>6, <1>7, <1>13
<1> HIDE DEF n
<1>14. /\ Len(shown) = n
       /\ \A i \in DOMAIN shown : \E j \in K : shown[i] = h[j] /\ Cardinality({k \in K : k >= j}) = Len(shown) - i + 1
       /\ name # Unset => \A i \in DOMAIN shown : shown[i].ok => shown[i].at <= last
       /\ name # Unset /\ last # NeverRan => \E i \in K : h[i].ok /\ h[i].at = last
  BY <1>10, <1>11, <1>12, <1>13
<1> QED
  BY <1>14 DEF ViewsAreFaithful, n, m, K, Mine, shown, last

-----------------------------------------------------------------------------
(* Lists of scheduled tasks.                                                *)

(* What can stand in a file of schedules.                                   *)
ASpec(spec) ==
  /\ spec.every \in {Unset, Bad} \cup Int /\ spec.dailyAt \in {Unset, Bad} \cup Int
  /\ spec.weekly \in {Unset, Bad} \cup [weekday : 0 .. Week - 1, at : Int]

(* A specification is refused or stands for a schedule.                     *)
LEMMA SpecsAreParsed ==
  ASSUME NEW spec, ASpec(spec)
  PROVE  ParseSchedule(spec) = Bad \/ ASchedule(ParseSchedule(spec))
<1> DEFINE s == ParseSchedule(spec)
<1> SUFFICES ASSUME s # Bad PROVE ASchedule(s)
  OBVIOUS
<1>1. CASE spec.every # Unset
  <2>1. spec.every # Bad /\ ~(spec.every < 1) /\ s = [kind |-> "interval", every |-> spec.every]
    BY <1>1 DEF ParseSchedule
  <2>2. spec.every \in Int
    BY <1>1, <2>1 DEF ASpec
  <2> QED
    BY <2>1, <2>2 DEF ASchedule, Interval
<1>2. CASE spec.every = Unset /\ spec.dailyAt # Unset
  <2>1. spec.dailyAt \in 0 .. Day - 1 /\ s = [kind |-> "daily", at |-> spec.dailyAt]
    BY <1>2 DEF ParseSchedule
  <2> QED
    BY <2>1 DEF ASchedule, Daily
<1>3. CASE spec.every = Unset /\ spec.dailyAt = Unset
  <2>1. /\ spec.weekly # Unset /\ spec.weekly # Bad /\ spec.weekly.at \in 0 .. Day - 1
        /\ s = [kind |-> "weekly", weekday |-> spec.weekly.weekday, at |-> spec.weekly.at]
    BY <1>3 DEF ParseSchedule
  <2>2. spec.weekly.weekday \in 0 .. Week - 1
    BY <2>1 DEF ASpec
  <2> QED
    BY <2>1, <2>2 DEF ASchedule, Weekly
<1> QED
  BY <1>1, <1>2, <1>3

(* What is listed as overdue has run before and its next run lies behind,   *)
(* and what the status line counts is what the list shows                   *)
(* (cron/cron.go ListTasks, helpers.go countTasks).                         *)
THEOREM TasksAreListed ==
  ASSUME NEW tasks, IsFiniteSet(DOMAIN tasks), \A n \in DOMAIN tasks : ASpec(tasks[n].schedule),
         NEW h, AHistory(h), NEW t \in Nat, \A i \in DOMAIN h : h[i].at <= t
  PROVE  ListIsFaithful(tasks, h, t)
<1> DEFINE list == ListTasks(tasks, h, t)  s(n) == ParseSchedule(tasks[n].schedule)  last(n) == LastSuccess(h, n)
           D == {n \in DOMAIN tasks : s(n) # Bad}
<1>1. list = [n \in D |-> StatusSummary(tasks[n], last(n), t)]
  BY DEF ListTasks
<1>2. DOMAIN list = D /\ \A n \in D : list[n] = StatusSummary(tasks[n], last(n), t)
  BY <1>1
<1> HIDE DEF list
<1>3. ASSUME NEW n \in D
      PROVE  /\ list[n].enabled = tasks[n].enabled
             /\ list[n].next = IF last(n) = NeverRan THEN t ELSE NextAfter(s(n), last(n))
             /\ list[n].overdue = (last(n) # NeverRan /\ DueAt(s(n), last(n), t))
  BY <1>2 DEF StatusSummary
<1>4. ASSUME NEW n \in D
      PROVE  /\ list[n].overdue => \E i \in DOMAIN h : h[i].task = n /\ h[i].ok
             /\ list[n].next > t => ~list[n].overdue
  <2> SUFFICES ASSUME list[n].overdue PROVE (\E i \in DOMAIN h : h[i].task = n /\ h[i].ok) /\ ~(list[n].next > t)
    BY <1>3
  <2>1. last(n) # NeverRan /\ DueAt(s(n), last(n), t) /\ list[n].next = NextAfter(s(n), last(n))
    BY <1>3
  <2>2. PICK i \in {i \in DOMAIN h : h[i].task = n /\ h[i].ok} : h[i].at = last(n)
    BY <2>1, NewestSuccess
  <2>3. last(n) \in Nat /\ last(n) <= t
    BY <2>2 DEF AHistory, ARun
  <2>4. s(n) # Bad /\ ASchedule(s(n))
    BY SpecsAreParsed
  <2> DEFINE x == s(n)  l == last(n)
  <2> HIDE DEF x, l
  <2>5. x # Bad /\ ASchedule(x) /\ l \in Nat /\ l <= t /\ DueAt(x, l, t) /\ l # NeverRan
    BY <2>1, <2>3, <2>4 DEF x, l
  <2>6. SchedulesKeepTime(x, l, t)
    BY <2>5, SchedulesTellTheTime
  <2>7. NextAfter(x, l) <= t
    BY <2>5, <2>6 DEF SchedulesKeepTime
  <2>8. NextAfter(x, l) \in Nat
    <3>1. CASE Interval(x)
      BY <2>5, <3>1 DEF Interval, NextAfter
    <3>2. CASE Daily(x) \/ Weekly(x)
      BY <2>5, <3>2, NextIsFirst
    <3> QED
      BY <2>5, <3>1, <3>2 DEF ASchedule
  <2>9. list[n].next = NextAfter(x, l)
    BY <2>1 DEF x, l
  <2> QED
    BY <2>2, <2>7, <2>8, <2>9
<1> DEFINE shown == {n \in DOMAIN list : list[n].enabled}  stored == {n \in DOMAIN tasks : tasks[n].enabled}
<1>5. Cardinality(shown) <= Cardinality(stored)
  <2>1. shown \subseteq stored /\ stored \subseteq DOMAIN tasks
    BY <1>2, <1>3
  <2> HIDE DEF shown, stored
  <2>2. IsFiniteSet(stored)
    BY <2>1, FS_Subset
  <2> QED
    BY <2>1, <2>2, FS_Subset
<1>6. Counts(list).enabled = Cardinality(shown) /\ StatusCounts(tasks).enabled = Cardinality(stored)
  BY DEF Counts, StatusCounts
<1>7. Counts(list).overdue = Cardinality({n \in DOMAIN list : Word(list[n]) = "OVERDUE"})
  <2>1. \A n \in DOMAIN list : Word(list[n]) = "OVERDUE" <=> list[n].overdue
    BY <1>2, <1>3 DEF Word
  <2>2. {n \in DOMAIN list : Word(list[n]) = "OVERDUE"} = {n \in DOMAIN list : list[n].overdue}
    BY <2>1
  <2> QED
    BY <2>2 DEF Counts
<1> QED
  BY <1>2, <1>4, <1>5, <1>6, <1>7 DEF ListIsFaithful, list

-----------------------------------------------------------------------------
(* Names of tasks.                                                          *)

(* Of some places one is the first.                                         *)
LEMMA FirstOne ==
  ASSUME NEW n \in Nat, NEW K, K \subseteq 1 .. n, K # {}
  PROVE  \E i \in K : \A j \in K : i <= j
<1> DEFINE L == {k \in 1 .. n : n + 1 - k \in K}
<1>1. L \subseteq 1 .. n /\ L \subseteq Nat
  OBVIOUS
<1>2. IsFiniteSet(L)
  BY <1>1, Stretch, FS_Subset
<1>3. ASSUME NEW k \in K PROVE n + 1 - k \in L
  <2>1. k \in 1 .. n /\ n + 1 - k \in 1 .. n /\ n + 1 - (n + 1 - k) = k
    OBVIOUS
  <2> QED
    BY <2>1
<1>4. PICK l \in L : \A m \in L : m <= l
  <2>1. L # {}
    BY <1>3
  <2> HIDE DEF L
  <2> QED
    BY <1>1, <1>2, <2>1, LastOne
<1>5. n + 1 - l \in K
  OBVIOUS
<1> HIDE DEF L
<1>6. ASSUME NEW j \in K PROVE n + 1 - l <= j
  <2>1. n + 1 - j \in L /\ n + 1 - j <= l /\ j \in 1 .. n /\ l \in 1 .. n
    BY <1>1, <1>3, <1>4
  <2> QED
    BY <2>1
<1> QED
  BY <1>5, <1>6

(* Whatever is taken, one of the numbered slugs is free, and the first free *)
(* one begins with the slug.                                               *)
LEMMA FreshIDIsFree ==
  ASSUME NEW d, IsFiniteSet(DOMAIN d), NEW slug \in Seq(Nat)
  PROVE  LET id == FreshID(d, slug) IN
         id \notin DOMAIN d /\ IsPrefix(slug, id) /\ id \in Seq(Nat)
<1> DEFINE D == DOMAIN d  n == Cardinality(D) + 1  free == {i \in 1 .. n : Numbered(slug, i) \notin D}
           first == CHOOSE i \in free : \A j \in free : i <= j
<1>1. Cardinality(D) \in Nat /\ n \in Nat /\ Cardinality(D) < n
  BY FS_CardinalityType
<1>2. FreshID(d, slug) = Numbered(slug, first)
  BY DEF FreshID
<1> HIDE DEF n
<1>3. free # {}
  <2> SUFFICES ASSUME free = {} PROVE FALSE
    OBVIOUS
  <2> DEFINE f == [i \in 1 .. n |-> Numbered(slug, i)]
  <2>1. f \in [1 .. n -> D]
    OBVIOUS
  <2>2. IsFiniteSet(1 .. n) /\ Cardinality(1 .. n) = n
    BY <1>1, Stretch
  <2> HIDE DEF f, D
  <2>3. PICK i, j \in 1 .. n : i # j /\ f[i] = f[j]
    BY <1>1, <2>1, <2>2, FS_PigeonHole DEF D
  <2>4. Numbered(slug, i) = Numbered(slug, j)
    BY <2>3 DEF f
  <2>5. \A k \in 1 .. n : Append(slug, k) \in Seq(Nat) /\ Len(Append(slug, k)) = Len(slug) + 1 /\ Append(slug, k)[Len(slug) + 1] = k
    BY <1>1, AppendProperties
  <2>6. Len(slug) \in Nat
    OBVIOUS
  <2>7. CASE i = 1
    <3>1. slug = Append(slug, j)
      BY <2>3, <2>4, <2>7 DEF Numbered
    <3> QED
      BY <2>5, <2>6, <3>1
  <2>8. CASE i # 1 /\ j = 1
    <3>1. slug = Append(slug, i)
      BY <2>4, <2>8 DEF Numbered
    <3> QED
      BY <2>5, <2>6, <3>1
  <2>9. CASE i # 1 /\ j # 1
    <3>1. Append(slug, i) = Append(slug, j)
      BY <2>4, <2>9 DEF Numbered
    <3> QED
      BY <2>3, <2>5, <3>1
  <2> QED
    BY <2>7, <2>8, <2>9
<1>4. first \in free
  <2>1. \E i \in free : \A j \in free : i <= j
    BY <1>1, <1>3, FirstOne
  <2> QED
    BY <2>1
<1> HIDE DEF first
<1>5. first \in Nat /\ Numbered(slug, first) \notin D
  BY <1>1, <1>4
<1>6. IsPrefix(slug, Numbered(slug, first)) /\ Numbered(slug, first) \in Seq(Nat)
  <2>1. CASE first = 1
    BY <2>1 DEF Numbered, IsPrefix
  <2>2. CASE first # 1
    <3> DEFINE s == Append(slug, first)
    <3>1. s \in Seq(Nat) /\ Len(s) = Len(slug) + 1 /\ \A i \in 1 .. Len(slug) : s[i] = slug[i]
      BY <1>5, AppendProperties
    <3> HIDE DEF s
    <3> DEFINE m == Len(slug)  a == SubSeq(slug, 1, m)  b == SubSeq(s, 1, m)
    <3>2. m \in Nat /\ m <= Len(s)
      BY <3>1
    <3>3. /\ a \in Seq(Nat) /\ Len(a) = (IF 1 <= m THEN m - 1 + 1 ELSE 0) /\ \A i \in 1 .. m - 1 + 1 : a[i] = slug[1 + i - 1]
          /\ b \in Seq(Nat) /\ Len(b) = (IF 1 <= m THEN m - 1 + 1 ELSE 0) /\ \A i \in 1 .. m - 1 + 1 : b[i] = s[1 + i - 1]
      <4>1. (\A i \in 1 .. m : slug[i] \in Nat) /\ (\A i \in 1 .. m : s[i] \in Nat) /\ m \in Int /\ 1 \in Int
        BY <3>1, <3>2
      <4> HIDE DEF m
      <4> QED
        BY <4>1, SubSeqProperties
    <3> HIDE DEF a, b
    <3>4. Len(a) = m /\ Len(b) = m /\ \A i \in 1 .. m : a[i] = b[i]
      <4>1. m - 1 + 1 = m /\ \A i \in 1 .. m : 1 + i - 1 = i
        BY <3>2
      <4> QED
        BY <3>1, <3>2, <3>3, <4>1
    <3>5. a = b
      BY <3>3, <3>4, SeqEqual
    <3>6. IsPrefix(slug, s)
      BY <3>2, <3>5 DEF IsPrefix, a, b
    <3> QED
      BY <2>2, <3>1, <3>6 DEF Numbered, s
  <2> QED
    BY <2>1, <2>2
<1> QED
  BY <1>2, <1>5, <1>6

(* A query that is resolved is one end of the id it names, and of no other  *)
(* unless it is the whole id.                                               *)
LEMMA ResolvedIsOne ==
  ASSUME NEW d, IsFiniteSet(DOMAIN d), NEW query
  PROVE  LET found == ResolveID(d, query) IN
         /\ query \in DOMAIN d => found = query
         /\ found # NoTask /\ found # query =>
              \/ IsPrefix(query, found) /\ \A other \in DOMAIN d : IsPrefix(query, other) => other = found
              \/ IsSuffix(query, found) /\ \A other \in DOMAIN d : IsSuffix(query, other) => other = found
<1> DEFINE prefixed == {id \in DOMAIN d : IsPrefix(query, id)}
           suffixed == {id \in DOMAIN d : IsSuffix(query, id)}
           found == ResolveID(d, query)
<1>1. found = IF query \in DOMAIN d THEN query
              ELSE IF Cardinality(prefixed) = 1 THEN CHOOSE id \in prefixed : TRUE
              ELSE IF Cardinality(suffixed) = 1 THEN CHOOSE id \in suffixed : TRUE
              ELSE NoTask
  BY DEF ResolveID
<1>2. /\ \A x : x \in prefixed <=> x \in DOMAIN d /\ IsPrefix(query, x)
      /\ \A x : x \in suffixed <=> x \in DOMAIN d /\ IsSuffix(query, x)
  OBVIOUS
<1>3. IsFiniteSet(prefixed) /\ IsFiniteSet(suffixed)
  BY FS_Subset
<1> HIDE DEF prefixed, suffixed, found
<1>4. \A S : IsFiniteSet(S) /\ Cardinality(S) = 1 => \E x : S = {x} /\ (CHOOSE id \in S : TRUE) = x
  <2>1. \A x : (CHOOSE id \in {x} : TRUE) = x
    OBVIOUS
  <2> QED
    BY <2>1, FS_Singleton
<1>5. Cardinality(prefixed) = 1 => \E x : prefixed = {x} /\ (CHOOSE id \in prefixed : TRUE) = x
  BY <1>3, <1>4
<1>6. Cardinality(suffixed) = 1 => \E x : suffixed = {x} /\ (CHOOSE id \in suffixed : TRUE) = x
  BY <1>3, <1>4
<1>7. CASE query \in DOMAIN d
  BY <1>1, <1>7 DEF found
<1>8. CASE query \notin DOMAIN d /\ Cardinality(prefixed) = 1
  <2>1. PICK x : prefixed = {x} /\ (CHOOSE id \in prefixed : TRUE) = x
    BY <1>5, <1>8
  <2>2. found = x
    BY <1>1, <1>8, <2>1
  <2>3. IsPrefix(query, x) /\ \A other \in DOMAIN d : IsPrefix(query, other) => other = x
    BY <1>2, <2>1
  <2> QED
    BY <1>8, <2>2, <2>3 DEF found
<1>9. CASE query \notin DOMAIN d /\ Cardinality(prefixed) # 1 /\ Cardinality(suffixed) = 1
  <2>1. PICK x : suffixed = {x} /\ (CHOOSE id \in suffixed : TRUE) = x
    BY <1>6, <1>9
  <2>2. found = x
    BY <1>1, <1>9, <2>1
  <2>3. IsSuffix(query, x) /\ \A other \in DOMAIN d : IsSuffix(query, other) => other = x
    BY <1>2, <2>1
  <2> QED
    BY <1>9, <2>2, <2>3 DEF found
<1>10. CASE query \notin DOMAIN d /\ Cardinality(prefixed) # 1 /\ Cardinality(suffixed) # 1
  BY <1>1, <1>10 DEF found
<1> QED
  BY <1>7, <1>8, <1>9, <1>10

(* Whatever tasks there are and however they are named, a new one takes an  *)
(* id of its own and answers to it, a query names one task or none, and the *)
(* tools and /todo do the same to the same task (tasklist/store.go:58,      *)
(* store_write.go:10, tools.go, command.go).                                *)
THEOREM QueriesNameOneTask ==
  ASSUME NEW d, IsFiniteSet(DOMAIN d), NEW slug \in Seq(Nat), NEW query \in Seq(Nat)
  PROVE  QueriesAreCertain(d, slug, query)
<1> DEFINE id == FreshID(d, slug)
           added == [status |-> "active", group |-> "todo", parent |-> <<>>, updated |-> 9, words |-> {}]
           after == [x \in {id} \cup DOMAIN d |-> IF x = id THEN added ELSE d[x]]
           found == ResolveID(d, query)
           args == [query |-> query, group |-> "backlog", parent |-> <<>>, action |-> "append", text |-> "a", field |-> "url"]
<1>1. id \notin DOMAIN d /\ IsPrefix(slug, id)
  BY FreshIDIsFree
<1>2. ResolveID(after, id) = id
  <2>1. DOMAIN after = {id} \cup DOMAIN d /\ id \in DOMAIN after
    OBVIOUS
  <2>2. IsFiniteSet(DOMAIN after)
    BY <2>1, FS_AddElement
  <2> HIDE DEF after, id
  <2> QED
    BY <2>1, <2>2, ResolvedIsOne
<1>3. found # NoTask => /\ IsPrefix(query, found) \/ IsSuffix(query, found)
                        /\ found # query => query \notin DOMAIN d /\
                               \/ \A other \in DOMAIN d : IsPrefix(query, other) => other = found
                               \/ \A other \in DOMAIN d : IsSuffix(query, other) => other = found
  <2>1. /\ query \in DOMAIN d => found = query
        /\ found # NoTask /\ found # query =>
             \/ IsPrefix(query, found) /\ \A other \in DOMAIN d : IsPrefix(query, other) => other = found
             \/ IsSuffix(query, found) /\ \A other \in DOMAIN d : IsSuffix(query, other) => other = found
    BY ResolvedIsOne
  <2>2. IsPrefix(query, query)
    BY DEF IsPrefix
  <2> HIDE DEF found
  <2> QED
    BY <2>1, <2>2
<1>4. args.query = query /\ args.group = "backlog" /\ args.parent = <<>> /\ args.action = "append" /\ args.text = "a"
  OBVIOUS
<1> HIDE DEF args
<1>5. Tool(d, "done", args) = TodoCommand(d, "done", query, "")
  BY <1>4, Zenon DEF Tool, TodoCommand
<1>6. Tool(d, "delete", args) = TodoCommand(d, "delete", query, "")
  BY <1>4, Zenon DEF Tool, TodoCommand
<1>7. Tool(d, "move", args) = TodoCommand(d, "backlog", query, "")
  BY <1>4, Zenon DEF Tool, TodoCommand
<1>8. Tool(d, "plan", args) = TodoCommand(d, "plan", query, "a")
  BY <1>4, Zenon DEF Tool, TodoCommand
<1> QED
  BY <1>1, <1>2, <1>3, <1>5, <1>6, <1>7, <1>8 DEF QueriesAreCertain, args

-----------------------------------------------------------------------------
(* Lists and counts of tasks.                                               *)

(* No two tasks were updated at the same time.                              *)
Dated(d) == /\ IsFiniteSet(DOMAIN d) /\ \A x \in DOMAIN d : d[x].updated \in Nat
            /\ \A x, y \in DOMAIN d : d[x].updated = d[y].updated => x = y

(* A list of some things, each once.                                        *)
Once(s, S) == /\ s \in Seq(S) /\ (\A x \in S : \E k \in 1 .. Len(s) : s[k] = x)
              /\ \A k, l \in 1 .. Len(s) : s[k] = s[l] => k = l

(* Tasks in the order of their last change are listed each once.            *)
LEMMA NewestListsAll ==
  ASSUME NEW d, Dated(d), NEW S, S \subseteq DOMAIN d
  PROVE  Once(Newest(d, S), S) /\ Len(Newest(d, S)) = Cardinality(S)
<1> DEFINE n == Cardinality(S)  newer(x) == {y \in S : d[y].updated > d[x].updated}
           rank(x) == Cardinality(newer(x))  N == Newest(d, S)
           f == [x \in S |-> rank(x) + 1]
<1>1. IsFiniteSet(S) /\ n \in Nat
  BY FS_Subset, FS_CardinalityType DEF Dated
<1>2. (\A x \in S : d[x].updated \in Nat) /\ \A x, y \in S : d[x].updated = d[y].updated => x = y
  BY DEF Dated
<1>3. N = [k \in 1 .. n |-> CHOOSE x \in S : rank(x) = k - 1]
  BY DEF Newest
<1> HIDE DEF n, N
<1>4. ASSUME NEW x \in S PROVE IsFiniteSet(newer(x)) /\ rank(x) \in 0 .. n - 1
  <2>1. newer(x) \subseteq S \ {x}
    BY <1>2
  <2>2. IsFiniteSet(S \ {x}) /\ Cardinality(S \ {x}) = n - 1
    BY <1>1, FS_RemoveElement DEF n
  <2> HIDE DEF newer
  <2>3. IsFiniteSet(newer(x)) /\ rank(x) <= n - 1
    BY <2>1, <2>2, FS_Subset
  <2>4. rank(x) \in Nat
    BY <2>3, FS_CardinalityType
  <2> QED
    BY <1>1, <2>3, <2>4
<1>5. ASSUME NEW x \in S, NEW y \in S, d[x].updated > d[y].updated PROVE rank(x) < rank(y)
  <2>1. newer(x) \cup {x} \subseteq newer(y) /\ x \notin newer(x)
    BY <1>2, <1>5
  <2> HIDE DEF newer
  <2>2. Cardinality(newer(x) \cup {x}) = rank(x) + 1
    BY <1>4, <2>1, FS_AddElement
  <2>3. rank(x) + 1 <= rank(y)
    BY <1>4, <2>1, <2>2, FS_Subset
  <2> QED
    BY <1>4, <2>3
<1> HIDE DEF rank, newer
<1>14. \A x \in S : rank(x) \in Int /\ 0 <= rank(x) /\ rank(x) <= n - 1
  BY <1>1, <1>4
<1>15. \A x, y \in S : d[x].updated > d[y].updated => rank(x) < rank(y)
  BY <1>5
<1>6. \A x, y \in S : rank(x) = rank(y) => x = y
  <2>1. ASSUME NEW x \in S, NEW y \in S, rank(x) = rank(y) PROVE x = y
    <3>1. ~(d[x].updated > d[y].updated) /\ ~(d[y].updated > d[x].updated)
      BY <1>14, <1>15, <2>1
    <3> QED
      BY <1>2, <3>1
  <2> QED
    BY <2>1
<1>7. f \in Injection(S, 1 .. n)
  <2>1. \A x \in S : rank(x) + 1 \in 1 .. n
    BY <1>1, <1>14
  <2>2. f \in [S -> 1 .. n]
    BY <2>1
  <2>3. \A x, y \in S : f[x] = f[y] => x = y
    BY <1>14, <1>6
  <2> HIDE DEF f
  <2> QED
    BY ONLY <2>2, <2>3 DEF Injection, IsInjective
<1>8. f \in Surjection(S, 1 .. n)
  <2>1. IsFiniteSet(1 .. n) /\ Cardinality(1 .. n) = n
    BY <1>1, Stretch
  <2> HIDE DEF f
  <2> QED
    BY <1>7, <2>1, FS_Injection DEF n
<1>9. \A k \in 1 .. n : \E x \in S : rank(x) = k - 1
  <2>1. \A k \in 1 .. n : \E x \in S : f[x] = k
    <3> HIDE DEF f
    <3> QED
      BY ONLY <1>8 DEF Surjection
  <2> QED
    BY <1>14, <2>1
<1>10. \A k \in 1 .. n : N[k] \in S /\ rank(N[k]) = k - 1
  <2>1. \A k \in 1 .. n : (CHOOSE x \in S : rank(x) = k - 1) \in S /\ rank(CHOOSE x \in S : rank(x) = k - 1) = k - 1
    BY <1>9
  <2> QED
    BY <1>3, <2>1
<1>11. N \in Seq(S) /\ Len(N) = n /\ DOMAIN N = 1 .. n
  <2>1. N = [k \in 1 .. n |-> N[k]]
    BY <1>3
  <2> QED
    BY <1>1, <1>10, <2>1, ListOf
<1>12. \A k, l \in 1 .. n : N[k] = N[l] => k = l
  <2>1. ASSUME NEW k \in 1 .. n, NEW l \in 1 .. n, N[k] = N[l] PROVE k = l
    <3>1. k - 1 = l - 1
      BY <1>10, <2>1
    <3> QED
      BY <1>1, <3>1
  <2> QED
    BY <2>1
<1>13. ASSUME NEW x \in S PROVE \E k \in 1 .. n : N[k] = x
  <2>1. rank(x) + 1 \in 1 .. n /\ rank(x) + 1 - 1 = rank(x)
    BY <1>1, <1>14
  <2>2. PICK k \in 1 .. n : k = rank(x) + 1
    BY <2>1
  <2>4. rank(x) \in Int
    BY <1>14
  <2>5. k - 1 = rank(x)
    BY <2>2, <2>4
  <2>6. N[k] \in S /\ rank(N[k]) = rank(x)
    BY <1>10, <2>5
  <2> QED
    BY <1>6, <2>6
<1> QED
  BY <1>11, <1>12, <1>13 DEF Once, N, n

(* Two lists of different things, one after the other.                      *)
LEMMA OnceJoined ==
  ASSUME NEW s, NEW A, Once(s, A), NEW t, NEW B, Once(t, B), A \cap B = {}
  PROVE  Once(s \o t, A \cup B)
<1>1. /\ s \in Seq(A) /\ (\A x \in A : \E k \in 1 .. Len(s) : s[k] = x) /\ \A k, l \in 1 .. Len(s) : s[k] = s[l] => k = l
      /\ t \in Seq(B) /\ (\A x \in B : \E k \in 1 .. Len(t) : t[k] = x) /\ \A k, l \in 1 .. Len(t) : t[k] = t[l] => k = l
  BY DEF Once
<1> DEFINE m == Len(s)  n == Len(t)  u == s \o t
<1>2. m \in Nat /\ n \in Nat
  BY <1>1
<1>3. u \in Seq(A \cup B) /\ Len(u) = m + n /\ (\A k \in 1 .. m : u[k] = s[k]) /\ \A k \in 1 .. n : u[m + k] = t[k]
  <2>1. s \in Seq(A \cup B) /\ t \in Seq(A \cup B)
    BY <1>1
  <2> QED
    BY <1>2, <2>1, ConcatProperties
<1>4. (\A k \in 1 .. m : s[k] \in A) /\ \A k \in 1 .. n : t[k] \in B
  BY <1>1
<1> HIDE DEF u, m, n
<1>5. \A k \in 1 .. m + n : k \in 1 .. m \/ (k - m \in 1 .. n /\ k = m + (k - m))
  BY <1>2
<1>6. \A k \in 1 .. n : m + k \in 1 .. m + n
  BY <1>2
<1>7. \A k \in 1 .. m : k \in 1 .. m + n
  BY <1>2
<1>8. ASSUME NEW x \in A \cup B PROVE \E k \in 1 .. m + n : u[k] = x
  <2>1. CASE x \in A
    BY <1>1, <1>3, <1>7, <2>1 DEF m
  <2>2. CASE x \in B
    <3>1. PICK k \in 1 .. n : t[k] = x
      BY <1>1, <2>2 DEF n
    <3> QED
      BY <1>3, <1>6, <3>1
  <2> QED
    BY <2>1, <2>2
<1>9. ASSUME NEW k \in 1 .. m + n, NEW l \in 1 .. m + n, u[k] = u[l] PROVE k = l
  <2>1. CASE k \in 1 .. m /\ l \in 1 .. m
    BY <1>1, <1>3, <1>9, <2>1 DEF m
  <2>2. CASE k \in 1 .. m /\ l - m \in 1 .. n /\ l = m + (l - m)
    <3>1. u[k] \in A
      BY <1>3, <1>4, <2>2
    <3>2. u[l] \in B
      BY <1>3, <1>4, <2>2
    <3> QED
      BY <1>9, <3>1, <3>2
  <2>3. CASE l \in 1 .. m /\ k - m \in 1 .. n /\ k = m + (k - m)
    <3>1. u[l] \in A
      BY <1>3, <1>4, <2>3
    <3>2. u[k] \in B
      BY <1>3, <1>4, <2>3
    <3> QED
      BY <1>9, <3>1, <3>2
  <2>4. CASE k - m \in 1 .. n /\ k = m + (k - m) /\ l - m \in 1 .. n /\ l = m + (l - m)
    <3>1. t[k - m] = t[l - m]
      BY <1>3, <1>9, <2>4
    <3>2. k - m = l - m
      BY <1>1, <2>4, <3>1 DEF n
    <3> QED
      BY <2>4, <3>2
  <2> QED
    BY <1>5, <2>1, <2>2, <2>3, <2>4
<1> QED
  BY <1>3, <1>8, <1>9 DEF Once, u

(* What is shown below one task is shown below no other and is none of them.*)
Apart(A, C) == /\ \A x, y \in A : x # y => C[x] \cap C[y] = {}
               /\ \A x \in A : A \cap C[x] = {}
Shown(A, C) == A \cup UNION {C[x] : x \in A}

(* Something is a list of these things, all of them.                        *)
Lists(s, S) == s \in Seq(S) /\ \A x \in S : \E k \in 1 .. Len(s) : s[k] = x
LEMMA ListsJoined ==
  ASSUME NEW s, NEW A, Lists(s, A), NEW t, NEW B, Lists(t, B)
  PROVE  /\ Lists(s \o t, A \cup B) /\ Len(s \o t) = Len(s) + Len(t)
         /\ \A k \in 1 .. Len(s) : (s \o t)[k] = s[k]
         /\ \A k \in 1 .. Len(t) : (s \o t)[Len(s) + k] = t[k]
         /\ \A k \in 1 .. Len(s \o t) : k \in 1 .. Len(s) \/ (k - Len(s) \in 1 .. Len(t) /\ k = Len(s) + (k - Len(s)))
<1> DEFINE m == Len(s)  n == Len(t)  u == s \o t
<1>1. /\ s \in Seq(A) /\ (\A x \in A : \E k \in 1 .. m : s[k] = x)
      /\ t \in Seq(B) /\ (\A x \in B : \E k \in 1 .. n : t[k] = x)
  BY DEF Lists
<1>2. m \in Nat /\ n \in Nat
  BY <1>1
<1>3. u \in Seq(A \cup B) /\ Len(u) = m + n /\ (\A k \in 1 .. m : u[k] = s[k]) /\ \A k \in 1 .. n : u[m + k] = t[k]
  <2>1. s \in Seq(A \cup B) /\ t \in Seq(A \cup B)
    BY <1>1
  <2> QED
    BY <1>2, <2>1, ConcatProperties
<1> HIDE DEF u, m, n
<1>4. \A k \in 1 .. m + n : k \in 1 .. m \/ (k - m \in 1 .. n /\ k = m + (k - m))
  BY <1>2
<1>5. (\A k \in 1 .. n : m + k \in 1 .. m + n) /\ \A k \in 1 .. m : k \in 1 .. m + n
  BY <1>2
<1>6. ASSUME NEW x \in A \cup B PROVE \E k \in 1 .. m + n : u[k] = x
  <2>1. CASE x \in A
    BY <1>1, <1>3, <1>5, <2>1
  <2>2. CASE x \in B
    <3>1. PICK k \in 1 .. n : t[k] = x
      BY <1>1, <2>2
    <3> QED
      BY <1>3, <1>5, <3>1
  <2> QED
    BY <2>1, <2>2
<1>7. Lists(u, A \cup B)
  BY <1>3, <1>6 DEF Lists
<1> QED
  BY <1>3, <1>4, <1>7 DEF u, m, n

(* Tasks are unfolded one after the other.                                  *)
Unfolds(F, tasks, below) ==
  /\ Unfolded(tasks, below) = F[Len(tasks)] /\ F[0] = <<>>
  /\ \A k \in 1 .. Len(tasks) : F[k] = F[k - 1] \o <<tasks[k]>> \o below[tasks[k]]
LEMMA UnfoldedByStep ==
  ASSUME NEW tasks, NEW A, tasks \in Seq(A), NEW T, A \subseteq T, NEW below, \A x \in A : below[x] \in Seq(T)
  PROVE  \E F : Unfolds(F, tasks, below)
<1> DEFINE n == Len(tasks)  S == Seq(T)
           Rule(f) == f = [k \in 0 .. n |-> IF k = 0 THEN <<>> ELSE f[k - 1] \o <<tasks[k]>> \o below[tasks[k]]]
           g == [k \in 1 .. n |-> [q \in S |-> q \o <<tasks[k]>> \o below[tasks[k]]]]
           F == CHOOSE f : Rule(f)
<1>1. n \in Nat /\ \A k \in 1 .. n : tasks[k] \in A
  OBVIOUS
<1>2. Unfolded(tasks, below) = F[n]
  BY DEF Unfolded
<1> HIDE DEF n
<1>4. \A x \in A : <<x>> \in S /\ below[x] \in S
  OBVIOUS
<1>5. <<>> \in S /\ \A q \in S, r \in S : q \o r \in S
  BY ConcatProperties, EmptySeq
<1> HIDE DEF S
<1>6. g \in Steps(n, S) /\ \A k \in 1 .. n : \A q \in S : g[k][q] = q \o <<tasks[k]>> \o below[tasks[k]]
  <2>1. \A k \in 1 .. n : \A q \in S : q \o <<tasks[k]>> \o below[tasks[k]] \in S
    BY <1>1, <1>4, <1>5
  <2> QED
    BY <2>1 DEF Steps
<1> HIDE DEF g
<1>7. PICK f : Walks(f, n, S, <<>>, g)
  BY <1>1, <1>5, <1>6, StepByStep
<1>8. f \in [0 .. n -> S] /\ f[0] = <<>> /\ \A k \in 1 .. n : f[k] = g[k][f[k - 1]]
  BY <1>7 DEF Walks
<1>9. \A k \in 1 .. n : k - 1 \in 0 .. n /\ k \in 0 .. n /\ k # 0
  BY <1>1
<1>10. Rule(f)
  <2>1. \A k \in 0 .. n : k # 0 => k \in 1 .. n
    OBVIOUS
  <2>2. \A k \in 1 .. n : f[k] = f[k - 1] \o <<tasks[k]>> \o below[tasks[k]]
    BY <1>6, <1>8, <1>9
  <2>3. \A k \in 0 .. n : f[k] = IF k = 0 THEN <<>> ELSE f[k - 1] \o <<tasks[k]>> \o below[tasks[k]]
    BY <1>8, <2>1, <2>2
  <2> QED
    BY <2>3, <1>8
<1> HIDE DEF Rule
<1>11. Rule(F)
  BY <1>10
<1> HIDE DEF F
<1>12. F[0] = <<>> /\ \A k \in 1 .. n : F[k] = F[k - 1] \o <<tasks[k]>> \o below[tasks[k]]
  <2>1. F = [k \in 0 .. n |-> IF k = 0 THEN <<>> ELSE F[k - 1] \o <<tasks[k]>> \o below[tasks[k]]]
    BY <1>11 DEF Rule
  <2>2. 0 \in 0 .. n
    BY <1>1
  <2> QED
    BY <2>1, <2>2, <1>9
<1> QED
  BY <1>2, <1>12 DEF n, Unfolds

(* What comes up to one task, with what is below it.                        *)
LEMMA ShownUpTo ==
  ASSUME NEW tasks, NEW C, NEW k \in Nat \ {0}
  PROVE  Shown({tasks[j] : j \in 1 .. k}, C) = Shown({tasks[j] : j \in 1 .. k - 1}, C) \cup {tasks[k]} \cup C[tasks[k]]
<1> DEFINE D == Shown({tasks[j] : j \in 1 .. k - 1}, C)  E == Shown({tasks[j] : j \in 1 .. k}, C)
<1>1. \A y : y \in D <=> (\E j \in 1 .. k - 1 : y = tasks[j]) \/ (\E j \in 1 .. k - 1 : y \in C[tasks[j]])
  BY DEF Shown
<1>2. \A y : y \in E <=> (\E j \in 1 .. k : y = tasks[j]) \/ (\E j \in 1 .. k : y \in C[tasks[j]])
  BY DEF Shown
<1>3. \A j : j \in 1 .. k <=> j \in 1 .. k - 1 \/ j = k
  OBVIOUS
<1> HIDE DEF D, E
<1>4. \A y : y \in E <=> y \in D \/ y = tasks[k] \/ y \in C[tasks[k]]
  BY <1>1, <1>2, <1>3
<1> QED
  BY <1>4 DEF D, E

LEMMA OneTask ==
  ASSUME NEW x
  PROVE  Once(<<x>>, {x}) /\ Lists(<<x>>, {x}) /\ Len(<<x>>) = 1 /\ <<x>>[1] = x
<1>1. <<x>> \in Seq({x}) /\ Len(<<x>>) = 1 /\ <<x>>[1] = x
  OBVIOUS
<1>2. \A l \in 1 .. Len(<<x>>) : l = 1
  BY <1>1
<1> QED
  BY <1>1, <1>2 DEF Once, Lists

(* Tasks that are shown each with what is below it are shown once.          *)
LEMMA UnfoldedOnce ==
  ASSUME NEW tasks, NEW A, Once(tasks, A), NEW below, NEW C, \A x \in A : Once(below[x], C[x]), Apart(A, C)
  PROVE  Once(Unfolded(tasks, below), Shown(A, C))
<1> DEFINE n == Len(tasks)  T == Shown(A, C)
           B(k) == {tasks[j] : j \in 1 .. k}  Done(k) == Shown(B(k), C)
<1>1. /\ n \in Nat /\ tasks \in Seq(A) /\ (\A k \in 1 .. n : tasks[k] \in A)
      /\ (\A x \in A : \E k \in 1 .. n : tasks[k] = x) /\ \A k, l \in 1 .. n : tasks[k] = tasks[l] => k = l
  BY DEF Once
<1>2. A \subseteq T /\ \A x \in A : below[x] \in Seq(T)
  <2>1. \A x \in A : C[x] \subseteq T /\ below[x] \in Seq(C[x])
    BY DEF Shown, Once
  <2>2. A \subseteq T
    BY DEF Shown
  <2> HIDE DEF T
  <2> QED
    BY <2>1, <2>2
<1> HIDE DEF T
<1>3. \E F : Unfolds(F, tasks, below)
  BY <1>1, <1>2, UnfoldedByStep
<1>12. PICK F : /\ Unfolded(tasks, below) = F[n] /\ F[0] = <<>>
                /\ \A k \in 1 .. n : F[k] = F[k - 1] \o <<tasks[k]>> \o below[tasks[k]]
  BY ONLY <1>3 DEF Unfolds
<1> HIDE DEF n
<1>9. \A k \in 1 .. n : k - 1 \in 0 .. n /\ k \in 0 .. n /\ k \in Nat \ {0}
  BY <1>1
<1> DEFINE Good == {k \in 0 .. n : Once(F[k], Done(k))}
<1>13. 0 \in Good
  <2>1. Done(0) = {} /\ 0 \in 0 .. n
    BY <1>1 DEF Shown
  <2>2. Once(<<>>, {})
    BY EmptySeq DEF Once
  <2> QED
    BY <1>12, <2>1, <2>2
<1>14. ASSUME NEW k \in 1 .. n, k - 1 \in Good PROVE k \in Good
  <2> DEFINE D == Done(k - 1)  x == tasks[k]  q == F[k - 1]  r == below[x]
  <2>1. Once(q, D) /\ x \in A /\ Once(r, C[x]) /\ k \in 0 .. n
    BY <1>1, <1>9, <1>14
  <2>2. Once(<<x>>, {x})
    BY OneTask
  <2>3. /\ \A y \in D : (\E j \in 1 .. k - 1 : y = tasks[j]) \/ (\E j \in 1 .. k - 1 : y \in C[tasks[j]])
        /\ Done(k) = D \cup {x} \cup C[x]
    <3>1. \A y : y \in D <=> (\E j \in 1 .. k - 1 : y = tasks[j]) \/ (\E j \in 1 .. k - 1 : y \in C[tasks[j]])
      BY DEF Shown
    <3>2. Done(k) = D \cup {x} \cup C[x]
      BY <1>9, ShownUpTo
    <3> QED
      BY <3>1, <3>2
  <2>4. \A j \in 1 .. k - 1 : j \in 1 .. n /\ tasks[j] \in A /\ tasks[j] # x
    BY <1>1
  <2> HIDE DEF D, Done
  <2>5. D \cap {x} = {} /\ (D \cup {x}) \cap C[x] = {}
    <3>1. \A y \in D : y # x
      BY <2>1, <2>3, <2>4 DEF Apart
    <3>2. \A y \in D : y \notin C[x]
      BY <2>1, <2>3, <2>4 DEF Apart
    <3>3. x \notin C[x]
      BY <2>1 DEF Apart
    <3> QED
      BY <3>1, <3>2, <3>3
  <2> HIDE DEF x, q, r
  <2>6. Once(q \o <<x>>, D \cup {x})
    BY <2>1, <2>2, <2>5, OnceJoined
  <2>7. Once(q \o <<x>> \o r, D \cup {x} \cup C[x])
    BY <2>1, <2>5, <2>6, OnceJoined
  <2>8. F[k] = q \o <<x>> \o r
    BY <1>12 DEF q, x, r
  <2> QED
    BY <2>1, <2>3, <2>7, <2>8
<1> HIDE DEF Good
<1>15. n \in Good
  <2>1. \A k \in 1 .. n : k - 1 \in Good => k \in Good
    BY <1>14
  <2>2. n \in 0 .. n
    BY <1>1
  <2> QED
    BY <1>1, <1>13, <2>1, <2>2, Climb
<1>16. B(n) = A
  BY <1>1
<1> HIDE DEF B
<1> QED
  BY <1>12, <1>15, <1>16 DEF Good

(* Whatever is below a task comes after it.                                 *)
Led(s, A, C) == \A k \in 1 .. Len(s) : s[k] \in A \/ \E i \in 1 .. k - 1 : s[i] \in A /\ s[k] \in C[s[i]]

(* Tasks that are shown each with what is below it are all shown, whatever  *)
(* may be below two of them.                                                *)
LEMMA UnfoldedLists ==
  ASSUME NEW tasks, NEW A, Lists(tasks, A), NEW below, NEW C, \A x \in A : Lists(below[x], C[x])
  PROVE  Lists(Unfolded(tasks, below), Shown(A, C)) /\ Led(Unfolded(tasks, below), A, C)
<1> DEFINE n == Len(tasks)  T == Shown(A, C)
           B(k) == {tasks[j] : j \in 1 .. k}  Done(k) == Shown(B(k), C)
<1>1. /\ n \in Nat /\ tasks \in Seq(A) /\ (\A k \in 1 .. n : tasks[k] \in A)
      /\ (\A x \in A : \E k \in 1 .. n : tasks[k] = x)
  BY DEF Lists
<1>2. A \subseteq T /\ \A x \in A : below[x] \in Seq(T)
  <2>1. \A x \in A : C[x] \subseteq T /\ below[x] \in Seq(C[x])
    BY DEF Shown, Lists
  <2>2. A \subseteq T
    BY DEF Shown
  <2> HIDE DEF T
  <2> QED
    BY <2>1, <2>2
<1> HIDE DEF T
<1>3. \E F : Unfolds(F, tasks, below)
  BY <1>1, <1>2, UnfoldedByStep
<1>12. PICK F : /\ Unfolded(tasks, below) = F[n] /\ F[0] = <<>>
                /\ \A k \in 1 .. n : F[k] = F[k - 1] \o <<tasks[k]>> \o below[tasks[k]]
  BY ONLY <1>3 DEF Unfolds
<1> HIDE DEF n
<1>9. \A k \in 1 .. n : k - 1 \in 0 .. n /\ k \in 0 .. n /\ k \in Nat \ {0}
  BY <1>1
<1> DEFINE Good == {k \in 0 .. n : Lists(F[k], Done(k)) /\ Led(F[k], A, C)}
<1>13. 0 \in Good
  <2>1. Done(0) = {} /\ 0 \in 0 .. n
    BY <1>1 DEF Shown
  <2>2. Lists(<<>>, {}) /\ Led(<<>>, A, C)
    BY EmptySeq DEF Lists, Led
  <2> QED
    BY <1>12, <2>1, <2>2
<1>14. ASSUME NEW k \in 1 .. n, k - 1 \in Good PROVE k \in Good
  <2> DEFINE D == Done(k - 1)  x == tasks[k]  q == F[k - 1]  r == below[x]  u == q \o <<x>>  v == u \o r
  <2>1. Lists(q, D) /\ Led(q, A, C) /\ x \in A /\ Lists(r, C[x]) /\ k \in 0 .. n
    BY <1>1, <1>9, <1>14
  <2>2. Lists(<<x>>, {x}) /\ Len(<<x>>) = 1 /\ <<x>>[1] = x
    BY OneTask
  <2>3. Done(k) = D \cup {x} \cup C[x]
    BY <1>9, ShownUpTo
  <2> HIDE DEF D, Done, x, q, r
  <2>4. /\ Lists(u, D \cup {x}) /\ Len(u) = Len(q) + 1 /\ \A j \in 1 .. Len(q) : u[j] = q[j]
        /\ \A j \in 1 .. 1 : u[Len(q) + j] = <<x>>[j]
    BY <2>1, <2>2, ListsJoined
  <2> HIDE DEF u
  <2>5. /\ Lists(v, D \cup {x} \cup C[x]) /\ Len(v) = Len(u) + Len(r) /\ \A j \in 1 .. Len(u) : v[j] = u[j]
        /\ \A j \in 1 .. Len(r) : v[Len(u) + j] = r[j]
        /\ \A j \in 1 .. Len(v) : j \in 1 .. Len(u) \/ (j - Len(u) \in 1 .. Len(r) /\ j = Len(u) + (j - Len(u)))
    BY <2>1, <2>4, ListsJoined
  <2> HIDE DEF v
  <2> DEFINE m == Len(q)  l == Len(r)
  <2>6. m \in Nat /\ l \in Nat /\ \A j \in 1 .. l : r[j] \in C[x]
    <3>1. q \in Seq(D) /\ r \in Seq(C[x])
      BY <2>1 DEF Lists
    <3> QED
      BY ONLY <3>1
  <2>7. u[m + 1] = x
    BY <2>2, <2>4
  <2>8. /\ Len(u) = m + 1 /\ (\A j \in 1 .. m : u[j] = q[j]) /\ (\A j \in 1 .. m + 1 : v[j] = u[j])
        /\ (\A j \in 1 .. l : v[m + 1 + j] = r[j])
        /\ \A j \in 1 .. Len(v) : j \in 1 .. m + 1 \/ (j - (m + 1) \in 1 .. l /\ j = m + 1 + (j - (m + 1)))
    BY <2>4, <2>5
  <2>9. \A j \in 1 .. m : q[j] \in A \/ \E i \in 1 .. j - 1 : q[i] \in A /\ q[j] \in C[q[i]]
    BY <2>1 DEF Led
  <2> HIDE DEF m, l
  <2>10. ASSUME NEW j \in 1 .. Len(v) PROVE v[j] \in A \/ \E i \in 1 .. j - 1 : v[i] \in A /\ v[j] \in C[v[i]]
    <3>1. CASE j \in 1 .. m
      <4>1. v[j] = q[j] /\ \A i \in 1 .. j - 1 : v[i] = q[i]
        BY <2>6, <2>8, <3>1
      <4> QED
        BY <2>9, <3>1, <4>1
    <3>2. CASE j = m + 1
      BY <2>1, <2>6, <2>7, <2>8, <3>2
    <3>3. CASE j - (m + 1) \in 1 .. l /\ j = m + 1 + (j - (m + 1))
      <4>1. v[j] \in C[x]
        BY <2>6, <2>8, <3>3
      <4>2. m + 1 \in 1 .. j - 1 /\ v[m + 1] = x
        BY <2>6, <2>7, <2>8, <3>3
      <4> QED
        BY <2>1, <4>1, <4>2
    <3> QED
      BY <2>6, <2>8, <3>1, <3>2, <3>3
  <2>11. F[k] = v
    BY <1>12 DEF q, x, r, u, v
  <2>12. Led(v, A, C)
    BY <2>10 DEF Led
  <2> QED
    BY <2>1, <2>3, <2>5, <2>11, <2>12
<1> HIDE DEF Good
<1>15. n \in Good
  <2>1. \A k \in 1 .. n : k - 1 \in Good => k \in Good
    BY <1>14
  <2>2. n \in 0 .. n
    BY <1>1
  <2> QED
    BY <1>1, <1>13, <2>1, <2>2, Climb
<1>16. B(n) = A
  BY <1>1
<1> HIDE DEF B
<1> QED
  BY <1>12, <1>15, <1>16 DEF Good

(* A list of something is not empty.                                        *)
LEMMA NothingIsLeft ==
  ASSUME NEW s, NEW S, Once(s, S), S # {}
  PROVE  s # <<>>
<1>1. \E k \in 1 .. Len(s) : TRUE
  BY DEF Once
<1>2. ASSUME s = <<>> PROVE FALSE
  <2>1. Len(<<>>) = 0
    OBVIOUS
  <2>2. Len(s) = 0
    BY ONLY <1>2, <2>1, Zenon
  <2>3. \E k \in 1 .. 0 : TRUE
    BY ONLY <1>1, <2>2
  <2> QED
    BY ONLY <2>3
<1> QED
  BY <1>2

(* What follows the counts.                                                 *)
LEMMA AfterTheCounts ==
  ASSUME NEW e, NEW S, NEW u, Lists(u, S)
  PROVE  /\ Len(u) \in Nat /\ Tail(<<e>> \o u) = u /\ <<e>> \o u # <<>> /\ Len(<<e>> \o u) = 1 + Len(u)
         /\ Range(Tail(<<e>> \o u)) = S /\ <<e>> \o u \in Seq({e} \cup S)
         /\ \A i \in 1 .. Len(u) : i + 1 \in 1 .. 1 + Len(u) /\ (<<e>> \o u)[i + 1] = u[i]
<1> DEFINE n == Len(u)  T == {e} \cup S  v == <<e>> \o u
<1>1. n \in Nat /\ u \in Seq(S) /\ \A x \in S : \E k \in 1 .. n : u[k] = x
  BY DEF Lists
<1>2. u \in Seq(T) /\ <<e>> \in Seq(T) /\ Len(<<e>>) = 1
  BY <1>1
<1>3. DOMAIN u = 1 .. n /\ \A k \in 1 .. n : u[k] \in S
  BY <1>1
<1> HIDE DEF T
<1>4. v \in Seq(T) /\ Len(v) = 1 + n /\ \A i \in 1 .. 1 + n : v[i] = IF i <= 1 THEN <<e>>[i] ELSE u[i - 1]
  BY <1>2, ConcatProperties
<1> HIDE DEF n, v
<1>5. \A i \in 1 .. n : i + 1 \in 1 .. 1 + n /\ v[i + 1] = u[i]
  <2>1. \A i \in 1 .. n : i + 1 \in 1 .. 1 + n /\ ~(i + 1 <= 1) /\ i + 1 - 1 = i
    BY <1>1
  <2> QED
    BY <1>4, <2>1
<1>6. v # <<>>
  BY <1>1, <1>4
<1>7. Tail(v) \in Seq(T) /\ Len(Tail(v)) = n /\ \A i \in 1 .. n : Tail(v)[i] = v[i + 1]
  <2>1. Tail(v) \in Seq(T) /\ Len(Tail(v)) = Len(v) - 1 /\ \A i \in 1 .. Len(Tail(v)) : Tail(v)[i] = v[i + 1]
    BY <1>4, <1>6, HeadTailProperties
  <2>2. Len(v) - 1 = n
    BY <1>1, <1>4
  <2> QED
    BY <2>1, <2>2
<1>8. Tail(v) = u
  <2>1. \A i \in 1 .. Len(Tail(v)) : Tail(v)[i] = u[i]
    BY <1>5, <1>7
  <2>2. Len(Tail(v)) = Len(u)
    BY <1>7 DEF n
  <2> QED
    BY <1>2, <1>7, <2>1, <2>2, SeqEqual
<1>9. Range(u) = S
  BY <1>1, <1>3 DEF Range
<1> QED
  BY <1>1, <1>4, <1>5, <1>6, <1>8, <1>9 DEF v, n, T

(* What is left of a section that is cut off is its beginning.              *)
CutOff(s, room) == IF Len(s) <= room THEN s ELSE Append(SubSeq(s, 1, room), Cut)
LinesOf(shown) == {k \in 2 .. Len(shown) : shown[k] # Cut}
BeginsLike(shown, u, room, n) ==
  /\ LinesOf(shown) = 2 .. n + 1
  /\ \A k \in 2 .. n + 1 : k - 1 \in 1 .. n /\ shown[k] = u[k - 1]
  /\ Len(shown) <= room => n = Len(u)
LEMMA TheBeginningIsLeft ==
  ASSUME NEW e, NEW S, NEW u, Lists(u, S), Cut \notin S, NEW room \in Nat \ {0}
  PROVE  \E n \in 0 .. Len(u) : BeginsLike(CutOff(<<e>> \o u, room), u, room, n)
<1> DEFINE s == <<e>> \o u  T == {e} \cup S  m == Len(u)
<1>1. /\ m \in Nat /\ s \in Seq(T) /\ Len(s) = 1 + m /\ (\A i \in 1 .. m : i + 1 \in 1 .. 1 + m /\ s[i + 1] = u[i])
      /\ \A i \in 1 .. m : u[i] \in S
  <2>1. u \in Seq(S)
    BY DEF Lists
  <2>2. /\ m \in Nat /\ s \in Seq(T) /\ Len(s) = 1 + m
        /\ (\A i \in 1 .. m : i + 1 \in 1 .. 1 + m /\ s[i + 1] = u[i])
    BY AfterTheCounts
  <2> HIDE DEF s, T
  <2> QED
    BY <2>1, <2>2
<1> HIDE DEF s, T, m
<1>2. \A k \in 2 .. m + 1 : k - 1 \in 1 .. m /\ s[k] = u[k - 1] /\ s[k] # Cut
  <2>1. \A k \in 2 .. m + 1 : k - 1 \in 1 .. m /\ (k - 1) + 1 = k
    BY <1>1
  <2> QED
    BY <1>1, <2>1
<1>3. CASE 1 + m <= room
  <2>1. CutOff(s, room) = s
    BY <1>1, <1>3 DEF CutOff
  <2>2. LinesOf(s) = 2 .. m + 1
    BY <1>1, <1>2 DEF LinesOf
  <2>3. m \in 0 .. m
    BY <1>1
  <2> QED
    BY <1>2, <2>1, <2>2, <2>3 DEF BeginsLike, s, m
<1>4. CASE ~(1 + m <= room)
  <2> DEFINE t == SubSeq(s, 1, room)  c == Append(t, Cut)  n == room - 1
  <2>1. CutOff(s, room) = c
    BY <1>1, <1>4 DEF CutOff
  <2>2. n \in 0 .. m /\ n + 1 = room /\ room \in 1 .. Len(s) /\ room <= m
    BY <1>1, <1>4
  <2>3. t \in Seq(T) /\ Len(t) = room /\ \A k \in 1 .. room : t[k] = s[k]
    <3>1. room \in Int /\ 1 \in Int /\ \A k \in 1 .. room : k \in 1 .. Len(s) /\ 1 + k - 1 = k
      BY <1>1, <2>2
    <3>2. 1 <= room /\ room <= Len(s)
      BY <2>2
    <3> QED
      BY <1>1, <3>1, <3>2
  <2>4. Len(c) = room + 1 /\ c[room + 1] = Cut /\ \A k \in 1 .. room : c[k] = s[k]
    <3>1. t \in Seq(T \cup {Cut})
      BY <2>3
    <3> HIDE DEF t
    <3> QED
      BY <2>2, <2>3, <3>1
  <2> HIDE DEF c, t, n
  <2>5. \A k \in 2 .. room : c[k] = u[k - 1] /\ c[k] # Cut /\ k - 1 \in 1 .. n
    <3>1. \A k \in 2 .. room : k \in 2 .. m + 1 /\ k \in 1 .. room /\ k - 1 \in 1 .. n
      BY <1>1, <2>2
    <3> QED
      BY <1>2, <2>4, <3>1
  <2>6. LinesOf(c) = 2 .. n + 1
    <3>1. \A k : k \in 2 .. room + 1 <=> k \in 2 .. room \/ k = room + 1
      BY <2>2
    <3> QED
      BY <2>2, <2>4, <2>5, <3>1 DEF LinesOf
  <2>7. ~(Len(c) <= room)
    BY <2>4
  <2> QED
    BY <2>1, <2>2, <2>5, <2>6, <2>7 DEF BeginsLike, s, m
<1> QED
  BY <1>3, <1>4

(* Lists show the tasks they are asked for, each once.                      *)
TasksListed(d, status, group, parent) ==
  {x \in DOMAIN d : /\ status # "" => d[x].status = status
                    /\ group # "" => d[x].group = group
                    /\ d[x].parent = IF parent = RootsOnly THEN <<>> ELSE parent}
LEMMA ListsShowThem ==
  ASSUME NEW d, Dated(d), NEW status, NEW group, NEW parent
  PROVE  Once(TaskList(d, status, group, parent), TasksListed(d, status, group, parent))
<1> DEFINE S == TasksListed(d, status, group, parent)
           A == {x \in S : d[x].status = "active"}  B == {x \in S : d[x].status # "active"}
<1>1. S \subseteq DOMAIN d
  BY DEF TasksListed
<1>2. TaskList(d, status, group, parent) = Newest(d, A) \o Newest(d, B)
  BY DEF TaskList, TasksListed
<1> HIDE DEF S
<1>3. A \subseteq DOMAIN d /\ B \subseteq DOMAIN d /\ A \cap B = {} /\ A \cup B = S
  BY <1>1
<1> HIDE DEF A, B
<1>4. Once(Newest(d, A), A) /\ Once(Newest(d, B), B)
  BY <1>3, NewestListsAll
<1>5. Once(Newest(d, A) \o Newest(d, B), A \cup B)
  BY <1>3, <1>4, OnceJoined
<1> QED
  BY <1>2, <1>3, <1>5 DEF S

(* The counts part the tasks.                                               *)
LEMMA CountsPart ==
  ASSUME NEW d, IsFiniteSet(DOMAIN d)
  PROVE  Stats(d).done + Stats(d).backlog + Stats(d).active = Cardinality(DOMAIN d)
<1> DEFINE D == DOMAIN d  done == {x \in D : d[x].status = "done"}
           backlog == {x \in D \ done : d[x].group = "backlog"}  active == D \ (done \cup backlog)
<1>1. Stats(d) = [done |-> Cardinality(done), backlog |-> Cardinality(backlog), active |-> Cardinality(active)]
  BY DEF Stats
<1>2. /\ done \subseteq D /\ backlog \subseteq D /\ active \subseteq D /\ done \cap backlog = {}
      /\ (done \cup backlog) \cap active = {} /\ done \cup backlog \cup active = D
  OBVIOUS
<1> HIDE DEF D, done, backlog, active
<1>3. IsFiniteSet(done) /\ IsFiniteSet(backlog) /\ IsFiniteSet(active)
  BY <1>2, FS_Subset DEF D
<1>4. Cardinality(done) \in Nat /\ Cardinality(backlog) \in Nat /\ Cardinality(active) \in Nat
  BY <1>3, FS_CardinalityType
<1>5. Cardinality({}) = 0
  BY FS_EmptySet
<1> DEFINE p == Cardinality(done)  q == Cardinality(backlog)  r == Cardinality(active)
           both == done \cup backlog
<1>8. \A m, n \in Nat : m + n - 0 = m + n
  OBVIOUS
<1>6. IsFiniteSet(both) /\ Cardinality(both) = p + q
  <2>1. IsFiniteSet(both) /\ Cardinality(both) = p + q - Cardinality(done \cap backlog)
    BY <1>3, FS_Union
  <2>2. Cardinality(done \cap backlog) = 0
    BY <1>2, <1>5
  <2> HIDE DEF p, q, both
  <2> QED
    BY <1>4, <1>8, <2>1, <2>2 DEF p, q
<1>7. Cardinality(D) = Cardinality(done \cup backlog) + Cardinality(active)
  <2>1. Cardinality(both \cup active) = Cardinality(both) + r - Cardinality(both \cap active)
    BY <1>3, <1>6, FS_Union
  <2>2. both \cup active = D /\ Cardinality(both \cap active) = 0
    BY <1>2, <1>5
  <2>3. Cardinality(both) \in Nat /\ r \in Nat
    BY <1>4, <1>6
  <2> HIDE DEF r, both
  <2>4. Cardinality(D) = Cardinality(both) + r - 0
    BY <2>1, <2>2
  <2> QED
    BY <1>8, <2>3, <2>4 DEF r, both
<1> QED
  BY <1>1, <1>6, <1>7 DEF D

(* The counts part the tasks; the prompt section shows nothing but the      *)
(* active todo tasks at the root and their active children, each child      *)
(* after its parent, all of them if it is not cut off, and each once if no  *)
(* id is empty; /todo shows all of them and nothing else than what is below *)
(* one or waits in the backlog: for every finite set of tasks no two of     *)
(* which changed at the same time, wherever the section is cut off          *)
(* (tasklist/store.go:146-196, prompt.go:11-44, command.go:28-67).          *)
THEOREM SummariesTellTheTasks ==
  ASSUME NEW d, Dated(d), Cut \notin DOMAIN d, NEW room \in Nat \ {0}
  PROVE  SummariesAgree(d, room)
<1> DEFINE section == Section(d)  shown == Prompt(d, room)  overview == Overview(d)  e == Stats(d)
           todo == {x \in DOMAIN d : d[x].status = "active" /\ d[x].group = "todo" /\ d[x].parent = <<>>}
           below == {x \in DOMAIN d : d[x].status = "active" /\ d[x].parent \in todo}
           AC(x) == {c \in DOMAIN d : d[c].parent = x /\ d[c].status = "active"}
           Active == [x \in DOMAIN d |-> Newest(d, AC(x))]  C == [x \in DOMAIN d |-> AC(x)]
           AllC(x) == {c \in DOMAIN d : d[c].parent = x}
           Children == [x \in DOMAIN d |-> ChildrenOf(d, x)]  All == [x \in DOMAIN d |-> AllC(x)]
           backlog == TasksListed(d, "active", "backlog", RootsOnly)
<1>1. todo \subseteq DOMAIN d
  OBVIOUS
<1>2. Once(ActiveTasks(d), todo)
  BY <1>1, NewestListsAll DEF ActiveTasks
<1>3. \A x \in todo : Once(Active[x], C[x]) /\ Once(Children[x], All[x])
  <2>1. ASSUME NEW x \in todo PROVE Once(Active[x], C[x]) /\ Once(Children[x], All[x])
    <3>1. Active[x] = Newest(d, AC(x)) /\ C[x] = AC(x) /\ Children[x] = Newest(d, AllC(x)) /\ All[x] = AllC(x)
      BY <1>1 DEF ChildrenOf
    <3>2. AC(x) \subseteq DOMAIN d /\ AllC(x) \subseteq DOMAIN d
      OBVIOUS
    <3> HIDE DEF Active, C, Children, All, AC, AllC
    <3>3. Once(Newest(d, AC(x)), AC(x)) /\ Once(Newest(d, AllC(x)), AllC(x))
      BY <3>2, NewestListsAll
    <3> QED
      BY <3>1, <3>3
  <2> QED
    BY <2>1
<1>4. /\ \A x \in todo : \A c : c \in C[x] <=> c \in DOMAIN d /\ d[c].parent = x /\ d[c].status = "active"
      /\ \A x \in todo : \A c : c \in All[x] <=> c \in DOMAIN d /\ d[c].parent = x
  BY <1>1
<1>5. \A x \in todo : d[x].parent = <<>> /\ d[x].status = "active" /\ d[x].group = "todo"
  BY <1>1
<1>6. \A x : x \in below <=> x \in DOMAIN d /\ d[x].status = "active" /\ d[x].parent \in todo
  OBVIOUS
<1>7. \A x : x \in todo <=> x \in DOMAIN d /\ d[x].status = "active" /\ d[x].group = "todo" /\ d[x].parent = <<>>
  OBVIOUS
<1>9. Section(d) = IF ActiveTasks(d) = <<>> /\ e.backlog = 0 /\ e.done = 0 THEN <<>> ELSE <<e>> \o Unfolded(ActiveTasks(d), Active)
  BY DEF Section
<1>10. Overview(d) = IF TaskList(d, "active", "", <<>>) = <<>> THEN <<"no active tasks">>
                     ELSE <<e>> \o Unfolded(TaskList(d, "active", "todo", RootsOnly), Children) \o TaskList(d, "active", "backlog", RootsOnly)
  BY DEF Overview
<1> HIDE DEF Active, C, Children, All, below, e
<1>8. <<>> \notin DOMAIN d => Apart(todo, C)
  BY <1>4, <1>5, <1>7 DEF Apart
<1>11. Shown(todo, C) = todo \cup below
  <2>1. \A y : y \in Shown(todo, C) <=> y \in todo \/ \E x \in todo : y \in C[x]
    BY DEF Shown
  <2> HIDE DEF todo
  <2>2. \A y : y \in Shown(todo, C) <=> y \in todo \/ y \in below
    BY <1>4, <1>6, <2>1
  <2> QED
    BY <2>2
<1>12. \A y : y \in Shown(todo, All) <=> y \in todo \/ (y \in DOMAIN d /\ d[y].parent \in todo)
  <2>1. \A y : y \in Shown(todo, All) <=> y \in todo \/ \E x \in todo : y \in All[x]
    BY DEF Shown
  <2> HIDE DEF todo
  <2> QED
    BY <1>4, <2>1
<1>13. /\ TasksListed(d, "active", "todo", RootsOnly) = todo
       /\ \A x : x \in TasksListed(d, "active", "", <<>>) <=> x \in DOMAIN d /\ d[x].status = "active" /\ d[x].parent = <<>>
       /\ \A x : x \in backlog <=> x \in DOMAIN d /\ d[x].status = "active" /\ d[x].group = "backlog" /\ d[x].parent = <<>>
  <2>1. "active" # "" /\ "todo" # "" /\ "backlog" # "" /\ "todo" # "backlog"
    OBVIOUS
  <2> QED
    BY <2>1 DEF TasksListed
<1> HIDE DEF todo, backlog
<1>14. /\ Once(TaskList(d, "active", "todo", RootsOnly), todo)
       /\ Once(TaskList(d, "active", "", <<>>), TasksListed(d, "active", "", <<>>))
       /\ Once(TaskList(d, "active", "backlog", RootsOnly), backlog)
  BY <1>13, ListsShowThem DEF backlog
<1>24. /\ Lists(ActiveTasks(d), todo) /\ Lists(TaskList(d, "active", "todo", RootsOnly), todo)
       /\ Lists(TaskList(d, "active", "backlog", RootsOnly), backlog)
       /\ \A x \in todo : Lists(Active[x], C[x]) /\ Lists(Children[x], All[x])
  BY <1>2, <1>3, <1>14 DEF Once, Lists
<1> DEFINE u == Unfolded(ActiveTasks(d), Active)  S == todo \cup below
<1>15. /\ Lists(u, S) /\ Led(u, todo, C)
       /\ <<>> \notin DOMAIN d => Once(u, S)
  <2>1. Lists(u, Shown(todo, C)) /\ Led(u, todo, C)
    BY <1>24, UnfoldedLists
  <2>2. <<>> \notin DOMAIN d => Once(u, Shown(todo, C))
    BY <1>2, <1>3, <1>8, UnfoldedOnce
  <2> QED
    BY <1>11, <2>1, <2>2
<1>20. todo # {} => ActiveTasks(d) # <<>>
  BY <1>2, NothingIsLeft
<1>21. section = <<>> \/ section = <<e>> \o u
  BY <1>9
<1>22. shown = CutOff(section, room)
  BY DEF Prompt, CutOff
<1> HIDE DEF u, section, shown
<1>23. shown = <<>> => todo = {}
  <2>1. ASSUME todo # {} PROVE shown # <<>>
    <3>1. section = <<e>> \o u
      BY <1>9, <1>20, <2>1 DEF section, u
    <3>2. section # <<>> /\ section \in Seq({e} \cup S) /\ Len(section) = 1 + Len(u) /\ Len(u) \in Nat
      BY <1>15, <3>1, AfterTheCounts
    <3> DEFINE c == Append(SubSeq(section, 1, room), Cut)  T == {e} \cup S \cup {Cut}
    <3>3. shown = section \/ (shown = c /\ room < Len(section))
      BY <1>22, <3>2 DEF CutOff
    <3>4. room < Len(section) => Len(c) = room + 1
      <4>1. section \in Seq(T)
        BY <3>2
      <4> HIDE DEF T
      <4> QED
        BY <3>2, <4>1
    <3> HIDE DEF c
    <3>5. Len(<<>>) = 0
      OBVIOUS
    <3> QED
      BY <3>2, <3>3, <3>4, <3>5
  <2> QED
    BY <2>1
<1> DEFINE lines == LinesOf(shown)  told == {shown[k] : k \in lines}
<1>16. /\ told \subseteq S
       /\ \A k \in lines : shown[k] \in todo \/ \E i \in lines : i < k /\ shown[i] = d[shown[k]].parent
       /\ shown # <<>> /\ Len(shown) <= room => told = S
       /\ <<>> \notin DOMAIN d => \A i, j \in lines : i # j => shown[i] # shown[j]
  <2>1. CASE section = <<>>
    <3>1. Len(<<>>) = 0
      OBVIOUS
    <3>2. shown = <<>>
      BY <1>22, <2>1, <3>1 DEF CutOff
    <3>3. lines = {}
      BY <3>1, <3>2 DEF LinesOf
    <3> QED
      BY <3>2, <3>3
  <2>2. CASE section = <<e>> \o u
    <3>0. Cut \notin S
      BY <1>6, <1>7
    <3>1. PICK n \in 0 .. Len(u) :
            /\ lines = 2 .. n + 1
            /\ \A k \in 2 .. n + 1 : k - 1 \in 1 .. n /\ shown[k] = u[k - 1]
            /\ Len(shown) <= room => n = Len(u)
      <4>1. \E n \in 0 .. Len(u) : BeginsLike(CutOff(<<e>> \o u, room), u, room, n)
        BY <1>15, <3>0, TheBeginningIsLeft
      <4> QED
        BY <1>22, <2>2, <4>1 DEF BeginsLike
    <3> DEFINE m == Len(u)
    <3>2. /\ m \in Nat /\ (\A i \in 1 .. m : u[i] \in S) /\ (\A x \in S : \E k \in 1 .. m : u[k] = x)
          /\ \A k \in 1 .. m : u[k] \in todo \/ \E i \in 1 .. k - 1 : u[i] \in todo /\ u[k] \in C[u[i]]
      <4>1. u \in Seq(S) /\ (\A x \in S : \E k \in 1 .. Len(u) : u[k] = x)
        BY <1>15 DEF Lists
      <4>2. \A i \in 1 .. Len(u) : u[i] \in S
        BY <4>1
      <4>3. Len(u) \in Nat
        BY <4>1
      <4> QED
        BY <1>15, <4>1, <4>2, <4>3 DEF Led
    <3>3. <<>> \notin DOMAIN d => \A k, l \in 1 .. m : u[k] = u[l] => k = l
      BY <1>15 DEF Once
    <3> HIDE DEF m, lines, S
    <3>4. n \in 0 .. m /\ \A k \in 1 .. n : k \in 1 .. m /\ k + 1 \in 2 .. n + 1 /\ shown[k + 1] = u[k]
      <4>1. n \in 0 .. m /\ \A k \in 1 .. n : k \in 1 .. m /\ k + 1 \in 2 .. n + 1 /\ k + 1 - 1 = k
        BY <3>2 DEF m
      <4> QED
        BY <3>1, <4>1
    <3>5. \A k \in lines : k - 1 \in 1 .. n /\ k - 1 \in 1 .. m /\ shown[k] = u[k - 1] /\ k \in Int
      BY <3>1, <3>4
    <3>6. told \subseteq S
      BY <3>2, <3>5
    <3>7. ASSUME NEW k \in lines, shown[k] \notin todo
          PROVE  \E i \in lines : i < k /\ shown[i] = d[shown[k]].parent
      <4>1. k - 1 \in 1 .. m /\ u[k - 1] \notin todo /\ shown[k] = u[k - 1] /\ k \in Int
        BY <3>5, <3>7
      <4>2. PICK i \in 1 .. (k - 1) - 1 : u[i] \in todo /\ u[k - 1] \in C[u[i]]
        BY <3>2, <4>1
      <4>3. d[shown[k]].parent = u[i]
        BY <1>4, <4>1, <4>2
      <4>4. i \in 1 .. n /\ i + 1 < k
        BY <3>5, <4>1, <4>2
      <4> QED
        BY <3>1, <3>4, <4>3, <4>4
    <3>8. ASSUME Len(shown) <= room PROVE told = S
      <4>1. n = m
        BY <3>1, <3>8 DEF m
      <4>2. ASSUME NEW x \in S PROVE x \in told
        <5>1. PICK k \in 1 .. m : u[k] = x
          BY <3>2
        <5>2. k + 1 \in lines /\ shown[k + 1] = x
          BY <3>1, <3>4, <4>1, <5>1
        <5> QED
          BY <5>2
      <4> QED
        BY <3>6, <4>2
    <3>9. ASSUME <<>> \notin DOMAIN d, NEW i \in lines, NEW j \in lines, i # j PROVE shown[i] # shown[j]
      <4>1. i - 1 # j - 1
        BY <3>5, <3>9
      <4> QED
        BY <3>3, <3>5, <3>9, <4>1
    <3> QED
      BY <3>6, <3>7, <3>8, <3>9
  <2> QED
    BY <1>21, <2>1, <2>2
<1>18. ASSUME todo # {}
       PROVE  /\ todo \cup below \subseteq Range(Tail(overview))
              /\ \A x \in Range(Tail(overview)) \ todo : d[x].parent \in todo \/ (d[x].group = "backlog" /\ d[x].status = "active")
  <2> DEFINE T == TaskList(d, "active", "todo", RootsOnly)  U == Unfolded(T, Children)
             W == TaskList(d, "active", "backlog", RootsOnly)  Z == Shown(todo, All)
  <2>1. TaskList(d, "active", "", <<>>) # <<>>
    <3>1. TasksListed(d, "active", "", <<>>) # {}
      BY <1>7, <1>13, <1>18
    <3> QED
      BY <1>14, <3>1, NothingIsLeft
  <2>2. overview = <<e>> \o U \o W
    BY <1>10, <2>1
  <2>3. Lists(U, Z)
    BY <1>24, UnfoldedLists
  <2>4. Lists(W, backlog)
    BY <1>24
  <2> HIDE DEF T, U, W, Z, overview
  <2>6. Lists(U \o W, Z \cup backlog)
    BY <2>3, <2>4, ListsJoined
  <2>7. overview = <<e>> \o (U \o W)
    <3> DEFINE Y == {e} \cup Z \cup backlog
    <3>1. <<e>> \in Seq(Y) /\ U \in Seq(Y) /\ W \in Seq(Y)
      BY <2>3, <2>4 DEF Lists
    <3> HIDE DEF Y
    <3> QED
      BY <2>2, <3>1, ConcatAssociative
  <2>8. Range(Tail(overview)) = Z \cup backlog
    BY <2>6, <2>7, AfterTheCounts
  <2>9. \A y : y \in Range(Tail(overview)) <=> y \in todo \/ (y \in DOMAIN d /\ d[y].parent \in todo) \/ y \in backlog
    BY <1>12, <2>8 DEF Z
  <2> QED
    BY <1>6, <1>13, <2>9
<1>19. Stats(d).done + Stats(d).backlog + Stats(d).active = Cardinality(DOMAIN d)
  BY CountsPart DEF Dated
<1> QED
  BY <1>16, <1>18, <1>19, <1>23 DEF SummariesAgree, LinesOf, shown, todo, below

-----------------------------------------------------------------------------
(* Packages.                                                                *)

(* Finitely many numbers have a greatest among them.                        *)
LEMMA AGreatest ==
  ASSUME NEW S, IsFiniteSet(S), S # {}, NEW f, \A x \in S : f[x] \in Nat
  PROVE  \E x \in S : \A y \in S : f[y] <= f[x]
<1> DEFINE above(x) == {y \in S : f[y] > f[x]}
<1>1. \A x \in S : IsFiniteSet(above(x)) /\ Cardinality(above(x)) \in Nat
  BY FS_Subset, FS_CardinalityType
<1> DEFINE total == Cardinality(S)  N == {Cardinality(above(x)) + 1 : x \in S}
<1>2. total \in Nat /\ N # {} /\ N \subseteq 1 .. total + 1
  <2>1. total \in Nat /\ \A x \in S : Cardinality(above(x)) <= total
    BY FS_Subset, FS_CardinalityType
  <2> HIDE DEF above, total
  <2> QED
    BY <1>1, <2>1
<1> HIDE DEF above, total
<1>3. PICK n \in N : \A m \in N : n <= m
  <2> HIDE DEF N
  <2>1. total + 1 \in Nat
    BY <1>2
  <2> QED
    BY <1>2, <2>1, FirstOne
<1>4. PICK x \in S : n = Cardinality(above(x)) + 1
  BY <1>3
<1>5. ASSUME NEW y \in S, f[y] > f[x] PROVE FALSE
  <2>1. above(y) \subseteq above(x) \ {y} /\ y \in above(x)
    BY <1>5 DEF above
  <2>2. IsFiniteSet(above(x) \ {y}) /\ Cardinality(above(x) \ {y}) = Cardinality(above(x)) - 1
    BY <1>1, <2>1, FS_RemoveElement
  <2>3. Cardinality(above(y)) <= Cardinality(above(x)) - 1
    BY <2>1, <2>2, FS_Subset
  <2>4. Cardinality(above(x)) <= Cardinality(above(y))
    <3>1. Cardinality(above(x)) + 1 <= Cardinality(above(y)) + 1
      BY <1>3, <1>4
    <3> QED
      BY <1>1, <3>1
  <2> QED
    BY <1>1, <2>3, <2>4
<1>6. \A y \in S : ~(f[y] > f[x])
  BY <1>5
<1> QED
  BY <1>6

(* A file belongs to the nearest package above it, however it is named, in  *)
(* every graph of finitely many packages (depgraph/query.go ResolvePackage).*)
THEOREM FilesFindTheirPackage ==
  ASSUME NEW g, IsFiniteSet(g.packages), UnknownPackage \notin g.packages,
         NEW S, \A p \in g.packages : g.dirs[p] \in Seq(S), NEW path
  PROVE  FilesAreFound(g, path)
<1> DEFINE where == g.root \o path  holds == {p \in g.packages : IsPrefix(g.dirs[p], where)}
           p == ResolvePackage(g, [kind |-> "relative", path |-> path])
           c == CHOOSE q \in holds : \A r \in holds : Len(g.dirs[r]) <= Len(g.dirs[q])
<1>1. /\ p = Enclosing(g, where)
      /\ ResolvePackage(g, [kind |-> "absolute", path |-> where]) = Enclosing(g, where)
  BY DEF ResolvePackage
<1>2. Enclosing(g, where) = IF holds = {} THEN UnknownPackage ELSE c
  BY DEF Enclosing
<1>3. IsFiniteSet(holds) /\ \A q \in holds : Len(g.dirs[q]) \in Nat
  BY FS_Subset
<1> HIDE DEF p, where
<1>4. ASSUME holds # {} PROVE c \in holds /\ \A r \in holds : Len(g.dirs[r]) <= Len(g.dirs[c])
  <2> DEFINE f == [q \in holds |-> Len(g.dirs[q])]
  <2> HIDE DEF holds
  <2>1. \E x \in holds : \A y \in holds : f[y] <= f[x]
    <3>1. \A x \in holds : f[x] \in Nat
      BY <1>3
    <3> HIDE DEF f
    <3> QED
      BY <1>3, <1>4, <3>1, AGreatest
  <2>2. \E q \in holds : \A r \in holds : Len(g.dirs[r]) <= Len(g.dirs[q])
    BY <2>1
  <2> QED
    BY <2>2
<1>5. p # UnknownPackage => p \in holds /\ \A q \in holds : Len(g.dirs[q]) <= Len(g.dirs[p])
  <2> HIDE DEF holds, c
  <2> QED
    BY <1>1, <1>2, <1>4
<1> QED
  BY <1>1, <1>5 DEF FilesAreFound, p, where

-----------------------------------------------------------------------------
(* All cases.                                                              *)

RepoTags == {"rank", "budget", "scan", "ctags", "inventory", "go", "filter", "parse"}

ScheduleTags == {"schedule", "history", "tasks"}
TaskTags == {"query", "view"}

(* The kinds of the cases.                                                  *)
LEMMA CasesByKind ==
  /\ RepoCase => case'.of \in RepoTags
  /\ RouteCase => case'.of \in {"intent", "feedback", "tiers"}
  /\ PipelineCase => case'.of \in {"iterations", "pipeline", "surfaces", "files"}
  /\ CronCase => case'.of \in ScheduleTags
  /\ DepgraphCase => case'.of \in {"graph", "file", "cut"}
  /\ TaskCase => case'.of \in TaskTags
<1>1. ASSUME RouteCase PROVE case'.of \in {"intent", "feedback", "tiers"}
  BY <1>1 DEF RouteCase
<1>2. ASSUME PipelineCase PROVE case'.of \in {"iterations", "pipeline", "surfaces", "files"}
  <2>1. ASSUME IterationCase PROVE case'.of = "iterations"
    BY <2>1 DEF IterationCase
  <2>2. ASSUME ArrangementCase PROVE case'.of = "pipeline"
    BY <2>2 DEF ArrangementCase
  <2>3. ASSUME SurfaceCase PROVE case'.of = "surfaces"
    BY <2>3 DEF SurfaceCase
  <2>4. ASSUME FilesCase PROVE case'.of = "files"
    BY <2>4 DEF FilesCase
  <2> QED
    BY <1>2, <2>1, <2>2, <2>3, <2>4 DEF PipelineCase
<1>3. ASSUME CronCase PROVE case'.of \in ScheduleTags
  BY <1>3 DEF CronCase, ScheduleTags
<1>4. ASSUME DepgraphCase PROVE case'.of \in {"graph", "file", "cut"}
  <2>1. \/ \E s, d : case' = [of |-> "graph", es |-> s, depth |-> d]
        \/ \E s, p : case' = [of |-> "file", es |-> s, path |-> p]
        \/ \E l, h, t : case' = [of |-> "cut", ls |-> l, header |-> h, tokens |-> t]
    BY <1>4, Zenon DEF DepgraphCase
  <2> QED
    BY <2>1
<1>5. ASSUME TaskCase PROVE case'.of \in TaskTags
  BY <1>5 DEF TaskCase, TaskTags
<1>6. ASSUME RepoCase PROVE case'.of \in RepoTags
  <2>1. ASSUME RankCase \/ BudgetCase \/ ScanCase \/ CtagsCase \/ GoCase PROVE case'.of \in RepoTags
    BY <2>1 DEF RankCase, BudgetCase, ScanCase, CtagsCase, GoCase, RepoTags
  <2>2. ASSUME InventoryCase \/ FilterCase \/ ParseCase PROVE case'.of \in RepoTags
    BY <2>2 DEF InventoryCase, FilterCase, ParseCase, RepoTags
  <2> QED
    BY <1>6, <2>1, <2>2 DEF RepoCase
<1> QED
  BY <1>1, <1>2, <1>3, <1>4, <1>5, <1>6

(* A case that is none of the map's says nothing about it.                  *)
LEMMA ElsewhereHolds ==
  ASSUME case'.of \notin RepoTags
  PROVE  ScansAreRanked'
BY DEF RepoTags, ScansAreRanked, RepoRanksSteadily, RepoScans

(* The ranking and the budget are right in every case.                      *)
LEMMA RankCasesHold ==
  ASSUME RankCase \/ BudgetCase
  PROVE  ScansAreRanked'
<1>1. ASSUME NEW f \in RepoLists, case' = [of |-> "rank", files |-> f] PROVE ScansAreRanked'
  <2>1. f \in Seq(RepoFile) /\ PathsDiffer(f)
    BY RepoCasesAssumption
  <2>2. RankIsOrderFree(f) /\ EdgesAreImports(f)
    BY <2>1, RankingIsOrderFree, EdgesImport
  <2>3. case'.of = "rank" /\ case'.files = f
    BY <1>1
  <2> QED
    BY <2>2, <2>3 DEF ScansAreRanked, RepoRanksSteadily, RepoScans
<1>2. ASSUME NEW r \in RankedLists, NEW t \in Budgets, case' = [of |-> "budget", ranked |-> r, tokens |-> t] PROVE ScansAreRanked'
  <2>1. r \in Seq(RankedFile) /\ t \in Nat /\ 40 \in Nat
    BY RepoCasesAssumption
  <2>2. BudgetIsSteady(r, t) /\ LinesKeepBudget(40, r, t)
    BY <2>1, BudgetsAreSteady, LinesKeepTheirBudget
  <2>3. case'.of = "budget" /\ case'.ranked = r /\ case'.tokens = t
    BY <1>2
  <2> QED
    BY <2>2, <2>3 DEF ScansAreRanked, RepoRanksSteadily, RepoScans
<1> QED
  BY <1>1, <1>2 DEF RankCase, BudgetCase

(* The scan and what ctags and the Go parser report are right in every case.*)
LEMMA SymbolCasesHold ==
  ASSUME ScanCase \/ CtagsCase \/ GoCase
  PROVE  ScansAreRanked'
<1>1. ASSUME NEW S \in FileSets, NEW root \in {"skip", "ok"}, case' = [of |-> "scan", sources |-> S, root |-> root]
      PROVE  ScansAreRanked'
  <2>1. WalkStandsIn(S, root)
    BY WalkFinds
  <2>2. case'.of = "scan" /\ case'.sources = S /\ case'.root = root
    BY <1>1
  <2> QED
    BY <2>1, <2>2 DEF ScansAreRanked, RepoRanksSteadily, RepoScans
<1>2. ASSUME NEW f \in FileLists, NEW e \in EntryLists, case' = [of |-> "ctags", entries |-> e, files |-> f] PROVE ScansAreRanked'
  <2>1. f \in Seq(CtagsFile) /\ PathsDiffer(f) /\ e \in Seq(CtagsEntry)
    BY RepoCasesAssumption
  <2>2. FieldsFindTheirOwner(f, e)
    BY <2>1, FieldsAreOwned
  <2>3. case'.of = "ctags" /\ case'.files = f /\ case'.entries = e
    BY <1>2
  <2> QED
    BY <2>2, <2>3 DEF ScansAreRanked, RepoRanksSteadily, RepoScans
<1>3. ASSUME NEW d \in DeclLists, NEW isMain \in BOOLEAN, NEW test \in BOOLEAN,
             case' = [of |-> "go", decls |-> d, main |-> isMain, test |-> test]
      PROVE  ScansAreRanked'
  <2>1. d \in Seq(GoDecl)
    BY RepoCasesAssumption
  <2>2. GoIsShown(d, isMain, test)
    BY <2>1, GoDeclarationsAreShown
  <2>3. case'.of = "go" /\ case'.decls = d /\ case'.main = isMain /\ case'.test = test
    BY <1>3
  <2> QED
    BY <2>2, <2>3 DEF ScansAreRanked, RepoRanksSteadily, RepoScans
<1> QED
  BY <1>1, <1>2, <1>3 DEF ScanCase, CtagsCase, GoCase

(* The inventory, its filters and the line parsers are right in every case. *)
LEMMA LineCasesHold ==
  ASSUME InventoryCase \/ FilterCase \/ ParseCase
  PROVE  ScansAreRanked'
<1>0. \A n \in Caps : n \in Nat
  BY RepoCasesAssumption
<1>1. ASSUME NEW f \in CountedLists, NEW cap \in Caps, NEW stop \in Caps,
             case' = [of |-> "inventory", files |-> f, cap |-> cap, stop |-> stop]
      PROVE  ScansAreRanked'
  <2>1. f \in Seq(CountedFile) /\ cap \in Nat /\ stop \in Nat
    BY <1>0, RepoCasesAssumption
  <2>2. InventoryIsHonest(f, cap, stop)
    BY <2>1, InventoriesAreHonest
  <2>3. case'.of = "inventory" /\ case'.files = f /\ case'.cap = cap /\ case'.stop = stop
    BY <1>1
  <2> QED
    BY <2>2, <2>3 DEF ScansAreRanked, RepoRanksSteadily, RepoScans
<1>2. ASSUME NEW fs \in CountedLists, NEW k \in FilterKeys, NEW n \in Budgets, NEW f \in ToSet(fs),
             case' = [of |-> "filter", file |-> f, key |-> k, n |-> n]
      PROVE  ScansAreRanked'
  <2>1. k \in STRING \ {">", "<", "=", "!"} /\ n \in Nat /\ fs \in Seq(CountedFile)
    BY RepoCasesAssumption
  <2>2. f \in CountedFile
    BY <2>1 DEF ToSet
  <2>3. FiltersReadBack(f, k, n)
    BY <2>1, <2>2, FiltersAreReadBack
  <2>4. case'.of = "filter" /\ case'.file = f /\ case'.key = k /\ case'.n = n
    BY <1>2
  <2> QED
    BY <2>3, <2>4 DEF ScansAreRanked, RepoRanksSteadily, RepoScans
<1>3. ASSUME NEW lang \in Languages, NEW l \in LineLists, NEW cap \in Caps,
             case' = [of |-> "parse", lang |-> lang, lines |-> l, cap |-> cap]
      PROVE  ScansAreRanked'
  <2>1. l \in Seq(SourceLine) /\ cap \in Nat
    BY <1>0, RepoCasesAssumption
  <2>2. DeclarationsAreFound(lang, l, cap)
    BY <2>1, DeclarationsAreReported
  <2>3. case'.of = "parse" /\ case'.lang = lang /\ case'.lines = l /\ case'.cap = cap
    BY <1>3
  <2> QED
    BY <2>2, <2>3 DEF ScansAreRanked, RepoRanksSteadily, RepoScans
<1> QED
  BY <1>1, <1>2, <1>3 DEF InventoryCase, FilterCase, ParseCase

(* Before a case is chosen there is nothing to be wrong.                    *)
LEMMA FirstCaseHolds == RepoInit => ScansAreRanked
BY DEF RepoInit, NoCase, ScansAreRanked, RepoRanksSteadily, RepoScans

(* The first case is right, and so is every one that is chosen.             *)
LEMMA EveryCaseHolds == ScansAreRanked /\ [RepoNext]_repovars => ScansAreRanked'
<1> SUFFICES ASSUME ScansAreRanked, [RepoNext]_repovars PROVE ScansAreRanked'
  OBVIOUS
<1>1. CASE UNCHANGED case
  BY <1>1 DEF ScansAreRanked, RepoRanksSteadily, RepoScans
<1>2. CASE RepoCase
  BY <1>2, RankCasesHold, SymbolCasesHold, LineCasesHold DEF RepoCase
<1>3. CASE RouteCase \/ PipelineCase \/ CronCase \/ DepgraphCase \/ TaskCase
  BY <1>3, CasesByKind, ElsewhereHolds DEF RepoTags, ScheduleTags, TaskTags
<1> QED
  BY <1>1, <1>2, <1>3 DEF RepoNext, repovars

(* Bounded lists are lists.                                                 *)
LEMMA BoundedLists ==
  ASSUME NEW S, NEW n \in Nat, NEW h \in UpTo(S, n)
  PROVE  h \in Seq(Range(h)) /\ h \in Seq(S)
<1>1. PICK k \in 0 .. n : h \in [1 .. k -> S]
  BY DEF UpTo
<1>2. DOMAIN h = 1 .. k /\ h \in [1 .. k -> S] /\ k \in Nat /\ h = [i \in 1 .. k |-> h[i]] /\ \A i \in 1 .. k : h[i] \in S
  BY <1>1
<1>3. \A i \in 1 .. k : h[i] \in Range(h)
  BY <1>2 DEF Range
<1> QED
  BY <1>2, <1>3, ListOf

(* The histories of the cases are histories.                                *)
LEMMA HistoriesAre ==
  ASSUME NEW h \in Histories
  PROVE  AHistory(h) /\ \A i \in DOMAIN h : h[i].at \in 0 .. 2
<1> DEFINE E == [task : {"a", "b"}, ok : BOOLEAN, at : 0 .. 2]
<1>1. h \in UpTo(E, 3) /\ \A i, j \in DOMAIN h : i <= j => h[i].at <= h[j].at
  BY DEF Histories
<1> HIDE DEF E
<1>2. h \in Seq(Range(h)) /\ h \in Seq(E)
  BY <1>1, BoundedLists
<1>3. \A i \in DOMAIN h : h[i] \in E
  BY <1>2
<1>4. \A e \in E : e.at \in 0 .. 2 /\ e.at \in Nat /\ e.ok \in BOOLEAN
  BY DEF E
<1> QED
  BY <1>1, <1>2, <1>3, <1>4 DEF AHistory, ARun

(* The schedules of the cases can be parsed or are refused.                 *)
LEMMA SchedulesAre == /\ \A s \in Schedules : ASpec(s)
                      /\ \A s \in SomeSchedules : ASpec(s)
<1>1. ASSUME NEW s \in Schedules PROVE ASpec(s)
  <2>1. /\ s.every \in {Unset, Bad, 0, 1, 3} /\ s.dailyAt \in {Unset, Bad, 0, 2, 9}
        /\ s.weekly \in {Unset, Bad} \cup [weekday : 0 .. Week - 1, at : 0 .. Day - 1]
    BY DEF Schedules
  <2>2. [weekday : 0 .. Week - 1, at : 0 .. Day - 1] \subseteq [weekday : 0 .. Week - 1, at : Int]
    OBVIOUS
  <2>3. s.every \in {Unset, Bad} \cup Int
    BY <2>1
  <2>4. s.dailyAt \in {Unset, Bad} \cup Int
    BY <2>1
  <2> QED
    BY <2>1, <2>2, <2>3, <2>4 DEF ASpec
<1>2. ASSUME NEW s \in SomeSchedules PROVE ASpec(s)
  BY DEF SomeSchedules, ASpec
<1> QED
  BY <1>1, <1>2

(* The schedules and the histories are right in every case.                 *)
LEMMA CronCasesHold ==
  ASSUME CronCase
  PROVE  SchedulesAreTold'
<1>1. ASSUME NEW s \in Schedules, NEW last \in -1 .. 8, NEW now \in 0 .. 14,
             case' = [of |-> "schedule", s |-> ParseSchedule(s), last |-> last, now |-> now]
      PROVE  SchedulesAreTold'
  <2> DEFINE p == ParseSchedule(s)
  <2>1. p = Bad \/ ASchedule(p)
    BY SchedulesAre, SpecsAreParsed
  <2>2. last \in Nat \cup {NeverRan} /\ now \in Nat
    BY DEF NeverRan
  <2> HIDE DEF p
  <2>3. SchedulesKeepTime(p, last, now)
    BY <2>1, <2>2, SchedulesTellTheTime
  <2>4. case'.of = "schedule" /\ case'.s = p /\ case'.last = last /\ case'.now = now
    BY <1>1 DEF p
  <2> QED
    BY <2>3, <2>4 DEF SchedulesAreTold
<1>2. ASSUME NEW h \in Histories, NEW name \in {Unset, "a"}, NEW limit \in 1 .. 3,
             case' = [of |-> "history", h |-> h, name |-> name, limit |-> limit]
      PROVE  SchedulesAreTold'
  <2>1. limit \in Nat /\ AHistory(h)
    BY HistoriesAre
  <2>2. ViewsAreFaithful(h, name, limit)
    BY <2>1, HistoryIsShown
  <2>3. case'.of = "history" /\ case'.h = h /\ case'.name = name /\ case'.limit = limit
    BY <1>2
  <2> QED
    BY <2>2, <2>3 DEF SchedulesAreTold
<1>3. ASSUME NEW h \in Histories, NEW sa \in SomeSchedules, NEW sb \in SomeSchedules, NEW enabled \in BOOLEAN, NEW now \in 2 .. 5,
             case' = [of |-> "tasks", h |-> h, now |-> now,
                      tasks |-> [n \in {"a", "b"} |-> IF n = "a" THEN [schedule |-> sa, enabled |-> enabled]
                                                      ELSE [schedule |-> sb, enabled |-> TRUE]]]
      PROVE  SchedulesAreTold'
  <2> DEFINE tasks == [n \in {"a", "b"} |-> IF n = "a" THEN [schedule |-> sa, enabled |-> enabled]
                                            ELSE [schedule |-> sb, enabled |-> TRUE]]
  <2>1. AHistory(h) /\ now \in Nat /\ \A i \in DOMAIN h : h[i].at <= now
    BY HistoriesAre
  <2>2. DOMAIN tasks = {"a", "b"} /\ \A n \in DOMAIN tasks : tasks[n].schedule \in SomeSchedules
    OBVIOUS
  <2>3. case'.of = "tasks" /\ case'.tasks = tasks /\ case'.h = h /\ case'.now = now
    BY <1>3
  <2> HIDE DEF tasks
  <2>4. IsFiniteSet(DOMAIN tasks)
    <3>1. IsFiniteSet({"a"})
      BY FS_Singleton
    <3>2. IsFiniteSet({"a"} \cup {"b"})
      BY <3>1, FS_AddElement
    <3> QED
      BY <2>2, <3>2
  <2>5. \A n \in DOMAIN tasks : ASpec(tasks[n].schedule)
    BY <2>2, SchedulesAre
  <2>6. ListIsFaithful(tasks, h, now)
    BY <2>1, <2>4, <2>5, TasksAreListed
  <2> QED
    BY <2>3, <2>6 DEF SchedulesAreTold
<1> QED
  BY <1>1, <1>2, <1>3, Zenon DEF CronCase

(* The names and the summaries of tasks are right in every case.            *)
LEMMA TaskCasesHold ==
  ASSUME TaskCase
  PROVE  TasksAreFound'
<1>1. ASSUME NEW D \in SUBSET TaskIDs, NEW slug \in {<<>>, << 11 >>, << 12 >>}, NEW q \in UpTo({11, 12, 2}, 2),
             case' = [of |-> "query", d |-> [x \in D |-> ATask], slug |-> slug, q |-> q]
      PROVE  TasksAreFound'
  <2> DEFINE d == [x \in D |-> ATask]
  <2>1. case'.of = "query" /\ case'.d = d /\ case'.slug = slug /\ case'.q = q
    BY <1>1
  <2>2. slug \in Seq(Nat)
    <3>1. <<>> \in Seq(Nat) /\ <<11>> \in Seq(Nat) /\ <<12>> \in Seq(Nat)
      OBVIOUS
    <3>2. slug = <<>> \/ slug = <<11>> \/ slug = <<12>>
      BY Zenon
    <3> QED
      BY <3>1, <3>2, Zenon
  <2>3. q \in Seq(Nat)
    <3>1. q \in Seq({11, 12, 2})
      BY BoundedLists
    <3> QED
      BY <3>1
  <2>4. IsFiniteSet(D)
    <3>1. IsFiniteSet({}) /\ \A S, x : IsFiniteSet(S) => IsFiniteSet(S \cup {x})
      BY FS_EmptySet, FS_AddElement
    <3> DEFINE L == ((((({} \cup {<<11>>}) \cup {<<11, 12>>}) \cup {<<12>>}) \cup {<<12, 11>>}) \cup {<<11, 2>>}) \cup {<<>>}
    <3>2. IsFiniteSet(L)
      BY ONLY <3>1, Zenon
    <3>3. D \subseteq L
      BY DEF TaskIDs
    <3> HIDE DEF L
    <3> QED
      BY <3>2, <3>3, FS_Subset
  <2>5. DOMAIN d = D
    OBVIOUS
  <2> HIDE DEF d
  <2>6. QueriesAreCertain(d, slug, q)
    BY <2>2, <2>3, <2>4, <2>5, QueriesNameOneTask
  <2> QED
    BY <2>1, <2>6 DEF TasksAreFound
<1>2. ASSUME NEW kinds \in [1 .. 3 -> Kinds], NEW n \in 0 .. 3, NEW first \in Firsts, NEW room \in {2, 9},
             case' = [of |-> "view", d |-> StoreOf(kinds, n, first), room |-> room]
      PROVE  TasksAreFound'
  <2> DEFINE d == StoreOf(kinds, n, first)  ids == InOrder(first)
             at(i) == CHOOSE j \in 1 .. n : ids[j] = ids[i]
  <2>1. case'.of = "view" /\ case'.d = d /\ case'.room = room
    BY <1>2
  <2>2. /\ \A i \in 1 .. 3 : ids[i] # Cut
        /\ \A i, j \in 1 .. 3 : ids[i] = ids[j] => i = j
    <3>1. first = <<>> \/ first = <<11>>
      BY DEF Firsts
    <3>2. first # Cut /\ first # <<11, 12>> /\ first # <<12>>
      <4>1. <<>> # <<0, 0>> /\ <<>> # <<11, 12>> /\ <<>> # <<12>>
        OBVIOUS
      <4>2. <<11>> # <<0, 0>> /\ <<11>> # <<11, 12>> /\ <<11>> # <<12>>
        <5>1. Len(<<11>>) = 1 /\ Len(<<0, 0>>) = 2 /\ Len(<<11, 12>>) = 2 /\ <<11>>[1] = 11 /\ <<12>>[1] = 12
          OBVIOUS
        <5> QED
          BY <5>1
      <4> QED
        BY <3>1, <4>1, <4>2, Zenon DEF Cut
    <3>3. <<11, 12>> # Cut /\ <<12>> # Cut /\ <<11, 12>> # <<12>>
      BY DEF Cut
    <3>4. ids[1] = first /\ ids[2] = <<11, 12>> /\ ids[3] = <<12>>
      BY DEF InOrder
    <3>5. \A i \in 1 .. 3 : i = 1 \/ i = 2 \/ i = 3
      OBVIOUS
    <3> QED
      BY ONLY <3>2, <3>3, <3>4, <3>5, Zenon
  <2>3. DOMAIN d = {ids[i] : i \in 1 .. n}
    BY DEF StoreOf
  <2>4. \A i \in 1 .. n : i \in 1 .. 3 /\ at(i) = i
    BY <2>2
  <2>5. \A i \in 1 .. n : d[ids[i]].updated = (i * 2) % 5
    <3>1. ASSUME NEW i \in 1 .. n PROVE d[ids[i]].updated = (i * 2) % 5
      <4>1. d[ids[i]].updated = (at(i) * 2) % 5
        BY DEF StoreOf
      <4> QED
        BY <2>4, <4>1
    <3> QED
      BY <3>1
  <2> HIDE DEF d, at, ids
  <2>6. /\ \A i \in 1 .. 3 : (i * 2) % 5 \in Nat
        /\ \A i, j \in 1 .. 3 : (i * 2) % 5 = (j * 2) % 5 => i = j
    <3>1. (1 * 2) % 5 = 2 /\ (2 * 2) % 5 = 4 /\ (3 * 2) % 5 = 1
      OBVIOUS
    <3>2. \A i \in 1 .. 3 : i = 1 \/ i = 2 \/ i = 3
      OBVIOUS
    <3> QED
      BY <3>1, <3>2
  <2>7. IsFiniteSet(DOMAIN d)
    <3> DEFINE f == [i \in 1 .. n |-> ids[i]]
    <3>1. f \in Surjection(1 .. n, DOMAIN d)
      BY <2>3 DEF Surjection
    <3>2. IsFiniteSet(1 .. n)
      BY Stretch
    <3> HIDE DEF f
    <3> QED
      BY <3>1, <3>2, FS_Surjection
  <2>8. Dated(d)
    <3>1. \A x \in DOMAIN d : \E i \in 1 .. 3 : x = ids[i] /\ d[x].updated = (i * 2) % 5
      BY <2>3, <2>4, <2>5
    <3> QED
      BY <2>6, <2>7, <3>1 DEF Dated
  <2>9. Cut \notin DOMAIN d
    BY <2>2, <2>3, <2>4
  <2>10. SummariesAgree(d, room)
    <3>1. room \in Nat \ {0}
      OBVIOUS
    <3> QED
      BY <2>8, <2>9, <3>1, SummariesTellTheTasks
  <2> QED
    BY <2>1, <2>10 DEF TasksAreFound
<1> QED
  BY <1>1, <1>2 DEF TaskCase

(* Before a case is chosen there is nothing to be wrong.                    *)
LEMMA NothingIsToldAtFirst == RepoInit => SchedulesAreTold /\ TasksAreFound
BY DEF RepoInit, NoCase, SchedulesAreTold, TasksAreFound

(* The first case is right, and so is every one that is chosen.             *)
LEMMA EverythingIsTold ==
  /\ SchedulesAreTold /\ [RepoNext]_repovars => SchedulesAreTold'
  /\ TasksAreFound /\ [RepoNext]_repovars => TasksAreFound'
<1>1. case'.of \notin ScheduleTags => SchedulesAreTold'
  BY DEF ScheduleTags, SchedulesAreTold
<1>2. case'.of \notin TaskTags => TasksAreFound'
  BY DEF TaskTags, TasksAreFound
<1>3. UNCHANGED case => (SchedulesAreTold => SchedulesAreTold') /\ (TasksAreFound => TasksAreFound')
  BY DEF SchedulesAreTold, TasksAreFound
<1>4. [RepoNext]_repovars => UNCHANGED case \/ RepoCase \/ RouteCase \/ PipelineCase \/ CronCase \/ DepgraphCase \/ TaskCase
  BY DEF RepoNext, repovars
<1>5. RepoCase \/ RouteCase \/ PipelineCase \/ DepgraphCase => case'.of \notin ScheduleTags /\ case'.of \notin TaskTags
  BY CasesByKind DEF RepoTags, ScheduleTags, TaskTags
<1>6. TaskCase => case'.of \notin ScheduleTags
  BY CasesByKind DEF ScheduleTags, TaskTags
<1>7. CronCase => case'.of \notin TaskTags
  BY CasesByKind DEF ScheduleTags, TaskTags
<1> QED
  BY <1>1, <1>2, <1>3, <1>4, <1>5, <1>6, <1>7, CronCasesHold, TaskCasesHold

\* What is shown of a repository, of schedules and their runs and of the tasks is right in every case:
\* what the map computes (ranker.go:20, budget.go:15), the next run and what is overdue
\* (cron/schedules.go:20, tools.go:20), ids, counts and lists (tasklist/store.go:58, prompt.go:10).
THEOREM ViewsTrue == RepoSpec => []ViewsAreTrue
<1>1. RepoInit => ViewsAreTrue
  BY FirstCaseHolds, NothingIsToldAtFirst DEF ViewsAreTrue
<1>2. ViewsAreTrue /\ [RepoNext]_repovars => ViewsAreTrue'
  BY EveryCaseHolds, EverythingIsTold DEF ViewsAreTrue
<1> QED
  BY <1>1, <1>2, PTL DEF RepoSpec
=============================================================================
