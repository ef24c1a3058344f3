----------------------------- MODULE CacheFiles -----------------------------
(* The file cache of cache/ on top of WriteFileAtomic (internal/xdg): one   *)
(* file per key, written to <path>.tmp and renamed, by processes that share *)
(* nothing but the directory.  All writers of a key use the same temporary  *)
(* name, so the model follows each writer's open file: it is under the      *)
(* temporary name, under the final one once somebody renamed it, or gone.   *)
EXTENDS Naturals, FiniteSets

CONSTANTS Procs,       \* processes that use the cache
          Keys,        \* keys of one namespace
          Values,      \* what is stored
          MaxEntries,  \* defaultMaxEntries
          MaxSets,     \* bound: calls of Set
          MaxCrashes,  \* bound: processes that die within a call
          NoFile, Torn \* no file; a file that does not unmarshal

VARIABLES path,   \* Key -> the entry under the final name
          temp,   \* Key -> the entry under the temporary name
          older,  \* pairs of files, the one modified earlier first
          op,     \* Proc -> the call in progress
          got,    \* Proc -> the outcome of its last Get
          sole,   \* history: Key -> what the last Set left if nothing met it
          sets, crashes

cvars == <<path, temp, older, op, got, sole, sets, crashes>>

Entry == [value : Values, ttl : BOOLEAN, past : {FALSE}] \cup [value : Values, ttl : {TRUE}, past : {TRUE}]
ASSUME CacheAssumption ==
  MaxEntries \in Nat \ {0} /\ {MaxSets, MaxCrashes} \subseteq Nat /\ NoFile \notin Entry \cup {Torn}

Miss  == [hit |-> FALSE]
Hit(e) == [hit |-> TRUE, value |-> e.value, past |-> e.past]
NoOp  == [at |-> "idle", key |-> CHOOSE k \in Keys : TRUE, entry |-> NoFile, fd |-> "gone", victims |-> {}, met |-> FALSE]

CacheInit ==
  /\ path = [k \in Keys |-> NoFile]
  /\ temp = [k \in Keys |-> NoFile]
  /\ older = {}
  /\ op = [p \in Procs |-> NoOp]
  /\ got = [p \in Procs |-> Miss]
  /\ sole = [k \in Keys |-> NoFile]
  /\ sets = 0 /\ crashes = 0

Go(p, r) == op' = [op EXCEPT ![p] = r]
Writers(k) == {p \in Procs : op[p].key = k /\ op[p].at \in {"write", "rename"}}

\* The files, by the name they have, and the relation without some of them or with one just written.
Temp(k) == <<"temp", k>>
Path(k) == <<"path", k>>
Files   == {Temp(k) : k \in {j \in Keys : temp[j] # NoFile}} \cup {Path(k) : k \in {j \in Keys : path[j] # NoFile}}
OlderWithout(F) == {e \in older : e[1] \notin F /\ e[2] \notin F}
Modified(f)     == OlderWithout({f}) \cup {<<g, f>> : g \in Files \ {f}}

(***************************************************************************)
(* WriteFileAtomic: open (and truncate), write, rename.                    *)
(***************************************************************************)
\* Faulty: what an earlier crash left stays in the file.
OpenedAsIs(old) == IF old = NoFile THEN Torn ELSE old
Opened(old) == Torn

OpenTmp(p) ==
  /\ op[p].at = "idle" /\ sets < MaxSets
  /\ sets' = sets + 1
  /\ \E k \in Keys, v \in Values, ttl \in BOOLEAN :
       /\ op' = [q \in Procs |->
            IF q = p THEN [NoOp EXCEPT !.at = "write", !.key = k, !.fd = "temp", !.met = (Writers(k) # {}),
                                       !.entry = [value |-> v, ttl |-> ttl, past |-> FALSE]]
            ELSE [op[q] EXCEPT !.met = @ \/ q \in Writers(k)]]
       /\ temp' = [temp EXCEPT ![k] = Opened(@)]
       /\ older' = Modified(Temp(k))
       /\ sole' = [sole EXCEPT ![k] = NoFile]
  /\ UNCHANGED <<path, got, crashes>>

\* Bytes laid over another entry give the new one or a mixture.
Laid(old, new) == IF old = Torn THEN {new} ELSE {new, Torn}

WriteTmp(p) ==
  /\ op[p].at = "write"
  /\ LET k == op[p].key IN
     \/ /\ op[p].fd = "temp"
        /\ \E e \in Laid(temp[k], op[p].entry) : temp' = [temp EXCEPT ![k] = e]
        /\ older' = Modified(Temp(k)) /\ UNCHANGED path
     \/ /\ op[p].fd = "path"
        /\ \E e \in Laid(path[k], op[p].entry) : path' = [path EXCEPT ![k] = e]
        /\ older' = Modified(Path(k)) /\ UNCHANGED temp
     \/ op[p].fd = "gone" /\ UNCHANGED <<path, temp, older>>
  /\ Go(p, [op[p] EXCEPT !.at = "rename"])
  /\ UNCHANGED <<got, sole, sets, crashes>>

\* Whoever still writes under the temporary name now writes the live file.
Follow(p, k) == [q \in Procs |->
  IF q = p THEN [op[p] EXCEPT !.at = "list", !.fd = "gone"]
  ELSE IF q \notin Writers(k) THEN op[q]
  ELSE [op[q] EXCEPT !.fd = CASE @ = "temp" -> "path" [] OTHER -> "gone"]]

\* The file keeps its time under its new name.
Renamed(k) == LET Now(f) == IF f = Temp(k) THEN Path(k) ELSE f
              IN  {<<Now(e[1]), Now(e[2])>> : e \in OlderWithout({Path(k)})}

Rename(p) ==
  /\ op[p].at = "rename"
  /\ LET k == op[p].key IN
     IF temp[k] = NoFile
     THEN Go(p, NoOp) /\ UNCHANGED <<path, temp, older, sole>>
     ELSE /\ path' = [path EXCEPT ![k] = temp[k]]
          /\ temp' = [temp EXCEPT ![k] = NoFile]
          /\ older' = Renamed(k)
          /\ op' = Follow(p, k)
          /\ sole' = [sole EXCEPT ![k] = IF op[p].met THEN NoFile ELSE op[p].entry]
  /\ UNCHANGED <<got, sets, crashes>>

(***************************************************************************)
(* Get, Delete, Purge and GC.                                              *)
(***************************************************************************)
\* A torn file is a miss; an expired entry is a miss and its file is removed,
\* later, whatever is there by then.
Get(p, k) ==
  /\ op[p].at = "idle"
  /\ got' = [got EXCEPT ![p] = IF path[k] \in {NoFile, Torn} \/ path[k].past THEN Miss ELSE Hit(path[k])]
  /\ IF path[k] \notin {NoFile, Torn} /\ path[k].past
     THEN Go(p, [NoOp EXCEPT !.at = "remove", !.key = k, !.victims = {k}])
     ELSE UNCHANGED op
  /\ UNCHANGED <<path, temp, older, sole, sets, crashes>>


\* GC lists the files and removes the oldest beyond the limit.
OldestKeys(n) == {k \in Keys : path[k] # NoFile /\ Cardinality({j \in Keys : <<Path(j), Path(k)>> \in older}) < n}
ListFiles(p) ==
  /\ op[p].at = "list"
  /\ LET n == Cardinality({k \in Keys : path[k] # NoFile}) - MaxEntries IN
     IF n <= 0 THEN Go(p, NoOp)
     ELSE Go(p, [op[p] EXCEPT !.at = "remove", !.victims = OldestKeys(n)])
  /\ UNCHANGED <<path, temp, older, got, sole, sets, crashes>>

Without(K) == /\ path' = [k \in Keys |-> IF k \in K THEN NoFile ELSE path[k]]
              /\ sole' = [k \in Keys |-> IF k \in K THEN NoFile ELSE sole[k]]

\* Who held a removed file open writes into nothing.
Cut(K, r) == IF r.key \in K /\ r.fd = "path" THEN [r EXCEPT !.fd = "gone"] ELSE r

RemoveFiles(p) ==
  /\ op[p].at = "remove"
  /\ Without(op[p].victims)
  /\ older' = OlderWithout({Path(k) : k \in op[p].victims})
  /\ op' = [q \in Procs |-> IF q = p THEN NoOp ELSE Cut(op[p].victims, op[q])]
  /\ UNCHANGED <<temp, got, sets, crashes>>

DeleteEntry(p, k) ==
  /\ op[p].at = "idle" /\ path[k] # NoFile
  /\ Without({k})
  /\ older' = OlderWithout({Path(k)})
  /\ op' = [q \in Procs |-> Cut({k}, op[q])]
  /\ UNCHANGED <<temp, got, sets, crashes>>

\* RemoveAll takes the temporary files with it.
Purge(p) ==
  /\ op[p].at = "idle" /\ Files # {}
  /\ Without(Keys)
  /\ older' = {}
  /\ temp' = [k \in Keys |-> NoFile]
  /\ op' = [q \in Procs |-> [op[q] EXCEPT !.fd = "gone"]]
  /\ UNCHANGED <<got, sets, crashes>>

\* Time passes; a process dies and leaves what it wrote.
Expire ==
  /\ \E k \in Keys : path[k] \notin {NoFile, Torn} /\ path[k].ttl /\ ~path[k].past
  /\ LET Old(e) == IF e \in {NoFile, Torn} THEN e ELSE [e EXCEPT !.past = e.ttl] IN
     /\ path' = [k \in Keys |-> Old(path[k])]
     /\ sole' = [k \in Keys |-> Old(sole[k])]
     /\ got' = [p \in Procs |-> Miss]
  /\ UNCHANGED <<temp, older, op, sets, crashes>>
Crash(p) ==
  /\ op[p].at # "idle" /\ crashes < MaxCrashes
  /\ crashes' = crashes + 1
  /\ Go(p, NoOp)
  /\ UNCHANGED <<path, temp, older, got, sole, sets>>

CacheNext ==
  \/ \E p \in Procs : OpenTmp(p) \/ WriteTmp(p) \/ Rename(p) \/ ListFiles(p) \/ RemoveFiles(p) \/ Purge(p) \/ Crash(p)
  \/ \E p \in Procs, k \in Keys : Get(p, k) \/ DeleteEntry(p, k)
  \/ Expire

CacheSpec == CacheInit /\ [][CacheNext]_cvars
-----------------------------------------------------------------------------
(* Kinds of the variables; of two files there are one was modified first.   *)
CacheTypeOK ==
  /\ path \in [Keys -> Entry \cup {NoFile, Torn}]
  /\ temp \in [Keys -> Entry \cup {NoFile, Torn}]
  /\ older \subseteq Files \X Files
  /\ \A f, g \in Files : <<f, g>> \in older <=> f # g /\ <<g, f>> \notin older
  /\ \A p \in Procs : op[p].at \in {"idle", "write", "rename", "list", "remove"} /\ op[p].fd \in {"temp", "path", "gone"}

(* Whatever two writers did to the file they share, and wherever one died,  *)
(* Get hands out a value that was stored, whole and not expired             *)
(* (cache.go:41, atomic.go:14).                                             *)
HitsAreWhole == \A p \in Procs : got[p].hit => got[p].value \in Values /\ ~got[p].past

(* A Set that met no other Set of its key leaves its whole entry under the  *)
(* key, whatever half-written file an earlier crash left, until the key is  *)
(* set again or its file is removed: by a Delete, a Purge or the GC, or by  *)
(* a Get that read an expired entry before and removes the fresh one for it *)
(* (cache.go:65, cache.go:56).                                              *)
SetIsKept == \A k \in Keys : sole[k] # NoFile => path[k] = sole[k]
=============================================================================
