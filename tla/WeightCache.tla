---------------------------- MODULE WeightCache ----------------------------
(***************************************************************************)
(* internal/wcache: processes that load a checkpoint open its entry of     *)
(* prepared weights, or prepare and publish it.  Every call of the file    *)
(* system is a step (those that only remove or unlock are taken together), *)
(* between any two of which a process or the machine may die.              *)
(*                                                                         *)
(* The entries differ in their keys: all are of one checkpoint and kind,   *)
(* so that they share one lock file and replace each other.  A file is     *)
(* numbered when it is created; it has what the page cache holds of it     *)
(* (fill, mark) and what Sync has put on disk (dfill, dmark).  Other pages *)
(* and changes of names may or may not have reached the disk when the      *)
(* machine dies.                                                           *)
(***************************************************************************)
EXTENDS Naturals, FiniteSets

CONSTANTS Loader,     \* processes that load
          Key,        \* fingerprints the checkpoint has had
          MaxOpens,   \* bound: calls of Open
          MaxDeaths   \* bound: deaths of a process or of the machine

ASSUME CacheAssumption == IsFiniteSet(Loader) /\ Key # {} /\ MaxOpens \in Nat /\ MaxDeaths \in Nat

MaxFiles == MaxOpens  \* files created

VARIABLES
    loader,     \* each process: pc, key, the file or memory it maps, the lock
    file,       \* the files created, by number
    files,      \* how many
    dir,        \* the complete names: the file each key names, or 0
    tmps,       \* the files that have a temporary name
    lockedBy,   \* who has the lock on the lock file: at most one
    opens,      \* calls of Open
    lockFails,  \* whether flock may fail on this file system
    deaths

cacheVars == <<loader, file, files, dir, tmps, lockedBy, opens, lockFails, deaths>>

Fills == {"zero", "whole"}
Blank == [key |-> CHOOSE k \in Key : TRUE, fill |-> "zero", mark |-> FALSE, dfill |-> "zero", dmark |-> FALSE,
          named |-> FALSE]

\* pc: where the process is in Open, Commit or Close.
\* maps: the file mapped, or 0; mem: the contents of anonymous memory.
Fresh(k) == [pc |-> "lock", key |-> k, maps |-> 0, mem |-> "zero"]
Idle == [Fresh(Blank.key) EXCEPT !.pc = "idle"]

At(p, pc) == loader[p].pc = pc
Mapped(p) == loader[p].maps
Publishing(p) == loader[p].pc \in {"sync", "mark", "resync", "rename", "clean", "discard"}

LoaderType ==
    [pc : {"idle", "lock", "again", "fill", "sync", "mark", "resync", "rename", "clean", "remap", "loaded", "discard"},
     key : Key, maps : 0..MaxFiles, mem : Fills]

FileType == [key : Key, fill : Fills, mark : BOOLEAN, dfill : Fills, dmark : BOOLEAN, named : BOOLEAN]

CacheTypeOK ==
    /\ loader \in [Loader -> LoaderType]
    /\ file \in [1..MaxFiles -> FileType]
    /\ \A p \in Loader : Publishing(p) => Mapped(p) # 0
    /\ files \in 0..MaxFiles /\ opens \in 0..MaxOpens
    /\ dir \in [Key -> 0..MaxFiles] /\ tmps \subseteq 1..MaxFiles
    /\ lockedBy \subseteq Loader /\ lockFails \in BOOLEAN /\ deaths \in 0..MaxDeaths

CacheInit ==
    /\ loader = [p \in Loader |-> Idle]
    /\ file = [i \in 1..MaxFiles |-> Blank] /\ files = 0
    /\ dir = [k \in Key |-> 0] /\ tmps = {}
    /\ lockedBy = {} /\ opens = 0 /\ lockFails \in BOOLEAN /\ deaths = 0

Goto(p, pc) == loader' = [loader EXCEPT ![p].pc = pc]

\* openComplete: the entry has its name, its size and its mark.  The size
\* and the magic are right from the moment the file is created.
Complete(k) == dir[k] # 0 /\ file[dir[k]].mark

MapComplete(p) ==
    LET k == loader[p].key
    IN  loader' = [loader EXCEPT ![p].pc = "loaded", ![p].maps = dir[k]]

-----------------------------------------------------------------------------
\* Open.

\* A checkpoint that changed has another key.
Open(p, k) ==
    /\ At(p, "idle") /\ opens < MaxOpens
    /\ opens' = opens + 1
    /\ IF Complete(k)
       THEN loader' = [loader EXCEPT ![p] = [Fresh(k) EXCEPT !.pc = "loaded", !.maps = dir[k]]]
       ELSE loader' = [loader EXCEPT ![p] = Fresh(k)]
    /\ UNCHANGED <<file, files, dir, tmps, lockedBy, deaths, lockFails>>

\* lock waits for the holder; when it fails Open goes on without it.
lock(p) ==
    /\ At(p, "lock")
    /\ \/ lockedBy = {} /\ lockedBy' = {p}
       \/ lockFails /\ UNCHANGED lockedBy
    /\ Goto(p, "again")
    /\ UNCHANGED <<file, files, dir, tmps, deaths, opens, lockFails>>

Unlocked(p) == lockedBy \ {p}

\* The entry may have been prepared while this loader waited.
FoundAgain(p) == Complete(loader[p].key)

OpenAgain(p) ==
    /\ At(p, "again") /\ FoundAgain(p)
    /\ MapComplete(p)
    /\ lockedBy' = Unlocked(p)
    /\ UNCHANGED <<file, files, dir, tmps, deaths, opens, lockFails>>

create(p) ==
    /\ At(p, "again") /\ ~FoundAgain(p)
    /\ LET i == files + 1
       IN  /\ files' = i
           /\ file' = [file EXCEPT ![i] = [Blank EXCEPT !.key = loader[p].key]]
           /\ tmps' = tmps \cup {i}
           /\ loader' = [loader EXCEPT ![p].pc = "fill", ![p].maps = i]
    /\ UNCHANGED <<dir, lockedBy, deaths, opens, lockFails>>

\* No file can be made: anonymous memory, and no lock.
createFails(p) ==
    /\ At(p, "again") /\ ~FoundAgain(p)
    /\ Goto(p, "fill")
    /\ lockedBy' = Unlocked(p)
    /\ UNCHANGED <<file, files, dir, tmps, deaths, opens, lockFails>>

-----------------------------------------------------------------------------
\* The caller fills the payload, then Commit publishes it; or Close discards it.

HasFile(p) == Mapped(p) # 0

\* Commit has nothing to publish of anonymous memory.
Fill(p) ==
    /\ At(p, "fill")
    /\ IF HasFile(p)
       THEN /\ file' = [file EXCEPT ![Mapped(p)].fill = "whole"]
            /\ Goto(p, "sync")
       ELSE /\ loader' = [loader EXCEPT ![p].pc = "loaded", ![p].mem = "whole"]
            /\ UNCHANGED file
    /\ UNCHANGED <<files, dir, tmps, lockedBy, deaths, opens, lockFails>>

\* The caller fails and closes the fresh entry: Close removes the file,
\* then the lock goes.
FillFails(p) ==
    /\ At(p, "fill")
    /\ IF HasFile(p) THEN Goto(p, "discard") ELSE loader' = [loader EXCEPT ![p] = Idle]
    /\ UNCHANGED <<file, files, dir, tmps, lockedBy, deaths, opens, lockFails>>

Discard(p) ==
    /\ At(p, "discard")
    /\ tmps' = tmps \ {Mapped(p)}
    /\ lockedBy' = Unlocked(p)
    /\ loader' = [loader EXCEPT ![p] = Idle]
    /\ UNCHANGED <<file, files, dir, deaths, opens, lockFails>>

BugFlushed(f) == f

\* The file's pages are on disk.
Flushed(f) == [f EXCEPT !.dfill = f.fill, !.dmark = f.mark]

Sync(p, from, to) ==
    /\ At(p, from)
    /\ file' = [file EXCEPT ![Mapped(p)] = Flushed(@)]
    /\ Goto(p, to)
    /\ UNCHANGED <<files, dir, tmps, lockedBy, deaths, opens, lockFails>>

MarkComplete(p) ==
    /\ At(p, "mark")
    /\ file' = [file EXCEPT ![Mapped(p)].mark = TRUE]
    /\ Goto(p, "resync")
    /\ UNCHANGED <<files, dir, tmps, lockedBy, deaths, opens, lockFails>>

\* Another publisher may have removed the temporary name.
Rename(p) ==
    /\ At(p, "rename") /\ Mapped(p) \in tmps
    /\ dir' = [dir EXCEPT ![loader[p].key] = Mapped(p)]
    /\ file' = [file EXCEPT ![Mapped(p)].named = TRUE]
    /\ tmps' = tmps \ {Mapped(p)}
    /\ Goto(p, "clean")
    /\ UNCHANGED <<files, lockedBy, deaths, opens, lockFails>>

\* The entries it replaces go; so do temporary files more than an hour
\* old, which may be those of a loader that is slow.
Clean(p) ==
    /\ At(p, "clean")
    /\ dir' = [k \in Key |-> IF k = loader[p].key THEN dir[k] ELSE 0]
    /\ \E old \in SUBSET tmps : tmps' = tmps \ old
    /\ Goto(p, "remap")
    /\ UNCHANGED <<file, files, lockedBy, deaths, opens, lockFails>>

\* The deferred calls of Commit release the lock on every path.
Released(p) == Unlocked(p)

\* The entry is mapped again read-only, or stays mapped writable when it
\* is gone; Commit returns.
Remap(p) ==
    /\ At(p, "remap")
    /\ loader' = [loader EXCEPT ![p].pc = "loaded",
                                ![p].maps = IF Complete(loader[p].key) THEN dir[loader[p].key] ELSE @]
    /\ lockedBy' = Released(p)
    /\ UNCHANGED <<file, files, dir, tmps, deaths, opens, lockFails>>

\* What a publication that fails leaves of the temporary names.
GiveUp(p) == tmps \ {Mapped(p)}

Copied(p) == file[Mapped(p)].fill

\* A call of publish fails: the bytes are copied to anonymous memory.
PublishFails(p) ==
    /\ loader[p].pc \in {"sync", "resync", "rename"}
    /\ tmps' = GiveUp(p)
    /\ loader' = [loader EXCEPT ![p].pc = "loaded", ![p].maps = 0, ![p].mem = Copied(p)]
    /\ lockedBy' = Released(p)
    /\ UNCHANGED <<file, files, dir, deaths, opens, lockFails>>

\* Close of an entry that is not fresh.
Unmap(p) ==
    /\ At(p, "loaded")
    /\ loader' = [loader EXCEPT ![p] = Idle]
    /\ UNCHANGED <<file, files, dir, tmps, lockedBy, deaths, opens, lockFails>>

-----------------------------------------------------------------------------
\* Processes and machines die.

\* Its lock is released, its files stay.
ProcessDies(p) ==
    /\ deaths < MaxDeaths /\ ~At(p, "idle")
    /\ deaths' = deaths + 1
    /\ loader' = [loader EXCEPT ![p] = Idle]
    /\ lockedBy' = Unlocked(p)
    /\ UNCHANGED <<file, files, dir, tmps, opens, lockFails>>

\* What was not synced may be lost, and a name may be any it ever was.
MachineDies ==
    LET Found(i) == \E k \in Key : dir'[k] = i IN
    /\ deaths < MaxDeaths
    /\ deaths' = deaths + 1
    /\ loader' = [p \in Loader |-> Idle]
    /\ lockedBy' = {}
    /\ dir' \in {d \in [Key -> 0..files] : \A k \in Key : d[k] # 0 => file[d[k]].named /\ file[d[k]].key = k}
    /\ tmps' = {i \in tmps : ~Found(i)}
    /\ \E pages, marks \in SUBSET {i \in 1..files : Found(i)} :
         file' = [i \in 1..MaxFiles |->
                    IF Found(i)
                    THEN [file[i] EXCEPT !.fill = IF i \in pages THEN @ ELSE file[i].dfill,
                                         !.mark = IF i \in marks THEN @ ELSE file[i].dmark]
                    ELSE Blank]
    /\ UNCHANGED <<files, opens, lockFails>>

LoaderStep(p) ==
    \/ lock(p) \/ OpenAgain(p) \/ create(p) \/ createFails(p)
    \/ Fill(p) \/ FillFails(p) \/ Discard(p)
    \/ Sync(p, "sync", "mark") \/ MarkComplete(p) \/ Sync(p, "resync", "rename")
    \/ Rename(p) \/ Clean(p) \/ Remap(p) \/ PublishFails(p)

CacheNext ==
    \/ \E p \in Loader : LoaderStep(p) \/ Unmap(p) \/ ProcessDies(p) \/ \E k \in Key : Open(p, k)
    \/ MachineDies

CacheSpec == CacheInit /\ [][CacheNext]_cacheVars

-----------------------------------------------------------------------------
\* What Open, or Commit, hands out is the whole payload of the key asked
\* for, whoever prepared it and whatever died since: a crash costs another
\* conversion, never wrong weights.
WholeWeights ==
    \A p \in Loader : At(p, "loaded") =>
        IF Mapped(p) = 0 THEN loader[p].mem = "whole"
        ELSE file[Mapped(p)].fill = "whole" /\ file[Mapped(p)].key = loader[p].key

\* What survives the machine: a file that has had its name may be found
\* under it again, so it is on disk before it is renamed.
DurableEntries ==
    \A i \in 1..files : file[i].named => file[i].dfill = "whole" /\ file[i].dmark

Preparing(p) == loader[p].pc \in {"fill", "sync", "mark", "resync", "rename"} /\ Mapped(p) # 0

\* "One loader prepares an entry; others wait for it and map it": with a
\* lock that works no two prepare, and none prepares what is complete.
PreparedOnce ==
    ~lockFails => \A p \in Loader : Preparing(p) =>
        /\ \A q \in Loader : Preparing(q) => q = p
        /\ ~Complete(loader[p].key)

\* Only a death leaves a temporary file: a loader that publishes, fails or
\* discards takes its own along.
NoLitter == deaths = 0 => \A i \in tmps : \E p \in Loader : Mapped(p) = i

\* Nobody waits: every Open and every Commit has returned.
CacheQuiet == \A p \in Loader : loader[p].pc \in {"idle", "loaded"}

\* The cache costs at most a conversion: what it hands out is whole and of
\* its key, what it names survives the machine, and one loader at a time
\* prepares an entry and cleans up after itself.
CacheSafe == CacheTypeOK /\ WholeWeights /\ DurableEntries /\ PreparedOnce /\ NoLitter

=============================================================================
