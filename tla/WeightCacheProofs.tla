------------------------- MODULE WeightCacheProofs -------------------------
(***************************************************************************)
(* Proofs about WeightCache: for any number of loaders, keys, openings and *)
(* deaths, what the cache hands out is whole and of its key, what it names *)
(* survives the machine, and under a lock that works one loader prepares.  *)
(***************************************************************************)
EXTENDS WeightCache, FiniteSetTheorems, TLAPS

\* What is on disk is in the page cache too, and an entry that has had its
\* name is whole in both and no longer temporary.
FileInv ==
    \A i \in 1..files :
        /\ file[i].dfill = "whole" => file[i].fill = "whole"
        /\ file[i].dmark => file[i].mark
        /\ file[i].named => file[i].dfill = "whole" /\ file[i].dmark /\ i \notin tmps

\* A name is that of a published entry of its key.
NamesInv ==
    /\ \A k \in Key : dir[k] # 0 => dir[k] \in 1..files /\ file[dir[k]].named /\ file[dir[k]].key = k
    /\ tmps \subseteq 1..files

\* How far a loader has brought the file it maps.
LoaderInv(p) ==
    LET f == file[Mapped(p)]
        pc == loader[p].pc
    IN  /\ Mapped(p) \in 0..files
        /\ Mapped(p) # 0 => f.key = loader[p].key
        /\ pc \in {"idle", "lock", "again"} => Mapped(p) = 0
        /\ pc \in {"sync", "mark", "resync", "rename", "clean", "remap", "discard"} => Mapped(p) # 0
        /\ pc \in {"sync", "mark", "resync", "rename", "clean", "remap"} => f.fill = "whole"
        /\ pc \in {"mark", "resync", "rename"} => f.dfill = "whole"
        /\ pc \in {"resync", "rename"} => f.mark
        /\ pc = "rename" => f.dmark
        /\ pc \in {"clean", "remap"} => f.named
        /\ pc = "loaded" => IF Mapped(p) = 0 THEN loader[p].mem = "whole" ELSE f.named

\* The loaders that need the lock, where flock works, have it, and
\* what they prepare has no name yet.
Locking(p) ==
    \/ loader[p].pc = "again"
    \/ Mapped(p) # 0 /\ loader[p].pc \in {"fill", "sync", "mark", "resync", "rename", "clean", "remap", "discard"}

LockInv ==
    /\ \A p, q \in lockedBy : p = q
    /\ ~lockFails => \A p \in Loader : Locking(p) => p \in lockedBy
    /\ ~lockFails => \A p \in Loader : Preparing(p) => dir[loader[p].key] = 0

\* An Open creates at most one file: those that may still create one.
Creators == {p \in Loader : loader[p].pc \in {"lock", "again"}}
CountInv == files + Cardinality(Creators) <= opens

IInv ==
    /\ CacheTypeOK
    /\ FileInv
    /\ NamesInv
    /\ \A p \in Loader : LoaderInv(p)
    /\ LockInv
    /\ CountInv
    /\ NoLitter

-----------------------------------------------------------------------------
\* A step of one process.
ProcessStep(p) == LoaderStep(p) \/ Unmap(p) \/ ProcessDies(p) \/ \E k \in Key : Open(p, k)

\* What no process undoes in the files there are.
Grow ==
    /\ files' \in Nat /\ files' >= files
    /\ \A i \in 1..files :
          /\ file'[i].key = file[i].key
          /\ file[i].fill = "whole" => file'[i].fill = "whole"
          /\ file[i].mark => file'[i].mark
          /\ file[i].dfill = "whole" => file'[i].dfill = "whole"
          /\ file[i].dmark => file'[i].dmark
          /\ file[i].named => file'[i].named

\* What the invariant says of types, taken apart.
LEMMA Types ==
    ASSUME IInv
    PROVE  /\ loader \in [Loader -> LoaderType] /\ file \in [1..MaxFiles -> FileType]
           /\ files \in 0..MaxFiles /\ MaxFiles \in Nat /\ MaxFiles = MaxOpens
           /\ dir \in [Key -> 0..MaxFiles] /\ tmps \subseteq 1..MaxFiles
           /\ lockedBy \subseteq Loader /\ lockFails \in BOOLEAN
           /\ opens \in 0..MaxOpens /\ deaths \in 0..MaxDeaths
           /\ 1..files \subseteq 1..MaxFiles
BY CacheAssumption DEF IInv, CacheTypeOK, MaxFiles

\* Nothing of a new file is whole, marked or named.
LEMMA Blanks == Blank.dfill = "zero" /\ Blank.dmark = FALSE /\ Blank.named = FALSE
BY DEF Blank

\* The record of a process that does nothing, and of one that calls Open.
LEMMA Fresher ==
    /\ Blank.key \in Key /\ Blank \in FileType
    /\ Idle \in LoaderType /\ Idle.pc = "idle" /\ Idle.maps = 0
    /\ \A k \in Key : /\ Fresh(k) \in LoaderType
                      /\ Fresh(k).pc = "lock" /\ Fresh(k).maps = 0 /\ Fresh(k).key = k
<1>1. (CHOOSE k \in Key : TRUE) \in Key
  BY CacheAssumption
<1>2. 0 \in 0..MaxFiles
  BY CacheAssumption DEF MaxFiles
<1>3. Blank.key \in Key /\ Blank \in FileType
  BY <1>1 DEF Blank, FileType, Fills
<1>4. \A k \in Key : /\ Fresh(k) \in LoaderType
                     /\ Fresh(k).pc = "lock" /\ Fresh(k).maps = 0 /\ Fresh(k).key = k
  BY <1>2 DEF Fresh, LoaderType, Fills
<1>5. Idle \in LoaderType /\ Idle.pc = "idle" /\ Idle.maps = 0
  BY <1>2, <1>3 DEF Idle, Fresh, LoaderType, Fills
<1> QED
  BY <1>3, <1>4, <1>5

\* A process that may still create a file has room for it.
LEMMA Room ==
    ASSUME IInv, NEW p \in Loader, loader[p].pc \in {"lock", "again"}
    PROVE  files + 1 \in 1..MaxFiles
<1>1. IsFiniteSet(Creators) /\ p \in Creators
  BY CacheAssumption, FS_Subset, Creators \subseteq Loader DEF Creators
<1>2. Cardinality(Creators) \in Nat /\ Cardinality(Creators) # 0
  BY <1>1, FS_CardinalityType, FS_EmptySet
<1> QED
  BY <1>2, Types DEF IInv, CountInv

\* The record of process p after a step.
Becomes(p, pc, key, maps, mem) ==
    /\ loader' \in [Loader -> LoaderType]
    /\ \A q \in Loader \ {p} : loader'[q] = loader[q]
    /\ loader'[p].pc = pc /\ loader'[p].key = key /\ loader'[p].maps = maps /\ loader'[p].mem = mem

Pcs == {"idle", "lock", "again", "fill", "sync", "mark", "resync", "rename", "clean", "remap", "loaded", "discard"}

\* A step that only moves on.
LEMMA Moves ==
    ASSUME IInv, NEW p \in Loader, NEW pc \in Pcs, Goto(p, pc)
    PROVE  Becomes(p, pc, loader[p].key, Mapped(p), loader[p].mem)
<1>1. loader[p] \in LoaderType /\ loader \in [Loader -> LoaderType]
  BY Types
<1>2. [loader[p] EXCEPT !.pc = pc] \in LoaderType
  BY <1>1 DEF LoaderType, Pcs
<1>3. loader' = [loader EXCEPT ![p] = [loader[p] EXCEPT !.pc = pc]]
  BY <1>1 DEF Goto
<1> QED
  BY <1>1, <1>2, <1>3 DEF Becomes, LoaderType, Mapped

\* A step that maps files, or unmaps them.
LEMMA Maps ==
    ASSUME IInv, NEW p \in Loader, NEW pc \in Pcs, NEW maps \in 0..MaxFiles,
           loader' = [loader EXCEPT ![p].pc = pc, ![p].maps = maps]
    PROVE  Becomes(p, pc, loader[p].key, maps, loader[p].mem)
<1>1. loader[p] \in LoaderType /\ loader \in [Loader -> LoaderType]
  BY Types
<1>2. [loader[p] EXCEPT !.pc = pc, !.maps = maps] \in LoaderType
  BY <1>1 DEF LoaderType, Pcs
<1>3. loader' = [loader EXCEPT ![p] = [loader[p] EXCEPT !.pc = pc, !.maps = maps]]
  BY <1>1
<1> QED
  BY <1>1, <1>2, <1>3 DEF Becomes, LoaderType

\* A step that also changes what the process holds in memory.
LEMMA Remembers ==
    ASSUME IInv, NEW p \in Loader, NEW pc \in Pcs, NEW maps \in 0..MaxFiles, NEW mem \in Fills,
           loader' = [loader EXCEPT ![p].pc = pc, ![p].maps = maps, ![p].mem = mem]
    PROVE  Becomes(p, pc, loader[p].key, maps, mem)
<1>1. loader[p] \in LoaderType /\ loader \in [Loader -> LoaderType]
  BY Types
<1>2. [loader[p] EXCEPT !.pc = pc, !.maps = maps, !.mem = mem] \in LoaderType
  BY <1>1 DEF LoaderType, Pcs
<1>3. loader' = [loader EXCEPT ![p] = [loader[p] EXCEPT !.pc = pc, !.maps = maps, !.mem = mem]]
  BY <1>1
<1> QED
  BY <1>1, <1>2, <1>3 DEF Becomes, LoaderType

\* The process is done, or crashes, and begins anew.
LEMMA Idles ==
    ASSUME IInv, NEW p \in Loader, loader' = [loader EXCEPT ![p] = Idle]
    PROVE  Becomes(p, "idle", Idle.key, 0, Idle.mem)
BY Types, Fresher DEF Becomes

\* What a step of p may do to the lock and to the names.
LockStep(p) ==
    /\ lockFails' = lockFails
    /\ \/ lockedBy' = lockedBy
       \/ lockedBy' = lockedBy \ {p}
       \/ lockedBy = {} /\ lockedBy' = {p}
    /\ ~lockFails /\ Locking(p)' => p \in lockedBy'
    /\ \A k \in Key : dir'[k] # 0 => dir[k] # 0 \/ Locking(p)
    /\ ~lockFails /\ Preparing(p)' => dir'[loader'[p].key] = 0

\* The invariant after a step of p follows from what the step does.
LEMMA Finish ==
    ASSUME IInv, NEW p \in Loader,
           loader' \in [Loader -> LoaderType], \A q \in Loader \ {p} : loader'[q] = loader[q],
           file' \in [1..MaxFiles -> FileType], Grow, files' \in 0..MaxFiles, dir' \in [Key -> 0..MaxFiles],
           opens' \in 0..MaxOpens, deaths' \in 0..MaxDeaths,
           FileInv', NamesInv', LoaderInv(p)', LockStep(p), CountInv', NoLitter'
    PROVE  IInv'
<1>1. \A q \in Loader : LoaderInv(q)'
  <2>1. ASSUME NEW q \in Loader \ {p} PROVE LoaderInv(q)'
    <3>1. LoaderInv(q) /\ loader'[q] = loader[q]
      BY DEF IInv
    <3>2. files \in Nat /\ files' \in Nat /\ files' >= files
      BY Types DEF Grow
    <3> QED
      BY <3>1, <3>2, SMTT(20) DEF LoaderInv, Mapped, Grow
  <2> QED
    BY <2>1
<1>2. LockInv'
  <2>1. \A q \in Loader \ {p} : Locking(q)' = Locking(q) /\ Preparing(q)' = Preparing(q)
    BY DEF Locking, Preparing, Mapped
  <2>2. \A q, r \in lockedBy' : q = r
    BY DEF IInv, LockInv, LockStep
  <2>3. ~lockFails => \A q \in Loader : Locking(q)' => q \in lockedBy'
    BY <2>1 DEF IInv, LockInv, LockStep
  <2>4. ASSUME ~lockFails, NEW q \in Loader, Preparing(q)' PROVE dir'[loader'[q].key] = 0
    <3>1. CASE q = p
      BY <2>4, <3>1 DEF LockStep
    <3>2. CASE q # p
      <4>1. Preparing(q) /\ loader'[q] = loader[q] /\ dir[loader[q].key] = 0 /\ loader[q].key \in Key
        BY <2>1, <2>4, <3>2, Types DEF IInv, LockInv, LoaderType
      <4>2. Locking(q)
        BY <4>1 DEF Preparing, Locking
      <4>3. ~Locking(p)
        BY <2>4, <3>2, <4>2 DEF IInv, LockInv
      <4> QED
        BY <4>1, <4>3 DEF LockStep
    <3> QED
      BY <3>1, <3>2
  <2> QED
    BY <2>2, <2>3, <2>4 DEF LockInv, LockStep
<1>3. CacheTypeOK'
  <2>1. lockedBy' \subseteq Loader /\ lockFails' \in BOOLEAN
    BY Types DEF LockStep
  <2>2. tmps' \subseteq 1..MaxFiles
    BY Types DEF NamesInv
  <2>3. \A q \in Loader : Publishing(q)' => Mapped(q)' # 0
    BY <1>1 DEF LoaderInv, Publishing
  <2> QED
    BY <2>1, <2>2, <2>3 DEF CacheTypeOK
<1> QED
  BY <1>1, <1>2, <1>3 DEF IInv

\* No process creates a file: the count is right when none calls Open.
LEMMA CountSame ==
    ASSUME IInv, NEW p \in Loader, \A q \in Loader \ {p} : loader'[q] = loader[q],
           loader'[p].pc \in {"lock", "again"} => loader[p].pc \in {"lock", "again"},
           files' = files, opens' = opens
    PROVE  CountInv'
<1>1. Creators' \subseteq Creators
  BY DEF Creators
<1>2. IsFiniteSet(Creators) /\ IsFiniteSet(Creators')
  BY CacheAssumption, FS_Subset, Creators \subseteq Loader, Creators' \subseteq Loader DEF Creators
<1>3. Cardinality(Creators') <= Cardinality(Creators) /\ Cardinality(Creators) \in Nat /\ Cardinality(Creators') \in Nat
  BY <1>1, <1>2, FS_Subset, FS_CardinalityType
<1>4. Cardinality(Creators)' = Cardinality(Creators')
  OBVIOUS
<1> QED
  BY <1>3, <1>4, Types DEF IInv, CountInv

\* A step of p that leaves every file and every name as it is.
LEMMA NoFileStep ==
    ASSUME IInv, NEW p \in Loader, NEW pc, NEW key, NEW maps, NEW mem, Becomes(p, pc, key, maps, mem),
           UNCHANGED <<file, files, dir, tmps>>,
           opens' \in 0..MaxOpens, deaths' \in 0..MaxDeaths,
           deaths' = 0 => deaths = 0,
           deaths' = 0 /\ Mapped(p) \in tmps => maps = Mapped(p),
           LoaderInv(p)', LockStep(p), CountInv'
    PROVE  IInv'
<1>1. Grow
  BY Types DEF Grow
<1>2. FileInv' /\ NamesInv'
  BY DEF IInv, FileInv, NamesInv
<1>3. NoLitter'
  <2>1. SUFFICES ASSUME deaths' = 0, NEW i \in tmps PROVE \E q \in Loader : loader'[q].maps = i
    BY DEF NoLitter, Mapped
  <2>2. PICK q \in Loader : Mapped(q) = i
    BY <2>1 DEF IInv, NoLitter
  <2> QED
    BY <2>1, <2>2 DEF Becomes, Mapped
<1> QED
  BY <1>1, <1>2, <1>3, Finish, Types DEF Becomes

-----------------------------------------------------------------------------
\* Open finds the complete entry, or goes to wait for the lock.
LEMMA OpenStep ==
    ASSUME IInv, NEW p \in Loader, NEW k \in Key, Open(p, k)
    PROVE  IInv'
<1>1. loader[p].pc = "idle" /\ Mapped(p) = 0 /\ opens + 1 \in 0..MaxOpens /\ opens' = opens + 1
  BY Types DEF Open, At, IInv, LoaderInv
<1>2. UNCHANGED <<file, files, dir, tmps, lockedBy, deaths, lockFails>>
  BY DEF Open
<1>3. CountInv'
  <2>1. \A q \in Loader \ {p} : loader'[q] = loader[q]
    BY Types DEF Open
  <2>2. Creators' \subseteq Creators \cup {p}
    BY <2>1 DEF Creators
  <2>3. IsFiniteSet(Creators) /\ IsFiniteSet(Creators \cup {p}) /\ Cardinality(Creators \cup {p}) <= Cardinality(Creators) + 1
    <3>1. IsFiniteSet(Creators)
      BY CacheAssumption, FS_Subset, Creators \subseteq Loader DEF Creators
    <3>2. /\ IsFiniteSet(Creators \cup {p}) /\ Cardinality(Creators) \in Nat
          /\ Cardinality(Creators \cup {p}) = IF p \in Creators THEN Cardinality(Creators) ELSE Cardinality(Creators) + 1
      BY <3>1, FS_AddElement, FS_CardinalityType
    <3> QED
      BY <3>1, <3>2
  <2>4. Cardinality(Creators') <= Cardinality(Creators \cup {p}) /\ IsFiniteSet(Creators')
    BY <2>2, <2>3, FS_Subset
  <2>5. Cardinality(Creators') \in Nat /\ Cardinality(Creators) \in Nat /\ Cardinality(Creators \cup {p}) \in Nat
    BY <2>3, <2>4, FS_CardinalityType
  <2> QED
    BY <1>1, <1>2, <2>3, <2>4, <2>5, Types, SMTT(20) DEF IInv, CountInv
<1>4. CASE Complete(k)
  <2>1. dir[k] \in 1..files /\ file[dir[k]].named /\ file[dir[k]].key = k
    BY <1>4 DEF Complete, IInv, NamesInv
  <2>2. [Fresh(k) EXCEPT !.pc = "loaded", !.maps = dir[k]] \in LoaderType
    <3>1. Fresh(k) \in LoaderType /\ dir[k] \in 0..MaxFiles
      BY Fresher, Types
    <3> QED
      BY <3>1 DEF LoaderType
  <2>3. loader' = [loader EXCEPT ![p] = [Fresh(k) EXCEPT !.pc = "loaded", !.maps = dir[k]]]
    BY <1>4 DEF Open
  <2>4. Becomes(p, "loaded", k, dir[k], Fresh(k).mem)
    BY <2>2, <2>3, Types, Fresher DEF Becomes, LoaderType
  <2>5. LoaderInv(p)'
    BY <1>2, <2>1, <2>4, Types DEF LoaderInv, Becomes, Mapped
  <2>6. LockStep(p)
    BY <1>2, <2>4 DEF LockStep, Locking, Preparing, Becomes
  <2> QED
    BY <1>1, <1>2, <1>3, <2>4, <2>5, <2>6, NoFileStep, Types DEF IInv, NamesInv
<1>5. CASE ~Complete(k)
  <2>1. Becomes(p, "lock", k, 0, Fresh(k).mem)
    BY <1>5, Types, Fresher DEF Open, Becomes
  <2>2. LoaderInv(p)' /\ LockStep(p)
    BY <1>2, <2>1, Types DEF LoaderInv, LockStep, Locking, Preparing, Becomes, Mapped
  <2> QED
    BY <1>1, <1>2, <1>3, <2>1, <2>2, NoFileStep, Types
<1> QED
  BY <1>4, <1>5

\* lock, with or without the file system's help.
LEMMA LockWaits ==
    ASSUME IInv, NEW p \in Loader, lock(p)
    PROVE  IInv'
<1>1. UNCHANGED <<file, files, dir, tmps, deaths, opens, lockFails>> /\ loader[p].pc = "lock" /\ Mapped(p) = 0
  BY DEF lock, At, IInv, LoaderInv
<1>2. Becomes(p, "again", loader[p].key, 0, loader[p].mem)
  BY <1>1, Moves DEF lock, Pcs
<1>3. LoaderInv(p)'
  BY <1>1, <1>2, Types DEF LoaderInv, Becomes, Mapped
<1>4. LockStep(p)
  BY <1>1, <1>2 DEF lock, LockStep, Preparing, Becomes
<1>5. CountInv'
  BY <1>1, <1>2, CountSame DEF Becomes
<1> QED
  BY <1>1, <1>2, <1>3, <1>4, <1>5, NoFileStep, Types

\* The entry is there by now.
LEMMA OpenAgainStep ==
    ASSUME IInv, NEW p \in Loader, OpenAgain(p)
    PROVE  IInv'
<1>1. /\ UNCHANGED <<file, files, dir, tmps, deaths, opens, lockFails>> /\ loader[p].pc = "again" /\ Mapped(p) = 0
      /\ lockedBy' = lockedBy \ {p}
  BY DEF OpenAgain, At, IInv, LoaderInv, Unlocked
<1>2. loader[p].key \in Key
  BY Types DEF LoaderType
<1>3. dir[loader[p].key] \in 1..files /\ file[dir[loader[p].key]].named /\ file[dir[loader[p].key]].key = loader[p].key
  BY <1>2 DEF OpenAgain, FoundAgain, Complete, IInv, NamesInv
<1>4. Becomes(p, "loaded", loader[p].key, dir[loader[p].key], loader[p].mem)
  BY <1>2, Types, Maps DEF OpenAgain, MapComplete, Pcs
<1>5. LoaderInv(p)'
  BY <1>1, <1>3, <1>4, Types DEF LoaderInv, Becomes, Mapped
<1>6. LockStep(p)
  BY <1>1, <1>4 DEF LockStep, Locking, Preparing, Becomes
<1>7. CountInv'
  BY <1>1, <1>4, CountSame DEF Becomes
<1> QED
  BY <1>1, <1>4, <1>5, <1>6, <1>7, NoFileStep, Types DEF IInv, NamesInv

\* Anonymous memory when no file can be made.
LEMMA CreateFailsStep ==
    ASSUME IInv, NEW p \in Loader, createFails(p)
    PROVE  IInv'
<1>1. /\ UNCHANGED <<file, files, dir, tmps, deaths, opens, lockFails>> /\ loader[p].pc = "again" /\ Mapped(p) = 0
      /\ lockedBy' = lockedBy \ {p}
  BY DEF createFails, At, IInv, LoaderInv, Unlocked
<1>2. Becomes(p, "fill", loader[p].key, 0, loader[p].mem)
  BY <1>1, Moves DEF createFails, Pcs
<1>3. LoaderInv(p)' /\ LockStep(p)
  BY <1>1, <1>2, Types DEF LoaderInv, LockStep, Locking, Preparing, Becomes, Mapped
<1>4. CountInv'
  BY <1>1, <1>2, CountSame DEF Becomes
<1> QED
  BY <1>1, <1>2, <1>3, <1>4, NoFileStep, Types

\* A caller that fails closes the entry; one that is done unmaps it; a
\* process that dies has nothing.
LEMMA LeaveStep ==
    ASSUME IInv, NEW p \in Loader, FillFails(p) \/ Unmap(p) \/ ProcessDies(p)
    PROVE  IInv'
<1>1. UNCHANGED <<file, files, dir, tmps, opens, lockFails>>
  BY DEF FillFails, Unmap, ProcessDies
<1>2. CASE FillFails(p) /\ HasFile(p)
  <2>1. loader[p].pc = "fill" /\ Mapped(p) # 0 /\ UNCHANGED <<lockedBy, deaths>>
    BY <1>2 DEF FillFails, HasFile, At
  <2>2. Becomes(p, "discard", loader[p].key, Mapped(p), loader[p].mem)
    BY <1>2, Moves DEF FillFails, Pcs
  <2>3. LoaderInv(p)'
    BY <1>1, <2>1, <2>2 DEF IInv, LoaderInv, Becomes, Mapped
  <2>4. LockStep(p)
    BY <1>1, <2>1, <2>2 DEF IInv, LockInv, LockStep, Locking, Preparing, Becomes, Mapped
  <2>5. CountInv'
    BY <1>1, <2>2, CountSame DEF Becomes
  <2> QED
    BY <1>1, <2>1, <2>2, <2>3, <2>4, <2>5, NoFileStep, Types
<1>3. CASE ~(FillFails(p) /\ HasFile(p))
  <2>1. loader' = [loader EXCEPT ![p] = Idle] /\ (lockedBy' = lockedBy \/ lockedBy' = lockedBy \ {p})
    BY <1>3 DEF FillFails, Unmap, ProcessDies, Unlocked
  <2>2. Becomes(p, "idle", Idle.key, 0, Idle.mem)
    BY <2>1, Idles
  <2>3. LoaderInv(p)' /\ LockStep(p)
    BY <1>1, <2>1, <2>2, Types DEF LoaderInv, LockStep, Locking, Preparing, Becomes, Mapped
  <2>4. CountInv'
    BY <1>1, <2>2, CountSame DEF Becomes
  <2>5. deaths' \in 0..MaxDeaths /\ (deaths' = 0 => deaths = 0)
    <3>1. deaths' = deaths \/ (deaths < MaxDeaths /\ deaths' = deaths + 1)
      BY DEF FillFails, Unmap, ProcessDies
    <3> QED
      BY <3>1, Types, CacheAssumption
  <2>6. deaths' = 0 /\ Mapped(p) \in tmps => Mapped(p) = 0
    <3>1. CASE ProcessDies(p)
      BY <3>1, Types DEF ProcessDies
    <3>2. CASE Unmap(p)
      <4>1. Mapped(p) # 0 => file[Mapped(p)].named /\ Mapped(p) \in 1..files
        BY <3>2, Types DEF Unmap, At, IInv, LoaderInv
      <4> QED
        BY <4>1 DEF IInv, FileInv
    <3>3. CASE FillFails(p)
      BY <1>3, <3>3 DEF HasFile
    <3> QED
      BY <3>1, <3>2, <3>3
  <2> QED
    BY <1>1, <2>2, <2>3, <2>4, <2>5, <2>6, NoFileStep, Types
<1> QED
  BY <1>2, <1>3

\* Commit has published: it maps what the name leads to, if it does.
LEMMA RemapStep ==
    ASSUME IInv, NEW p \in Loader, Remap(p)
    PROVE  IInv'
<1>1. /\ UNCHANGED <<file, files, dir, tmps, deaths, opens, lockFails>> /\ loader[p].pc = "remap"
      /\ lockedBy' = lockedBy \ {p}
  BY DEF Remap, At, Released, Unlocked
<1>2. loader[p].key \in Key
  BY Types DEF LoaderType
<1>3. Mapped(p) \in 1..files /\ file[Mapped(p)].named /\ file[Mapped(p)].key = loader[p].key
  BY <1>1, Types DEF IInv, LoaderInv
<1> DEFINE m == IF Complete(loader[p].key) THEN dir[loader[p].key] ELSE Mapped(p)
<1>4. m \in 1..files /\ file[m].named /\ file[m].key = loader[p].key
  BY <1>2, <1>3 DEF Complete, IInv, NamesInv
<1>5. loader' = [loader EXCEPT ![p].pc = "loaded", ![p].maps = m]
  BY Types DEF Remap, Mapped
<1>6. m \in 0..MaxFiles
  BY <1>4, Types
<1> HIDE DEF m
<1>7. Becomes(p, "loaded", loader[p].key, m, loader[p].mem)
  BY <1>5, <1>6, Maps DEF Pcs
<1>8. LoaderInv(p)'
  BY <1>1, <1>4, <1>7, Types DEF LoaderInv, Becomes, Mapped
<1>9. LockStep(p)
  BY <1>1, <1>7 DEF LockStep, Locking, Preparing, Becomes
<1>10. CountInv'
  BY <1>1, <1>7, CountSame DEF Becomes
<1>11. Mapped(p) \notin tmps
  BY <1>3 DEF IInv, FileInv
<1> QED
  BY <1>1, <1>7, <1>8, <1>9, <1>10, <1>11, NoFileStep, Types

-----------------------------------------------------------------------------
\* The caller or Commit changes the file it maps, and goes on.
LEMMA OwnFileStep ==
    ASSUME IInv, NEW p \in Loader, Mapped(p) # 0, NEW pc \in {"sync", "mark", "resync", "rename"},
           Locking(p), Preparing(p),
           Becomes(p, pc, loader[p].key, Mapped(p), loader[p].mem),
           NEW g \in FileType, file' = [file EXCEPT ![Mapped(p)] = g],
           g.key = file[Mapped(p)].key, g.named = file[Mapped(p)].named,
           file[Mapped(p)].fill = "whole" => g.fill = "whole",
           file[Mapped(p)].mark => g.mark,
           file[Mapped(p)].dfill = "whole" => g.dfill = "whole",
           file[Mapped(p)].dmark => g.dmark,
           g.dfill = "whole" => g.fill = "whole",
           g.dmark => g.mark,
           pc \in {"sync", "mark", "resync", "rename"} => g.fill = "whole",
           pc \in {"mark", "resync", "rename"} => g.dfill = "whole",
           pc \in {"resync", "rename"} => g.mark,
           pc = "rename" => g.dmark,
           UNCHANGED <<files, dir, tmps, lockedBy, deaths, opens, lockFails>>
    PROVE  IInv'
<1>1. Mapped(p) \in 1..files /\ Mapped(p) \in 1..MaxFiles /\ file[Mapped(p)].key = loader[p].key
  BY Types DEF IInv, LoaderInv
<1>2. file' \in [1..MaxFiles -> FileType] /\ file'[Mapped(p)] = g /\ \A i \in 1..MaxFiles \ {Mapped(p)} : file'[i] = file[i]
  BY <1>1, Types
<1>3. Grow
  BY <1>1, <1>2, Types DEF Grow
<1>4. FileInv'
  BY <1>1, <1>2, Types DEF IInv, FileInv
<1>5. NamesInv'
  BY <1>1, <1>2, Types DEF IInv, NamesInv
<1>6. LoaderInv(p)'
  BY <1>1, <1>2 DEF LoaderInv, Becomes, Mapped, Pcs
<1>7. LockStep(p)
  BY DEF IInv, LockInv, LockStep, Locking, Preparing, Becomes
<1>8. CountInv'
  BY CountSame DEF Becomes
<1>9. NoLitter'
  <2>1. \A q \in Loader : Mapped(q)' = Mapped(q)
    BY DEF Becomes, Mapped
  <2> QED
    BY <2>1 DEF IInv, NoLitter
<1> QED
  BY <1>2, <1>3, <1>4, <1>5, <1>6, <1>7, <1>8, <1>9, Finish, Types DEF Becomes

\* The caller fills the payload, in the file or in memory.
LEMMA FillStep ==
    ASSUME IInv, NEW p \in Loader, Fill(p)
    PROVE  IInv'
<1>1. UNCHANGED <<files, dir, tmps, lockedBy, deaths, opens, lockFails>> /\ loader[p].pc = "fill"
  BY DEF Fill, At
<1>2. CASE HasFile(p)
  <2>1. Mapped(p) \in 1..MaxFiles /\ file[Mapped(p)] \in FileType /\ Mapped(p) # 0
    BY <1>2, Types DEF IInv, LoaderInv, HasFile
  <2> DEFINE g == [file[Mapped(p)] EXCEPT !.fill = "whole"]
  <2>2. /\ g \in FileType /\ g.fill = "whole" /\ g.key = file[Mapped(p)].key /\ g.mark = file[Mapped(p)].mark
        /\ g.dfill = file[Mapped(p)].dfill /\ g.dmark = file[Mapped(p)].dmark /\ g.named = file[Mapped(p)].named
    BY <2>1 DEF FileType, Fills
  <2>3. file' = [file EXCEPT ![Mapped(p)] = g] /\ Goto(p, "sync")
    BY <1>2, <2>1, Types DEF Fill
  <2>4. Becomes(p, "sync", loader[p].key, Mapped(p), loader[p].mem)
    BY <2>3, Moves DEF Pcs
  <2>5. Locking(p) /\ Preparing(p)
    BY <1>1, <2>1 DEF Locking, Preparing
  <2>6. g.dmark => g.mark
    BY <2>1, <2>2, Types DEF IInv, FileInv, LoaderInv
  <2> HIDE DEF g
  <2> QED
    BY <1>1, <2>1, <2>2, <2>3, <2>4, <2>5, <2>6, OwnFileStep
<1>3. CASE ~HasFile(p)
  <2>1. Mapped(p) = 0 /\ file' = file
    BY <1>3 DEF HasFile, Fill
  <2>2. Becomes(p, "loaded", loader[p].key, 0, "whole")
    <3>1. loader' = [loader EXCEPT ![p].pc = "loaded", ![p].mem = "whole"] /\ loader \in [Loader -> LoaderType]
      BY <1>3, Types DEF Fill
    <3>2. loader' = [loader EXCEPT ![p].pc = "loaded", ![p].maps = 0, ![p].mem = "whole"]
      BY <2>1, <3>1 DEF Mapped, LoaderType
    <3>3. 0 \in 0..MaxFiles
      BY Types
    <3> QED
      BY <3>2, <3>3, Remembers DEF Pcs, Fills
  <2>3. LoaderInv(p)' /\ LockStep(p)
    BY <1>1, <2>1, <2>2, Types DEF LoaderInv, LockStep, Locking, Preparing, Becomes, Mapped
  <2>4. CountInv'
    BY <1>1, <2>2, CountSame DEF Becomes
  <2> QED
    BY <1>1, <2>1, <2>2, <2>3, <2>4, NoFileStep, Types
<1> QED
  BY <1>2, <1>3

\* publish syncs the payload, marks it complete and syncs the mark.
LEMMA SyncStep ==
    ASSUME IInv, NEW p \in Loader, Sync(p, "sync", "mark") \/ MarkComplete(p) \/ Sync(p, "resync", "rename")
    PROVE  IInv'
<1>1. UNCHANGED <<files, dir, tmps, lockedBy, deaths, opens, lockFails>> /\ loader[p].pc \in {"sync", "mark", "resync"}
  BY DEF Sync, MarkComplete, At
<1>2. /\ Mapped(p) \in 1..MaxFiles /\ Mapped(p) \in 1..files /\ file[Mapped(p)] \in FileType /\ Mapped(p) # 0
      /\ file[Mapped(p)].fill = "whole"
  BY <1>1, Types DEF IInv, LoaderInv
<1>3. Locking(p) /\ Preparing(p)
  BY <1>1, <1>2 DEF Locking, Preparing
<1>4. CASE Sync(p, "sync", "mark") \/ Sync(p, "resync", "rename")
  <2> DEFINE g == Flushed(file[Mapped(p)])
  <2>1. /\ g \in FileType /\ g.fill = "whole" /\ g.dfill = "whole" /\ g.key = file[Mapped(p)].key
        /\ g.mark = file[Mapped(p)].mark /\ g.dmark = file[Mapped(p)].mark /\ g.named = file[Mapped(p)].named
    BY <1>2 DEF FileType, Fills, Flushed
  <2>2. file' = [file EXCEPT ![Mapped(p)] = g]
    BY <1>2, <1>4, Types DEF Sync
  <2>3. file[Mapped(p)].dmark => file[Mapped(p)].mark
    BY <1>2 DEF IInv, FileInv
  <2> HIDE DEF g
  <2>4. CASE Sync(p, "sync", "mark")
    <3>1. Becomes(p, "mark", loader[p].key, Mapped(p), loader[p].mem)
      BY <2>4, Moves DEF Sync, Pcs
    <3> QED
      BY <1>1, <1>2, <1>3, <2>1, <2>2, <2>3, <3>1, OwnFileStep
  <2>5. CASE Sync(p, "resync", "rename")
    <3>1. Becomes(p, "rename", loader[p].key, Mapped(p), loader[p].mem)
      BY <2>5, Moves DEF Sync, Pcs
    <3>2. file[Mapped(p)].mark
      BY <2>5 DEF Sync, At, IInv, LoaderInv
    <3> QED
      BY <1>1, <1>2, <1>3, <2>1, <2>2, <2>3, <3>1, <3>2, OwnFileStep
  <2> QED
    BY <1>4, <2>4, <2>5
<1>5. CASE MarkComplete(p)
  <2> DEFINE g == [file[Mapped(p)] EXCEPT !.mark = TRUE]
  <2>1. /\ g \in FileType /\ g.fill = "whole" /\ g.dfill = file[Mapped(p)].dfill /\ g.key = file[Mapped(p)].key
        /\ g.mark /\ g.dmark = file[Mapped(p)].dmark /\ g.named = file[Mapped(p)].named
    BY <1>2 DEF FileType
  <2>2. file' = [file EXCEPT ![Mapped(p)] = g]
    BY <1>2, <1>5, Types DEF MarkComplete
  <2>3. file[Mapped(p)].dfill = "whole"
    BY <1>5 DEF MarkComplete, At, IInv, LoaderInv
  <2>4. Becomes(p, "resync", loader[p].key, Mapped(p), loader[p].mem)
    BY <1>5, Moves DEF MarkComplete, Pcs
  <2> HIDE DEF g
  <2> QED
    BY <1>1, <1>2, <1>3, <2>1, <2>2, <2>3, <2>4, OwnFileStep
<1> QED
  BY <1>4, <1>5

\* create makes a file that no name and no loader knows.
LEMMA CreateStep ==
    ASSUME IInv, NEW p \in Loader, create(p)
    PROVE  IInv'
<1> DEFINE i == files + 1
           g == [Blank EXCEPT !.key = loader[p].key]
<1>1. /\ loader[p].pc = "again" /\ Mapped(p) = 0 /\ ~Complete(loader[p].key) /\ loader[p].key \in Key
      /\ files' = i /\ file' = [file EXCEPT ![i] = g] /\ tmps' = tmps \cup {i}
      /\ UNCHANGED <<dir, lockedBy, deaths, opens, lockFails>>
  BY Types DEF create, FoundAgain, At, IInv, LoaderInv, LoaderType
<1>2. i \in 1..MaxFiles /\ files \in Nat /\ i \notin 1..files /\ 1..i = 1..files \cup {i}
  BY <1>1, Room, Types
<1>3. g \in FileType /\ g.key = loader[p].key /\ g.dfill = "zero" /\ g.dmark = FALSE /\ g.named = FALSE
  <2>1. Blank \in FileType /\ Blank.dfill = "zero" /\ Blank.dmark = FALSE /\ Blank.named = FALSE
    BY Fresher DEF Blank
  <2> QED
    BY <1>1, <2>1 DEF FileType
<1>4. file' \in [1..MaxFiles -> FileType] /\ file'[i] = g /\ \A j \in 1..files : file'[j] = file[j]
  BY <1>1, <1>2, <1>3, Types
<1>5. Becomes(p, "fill", loader[p].key, i, loader[p].mem)
  <2>1. loader' = [loader EXCEPT ![p].pc = "fill", ![p].maps = i]
    BY DEF create
  <2>2. i \in 0..MaxFiles
    BY <1>2
  <2> QED
    BY <2>1, <2>2, Maps DEF Pcs
<1>6. files' \in 0..MaxFiles
  BY <1>1, <1>2
<1> HIDE DEF i, g
<1>7. Grow
  <2>1. files' \in Nat /\ files' >= files
    BY <1>1, <1>2 DEF i
  <2> QED
    BY <1>4, <2>1 DEF Grow
<1>8. FileInv'
  <2>1. ASSUME NEW j \in 1..files
        PROVE  /\ file'[j].dfill = "whole" => file'[j].fill = "whole"
               /\ file'[j].dmark => file'[j].mark
               /\ file'[j].named => file'[j].dfill = "whole" /\ file'[j].dmark /\ j \notin tmps'
    <3>1. j # i /\ file'[j] = file[j]
      BY <1>2, <1>4
    <3> QED
      BY <1>1, <3>1 DEF IInv, FileInv
  <2>2. /\ file'[i].dfill # "whole" /\ ~file'[i].dmark /\ ~file'[i].named
    BY <1>3, <1>4
  <2>3. 1..files' = 1..files \cup {i}
    BY <1>1, <1>2
  <2> QED
    BY <2>1, <2>2, <2>3 DEF FileInv
<1>9. NamesInv'
  <2>1. 1..files' = 1..files \cup {i}
    BY <1>1, <1>2
  <2>2. tmps' \subseteq 1..files'
    BY <1>1, <2>1 DEF IInv, NamesInv
  <2>3. ASSUME NEW k \in Key, dir'[k] # 0
        PROVE  dir'[k] \in 1..files' /\ file'[dir'[k]].named /\ file'[dir'[k]].key = k
    BY <1>1, <1>4, <2>1, <2>3 DEF IInv, NamesInv
  <2> QED
    BY <2>2, <2>3 DEF NamesInv
<1>10. LoaderInv(p)'
  BY <1>1, <1>2, <1>3, <1>4, <1>5 DEF LoaderInv, Becomes, Mapped
<1>11. LockStep(p)
  <2>1. dir[loader[p].key] = 0
    <3>1. dir[loader[p].key] # 0 => file[dir[loader[p].key]].mark
      BY <1>1 DEF IInv, NamesInv, FileInv
    <3> QED
      BY <1>1, <3>1 DEF Complete
  <2>2. ~lockFails => p \in lockedBy
    BY <1>1 DEF IInv, LockInv, Locking
  <2> QED
    BY <1>1, <1>5, <2>1, <2>2 DEF LockStep, Becomes
<1>12. CountInv'
  <2>1. Creators' = Creators \ {p} /\ p \in Creators
    BY <1>1, <1>5 DEF Creators, Becomes
  <2>2. IsFiniteSet(Creators)
    BY CacheAssumption, FS_Subset, Creators \subseteq Loader DEF Creators
  <2>3. Cardinality(Creators \ {p}) = Cardinality(Creators) - 1 /\ Cardinality(Creators) \in Nat
    BY <2>1, <2>2, FS_RemoveElement, FS_CardinalityType
  <2>4. Cardinality(Creators)' = Cardinality(Creators) - 1
    BY <2>1, <2>3
  <2> QED
    BY <1>1, <2>3, <2>4, Types DEF IInv, CountInv, i
<1>13. NoLitter'
  <2>1. \A q \in Loader \ {p} : Mapped(q)' = Mapped(q)
    BY <1>5 DEF Becomes, Mapped
  <2>2. Mapped(p)' = i
    BY <1>5 DEF Becomes, Mapped
  <2>3. 0 \notin tmps
    BY Types
  <2> QED
    BY <1>1, <2>1, <2>2, <2>3 DEF IInv, NoLitter
<1> QED
  BY <1>1, <1>4, <1>5, <1>6, <1>7, <1>8, <1>9, <1>10, <1>11, <1>12, <1>13, Finish, Types DEF Becomes

\* rename gives the entry its name and takes the temporary one away.
LEMMA RenameStep ==
    ASSUME IInv, NEW p \in Loader, Rename(p)
    PROVE  IInv'
<1> DEFINE m == Mapped(p)
           g == [file[m] EXCEPT !.named = TRUE]
           k == loader[p].key
<1>1. /\ loader[p].pc = "rename" /\ k \in Key /\ dir' = [dir EXCEPT ![k] = m] /\ tmps' = tmps \ {m}
      /\ UNCHANGED <<files, lockedBy, deaths, opens, lockFails>>
  BY Types DEF Rename, At, LoaderType
<1>2. /\ m \in 1..files /\ m \in 1..MaxFiles /\ file[m] \in FileType /\ file[m].key = k
      /\ file[m].fill = "whole" /\ file[m].dfill = "whole" /\ file[m].mark /\ file[m].dmark
  BY <1>1, Types DEF IInv, LoaderInv
<1>3. /\ g \in FileType /\ g.named /\ g.key = k /\ g.fill = "whole" /\ g.dfill = "whole" /\ g.mark /\ g.dmark
  BY <1>2 DEF FileType
<1>4. file' = [file EXCEPT ![m] = g]
  BY <1>2, Types DEF Rename
<1>5. file' \in [1..MaxFiles -> FileType] /\ file'[m] = g /\ \A i \in 1..MaxFiles \ {m} : file'[i] = file[i]
  BY <1>2, <1>3, <1>4, Types
<1>6. Becomes(p, "clean", k, m, loader[p].mem)
  BY Moves DEF Rename, Pcs
<1>7. /\ dir' \in [Key -> 0..MaxFiles] /\ dir'[k] = m /\ \A j \in Key \ {k} : dir'[j] = dir[j]
  BY <1>1, <1>2, Types
<1> HIDE DEF g
<1>8. Grow
  <2>1. files' \in Nat /\ files' >= files
    BY <1>1, Types
  <2>2. ASSUME NEW i \in 1..files, i # m PROVE file'[i] = file[i]
    BY <1>5, <2>2, Types
  <2> QED
    BY <1>2, <1>3, <1>5, <2>1, <2>2 DEF Grow
<1>9. FileInv'
  BY <1>1, <1>2, <1>3, <1>5, Types DEF IInv, FileInv
<1>10. NamesInv'
  <2>1. ASSUME NEW j \in Key, dir'[j] # 0
        PROVE  dir'[j] \in 1..files /\ file'[dir'[j]].named /\ file'[dir'[j]].key = j
    <3>1. CASE j = k
      BY <1>2, <1>3, <1>5, <1>7, <3>1
    <3>2. CASE j # k
      <4>1. dir'[j] = dir[j] /\ dir[j] \in 1..files /\ file[dir[j]].named /\ file[dir[j]].key = j
        BY <1>7, <2>1, <3>2 DEF IInv, NamesInv
      <4>2. dir[j] # m /\ dir[j] \in 1..MaxFiles
        BY <1>2, <3>2, <4>1, Types
      <4> QED
        BY <1>5, <4>1, <4>2
    <3> QED
      BY <3>1, <3>2
  <2> QED
    BY <1>1, <2>1 DEF IInv, NamesInv
<1>11. LoaderInv(p)'
  BY <1>1, <1>2, <1>3, <1>5, <1>6, Types DEF LoaderInv, Becomes, Mapped
<1>12. LockStep(p)
  <2>1. Locking(p)
    BY <1>1, <1>2, Types DEF Locking
  <2> QED
    BY <1>1, <1>6, <2>1 DEF IInv, LockInv, LockStep, Preparing, Becomes
<1>13. CountInv'
  BY <1>1, <1>6, CountSame DEF Becomes
<1>14. NoLitter'
  <2>1. \A q \in Loader : Mapped(q)' = Mapped(q)
    BY <1>6 DEF Becomes, Mapped
  <2> QED
    BY <1>1, <2>1 DEF IInv, NoLitter
<1> QED
  BY <1>1, <1>5, <1>6, <1>7, <1>8, <1>9, <1>10, <1>11, <1>12, <1>13, <1>14, Finish, Types DEF Becomes

\* A step that only takes names away: of entries that are replaced, of old
\* temporary files, of what is discarded or cannot be published.
LEMMA TakeNamesStep ==
    ASSUME IInv, NEW p \in Loader, NEW pc, NEW key, NEW maps, NEW mem, Becomes(p, pc, key, maps, mem),
           UNCHANGED <<file, files, deaths, opens, lockFails>>,
           dir' \in [Key -> 0..MaxFiles], \A k \in Key : dir'[k] # 0 => dir'[k] = dir[k],
           tmps' \subseteq tmps,
           Mapped(p) \in tmps' => maps = Mapped(p),
           pc \notin {"lock", "again"},
           LoaderInv(p)', LockStep(p)
    PROVE  IInv'
<1>1. Grow
  BY Types DEF Grow
<1>2. FileInv'
  BY DEF IInv, FileInv
<1>3. NamesInv'
  BY DEF IInv, NamesInv
<1>4. CountInv'
  BY CountSame DEF Becomes
<1>5. NoLitter'
  <2>1. SUFFICES ASSUME deaths = 0, NEW i \in tmps' PROVE \E q \in Loader : loader'[q].maps = i
    BY DEF NoLitter, Mapped
  <2>2. PICK q \in Loader : Mapped(q) = i
    BY <2>1 DEF IInv, NoLitter
  <2> QED
    BY <2>1, <2>2 DEF Becomes, Mapped
<1> QED
  BY <1>1, <1>2, <1>3, <1>4, <1>5, Finish, Types DEF Becomes

\* The entries that the new one replaces go.
LEMMA CleanStep ==
    ASSUME IInv, NEW p \in Loader, Clean(p)
    PROVE  IInv'
<1>1. loader[p].pc = "clean" /\ UNCHANGED <<file, files, lockedBy, deaths, opens, lockFails>> /\ tmps' \subseteq tmps
  BY DEF Clean, At
<1>2. dir' \in [Key -> 0..MaxFiles] /\ \A k \in Key : dir'[k] # 0 => dir'[k] = dir[k]
  BY Types DEF Clean
<1>3. Becomes(p, "remap", loader[p].key, Mapped(p), loader[p].mem)
  BY Moves DEF Clean, Pcs
<1>4. LoaderInv(p)'
  BY <1>1, <1>3 DEF IInv, LoaderInv, Becomes, Mapped
<1>5. LockStep(p)
  <2>1. Mapped(p) # 0
    BY <1>1 DEF IInv, LoaderInv
  <2> QED
    BY <1>1, <1>2, <1>3, <2>1 DEF IInv, LockInv, LockStep, Locking, Preparing, Becomes
<1> QED
  BY <1>1, <1>2, <1>3, <1>4, <1>5, TakeNamesStep

\* A fresh entry is closed, or cannot be published: its temporary name goes.
LEMMA GiveUpStep ==
    ASSUME IInv, NEW p \in Loader, Discard(p) \/ PublishFails(p)
    PROVE  IInv'
<1>1. /\ UNCHANGED <<file, files, dir, deaths, opens, lockFails>> /\ tmps' = tmps \ {Mapped(p)}
      /\ lockedBy' = lockedBy \ {p}
  BY DEF Discard, PublishFails, GiveUp, Released, Unlocked
<1>2. CASE Discard(p)
  <2>1. Becomes(p, "idle", Idle.key, 0, Idle.mem)
    BY <1>2, Idles DEF Discard
  <2>2. LoaderInv(p)' /\ LockStep(p)
    BY <1>1, <2>1, Types DEF LoaderInv, LockStep, Locking, Preparing, Becomes, Mapped
  <2> QED
    BY <1>1, <2>1, <2>2, TakeNamesStep, Types
<1>3. CASE PublishFails(p)
  <2>1. file[Mapped(p)].fill = "whole" /\ loader' = [loader EXCEPT ![p].pc = "loaded", ![p].maps = 0, ![p].mem = "whole"]
    BY <1>3 DEF PublishFails, Copied, IInv, LoaderInv
  <2>2. 0 \in 0..MaxFiles
    BY Types
  <2>3. Becomes(p, "loaded", loader[p].key, 0, "whole")
    BY <2>1, <2>2, Remembers DEF Pcs, Fills
  <2>4. LoaderInv(p)' /\ LockStep(p)
    BY <1>1, <2>3, Types DEF LoaderInv, LockStep, Locking, Preparing, Becomes, Mapped
  <2> QED
    BY <1>1, <2>3, <2>4, TakeNamesStep, Types
<1> QED
  BY <1>2, <1>3

\* The machine dies: what comes back under a name was on disk before it had it.
LEMMA MachineStep ==
    ASSUME IInv, MachineDies
    PROVE  IInv'
<1> DEFINE Found(i) == \E k \in Key : dir'[k] = i
<1>1. /\ loader' = [p \in Loader |-> Idle] /\ lockedBy' = {} /\ UNCHANGED <<files, opens, lockFails>>
      /\ deaths' = deaths + 1 /\ deaths < MaxDeaths
      /\ dir' \in [Key -> 0..files]
      /\ \A k \in Key : dir'[k] # 0 => file[dir'[k]].named /\ file[dir'[k]].key = k
      /\ tmps' = {i \in tmps : ~Found(i)}
  BY DEF MachineDies
<1>2. PICK pages, marks \in SUBSET {i \in 1..files : Found(i)} :
         file' = [i \in 1..MaxFiles |->
                    IF Found(i)
                    THEN [file[i] EXCEPT !.fill = IF i \in pages THEN @ ELSE file[i].dfill,
                                         !.mark = IF i \in marks THEN @ ELSE file[i].dmark]
                    ELSE Blank]
  BY DEF MachineDies
<1>3. ASSUME NEW i \in 1..MaxFiles, ~Found(i)
      PROVE  file'[i] = Blank /\ file'[i] \in FileType
  BY <1>2, <1>3, Fresher
<1>4. ASSUME NEW i \in 1..MaxFiles, Found(i)
      PROVE  /\ i \in 1..files /\ i \notin tmps /\ file'[i] \in FileType /\ file'[i].key = file[i].key
             /\ file'[i].fill = "whole" /\ file'[i].mark /\ file'[i].dfill = "whole" /\ file'[i].dmark /\ file'[i].named
  <2>1. i \in 1..files /\ file[i].named
    BY <1>1, <1>4, Types
  <2>2. /\ file[i] \in FileType /\ file[i].fill = "whole" /\ file[i].dfill = "whole" /\ file[i].mark /\ file[i].dmark
        /\ i \notin tmps
    BY <2>1, Types DEF IInv, FileInv
  <2>3. file[i].mark = TRUE /\ file[i].dmark = TRUE
    BY <2>2 DEF FileType
  <2>4. file'[i] = [file[i] EXCEPT !.fill = "whole", !.mark = TRUE]
    BY <1>2, <1>4, <2>2, <2>3
  <2> QED
    BY <2>1, <2>2, <2>4 DEF FileType
<1> HIDE DEF Found
<1>5. file' \in [1..MaxFiles -> FileType]
  <2>1. \A i \in 1..MaxFiles : file'[i] \in FileType
    BY <1>3, <1>4
  <2>2. DOMAIN file' = 1..MaxFiles /\ file' = [i \in 1..MaxFiles |-> file'[i]]
    BY <1>2
  <2> QED
    BY <2>1, <2>2
<1>6. FileInv'
  <2>1. ASSUME NEW i \in 1..files
        PROVE  /\ file'[i].dfill = "whole" => file'[i].fill = "whole"
               /\ file'[i].dmark => file'[i].mark
               /\ file'[i].named => file'[i].dfill = "whole" /\ file'[i].dmark /\ i \notin tmps'
    <3>0. i \in 1..MaxFiles
      BY Types
    <3>1. CASE Found(i)
      BY <1>1, <1>4, <3>0, <3>1
    <3>2. CASE ~Found(i)
      BY <1>3, <3>0, <3>2, Blanks
    <3> QED
      BY <3>1, <3>2
  <2> QED
    BY <1>1, <2>1 DEF FileInv
<1>7. NamesInv'
  <2>1. ASSUME NEW k \in Key, dir'[k] # 0
        PROVE  dir'[k] \in 1..files /\ file'[dir'[k]].named /\ file'[dir'[k]].key = k
    <3>1. dir'[k] \in 1..files /\ dir'[k] \in 1..MaxFiles /\ file[dir'[k]].key = k
      BY <1>1, <2>1, Types
    <3>2. Found(dir'[k])
      BY DEF Found
    <3> QED
      BY <1>4, <3>1, <3>2
  <2>2. tmps' \subseteq 1..files
    BY <1>1 DEF IInv, NamesInv
  <2> QED
    BY <1>1, <2>1, <2>2 DEF NamesInv
<1>8. \A p \in Loader : loader'[p] = Idle /\ loader'[p].pc = "idle" /\ loader'[p].maps = 0
  BY <1>1, Fresher
<1>9. \A p \in Loader : LoaderInv(p)'
  BY <1>1, <1>8, Types DEF LoaderInv, Mapped
<1>10. LockInv'
  BY <1>1, <1>8 DEF LockInv, Locking, Preparing, Mapped
<1>11. CountInv'
  <2>1. Creators' = {}
    BY <1>8 DEF Creators
  <2>2. IsFiniteSet(Creators)
    BY CacheAssumption, FS_Subset, Creators \subseteq Loader DEF Creators
  <2>3. Cardinality(Creators)' = 0 /\ Cardinality(Creators) \in Nat
    BY <2>1, <2>2, FS_EmptySet, FS_CardinalityType
  <2> QED
    BY <1>1, <2>3, Types DEF IInv, CountInv
<1>12. NoLitter' /\ deaths' \in 0..MaxDeaths
  BY <1>1, Types, CacheAssumption DEF NoLitter
<1>13. CacheTypeOK'
  <2>1. loader' \in [Loader -> LoaderType] /\ \A p \in Loader : Publishing(p)' => Mapped(p)' # 0
    BY <1>1, <1>8, Fresher DEF Publishing
  <2>2. dir' \in [Key -> 0..MaxFiles] /\ tmps' \subseteq 1..MaxFiles
    BY <1>1, Types
  <2> QED
    BY <1>1, <1>5, <1>12, <2>1, <2>2, Types DEF CacheTypeOK
<1> QED
  BY <1>6, <1>7, <1>9, <1>10, <1>11, <1>12, <1>13 DEF IInv

-----------------------------------------------------------------------------
\* An empty cache satisfies the invariant.
LEMMA InitInv == CacheInit => IInv
<1> SUFFICES ASSUME CacheInit PROVE IInv
  OBVIOUS
<1>1. \A p \in Loader : loader[p] = Idle /\ loader[p].pc = "idle" /\ loader[p].maps = 0
  BY Fresher DEF CacheInit
<1>2. CacheTypeOK
  BY <1>1, Fresher, CacheAssumption DEF CacheInit, CacheTypeOK, MaxFiles, Publishing
<1>3. FileInv /\ NamesInv /\ NoLitter
  BY DEF CacheInit, FileInv, NamesInv, NoLitter
<1>4. \A p \in Loader : LoaderInv(p)
  BY <1>1 DEF CacheInit, LoaderInv, Mapped
<1>5. LockInv
  BY <1>1 DEF CacheInit, LockInv, Locking, Preparing, Mapped
<1>6. CountInv
  <2>1. Creators = {}
    BY <1>1 DEF Creators
  <2> QED
    BY <2>1, FS_EmptySet DEF CountInv, CacheInit
<1> QED
  BY <1>2, <1>3, <1>4, <1>5, <1>6 DEF IInv

\* Every step of a process and every death of the machine keeps it.
LEMMA NextInv == IInv /\ [CacheNext]_cacheVars => IInv'
<1> SUFFICES ASSUME IInv, [CacheNext]_cacheVars PROVE IInv'
  OBVIOUS
<1>1. CASE UNCHANGED cacheVars
  BY <1>1 DEF cacheVars, IInv, CacheTypeOK, Publishing, FileInv, NamesInv, LoaderInv, LockInv, Locking, Preparing, CountInv,
      Creators, NoLitter, Mapped
<1>2. ASSUME NEW p \in Loader, ProcessStep(p) PROVE IInv'
  BY <1>2, OpenStep, LockWaits, OpenAgainStep, CreateStep, CreateFailsStep, LeaveStep, FillStep, SyncStep, RenameStep,
     CleanStep, RemapStep, GiveUpStep DEF ProcessStep, LoaderStep
<1>3. CASE MachineDies
  BY <1>3, MachineStep
<1> QED
  BY <1>1, <1>2, <1>3 DEF CacheNext, ProcessStep

\* Open, Commit and Close, with processes and machines that die between any
\* two calls of the file system: the weights handed out are whole and of
\* their key, a published entry survives, and with a lock that works one
\* loader at a time prepares.
THEOREM CacheKeepsWeights == CacheSpec => []CacheSafe
<1>1. ASSUME IInv PROVE CacheSafe
  <2>1. WholeWeights
    <3>1. SUFFICES ASSUME NEW p \in Loader, At(p, "loaded")
                   PROVE  IF Mapped(p) = 0 THEN loader[p].mem = "whole"
                          ELSE file[Mapped(p)].fill = "whole" /\ file[Mapped(p)].key = loader[p].key
      BY DEF WholeWeights
    <3>2. CASE Mapped(p) = 0
      BY <1>1, <3>1, <3>2 DEF At, IInv, LoaderInv
    <3>3. CASE Mapped(p) # 0
      <4>1. Mapped(p) \in 1..files /\ file[Mapped(p)].named /\ file[Mapped(p)].key = loader[p].key
        BY <1>1, <3>1, <3>3, Types DEF At, IInv, LoaderInv
      <4> QED
        BY <1>1, <3>3, <4>1 DEF IInv, FileInv
    <3> QED
      BY <3>2, <3>3
  <2>2. DurableEntries
    BY <1>1 DEF IInv, FileInv, DurableEntries
  <2>3. PreparedOnce
    <3>1. \A p \in Loader : Preparing(p) => Locking(p)
      BY DEF Preparing, Locking
    <3> QED
      BY <1>1, <3>1 DEF IInv, LockInv, PreparedOnce, Complete
  <2> QED
    BY <1>1, <2>1, <2>2, <2>3 DEF IInv, CacheSafe
<1> QED
  BY <1>1, InitInv, NextInv, PTL DEF CacheSpec
=============================================================================
