----------------------------- MODULE PoolProofs -----------------------------
(***************************************************************************)
(* Proofs about Pool: for any number of callers, paths, entries and lanes, *)
(* a leased model stays open, no lane is shared, a model is closed at most *)
(* once and after its lanes, and it can only be forgotten in the window    *)
(* the publish step of get leaves.                                         *)
(***************************************************************************)
EXTENDS Pool, FiniteSetTheorems, TLAPS

\* The callers that pooled.busy of entry e counts.
Leases(e) == {c \in Caller : Leasing(c) /\ entry[c] = e}

\* The goroutine that opens e, while it does.
Opens(c, e) == pc[c] \in {"opening", "publish"} /\ entry[c] = e

\* The entry each caller works on exists, and is of the path it asked for.
LocalsInv ==
    \A c \in Caller :
        /\ pc[c] \in {"get", "opening", "publish", "wait", "lane", "leased"}
              => want[c] \in Path \X LaneType
        /\ pc[c] \in {"opening", "publish", "wait", "lane", "leased"}
              => entry[c] \in Entry /\ path[entry[c]] = want[c][1]
        /\ pc[c] = "reap" => entry[c] \in Entry

\* The map of the pool agrees with the path of each entry; a closed pool
\* holds nothing.
HeldInv ==
    /\ \A p \in Path : models[p] # None => path[models[p]] = p
    /\ closed => \A p \in Path : models[p] = None

\* An entry that is not ready has one opener and nothing else has begun.
OpeningInv ==
    /\ \A c, d \in Caller : \A e \in Entry : Opens(c, e) /\ Opens(d, e) => c = d
    /\ \A c \in Caller : \A e \in Entry : Opens(c, e) => ~ready[e] /\ path[e] # None
    /\ \A e \in Entry : ~ready[e] =>
          /\ busy[e] = 0
          /\ closing[e] = "no"
          /\ commits[e] = 0
          /\ firing[e] = 0
          /\ ~timer[e]
          /\ \A l \in Lane : home[l] # e
          /\ path[e] = None => model[e] = "none"
          /\ model[e] # "closed"
          /\ model[e] = "open" => \E c \in Caller : pc[c] = "publish" /\ entry[c] = e
    /\ \A c \in Caller : pc[c] = "opening" => model[entry[c]] = "none"
    /\ \A e \in Entry : path[e] = None => ~ready[e]

\* Between its critical section and its publication, get's local held says
\* whether the pool held the entry, and only Close can have made it stale.
PublishInv ==
    \A c \in Caller : pc[c] = "publish" =>
        /\ ~held[c] \/ model[entry[c]] # "open" => ~Holds(entry[c])
        /\ held[c] /\ model[entry[c]] = "open" => Holds(entry[c]) \/ entry[c] \in orphaned

\* pooled.busy counts the leases that are out.
BusyInv == \A e \in Entry : busy[e] = Cardinality(Leases(e))

\* A ready entry is failed, in use or unused, or closing, and never two of these.
ReadyEntry(e) ==
    /\ failed[e] =>
          /\ ~Holds(e) /\ busy[e] = 0 /\ closing[e] = "no"
          /\ model[e] # "open" /\ commits[e] <= 1
    /\ ~failed[e] /\ closing[e] = "no" => model[e] = "open" /\ commits[e] = 0
    /\ closing[e] # "no" =>
          /\ ~Holds(e) /\ busy[e] = 0 /\ commits[e] = 1
          /\ model[e] = (IF closing[e] = "done" THEN "closed" ELSE "open")
          /\ closing[e] # "lanes" => idle[e] = {}

ReadyInv == \A e \in Entry : ready[e] => ReadyEntry(e)

\* Where every lane is: with a caller, idle, or closed.
LanesInv ==
    /\ LaneExclusive
    /\ \A c \in Caller : pc[c] = "leased" => lane[c] \in Lane
    /\ \A e \in Entry : \A l \in idle[e] : home[l] = e /\ l \notin shut
    /\ \A l \in Lane : home[l] = None => l \notin shut
    /\ \A l \in Lane : \A e \in Entry : home[l] = e =>
          \/ l \in idle[e]
          \/ l \in shut
          \/ \E c \in Caller : pc[c] = "leased" /\ lane[c] = l /\ entry[c] = e
    /\ \A e \in Entry : ready[e] /\ failed[e] => \A l \in Lane : home[l] # e

IInv ==
    /\ TypeOK
    /\ LocalsInv
    /\ HeldInv
    /\ OpeningInv
    /\ PublishInv
    /\ BusyInv
    /\ ReadyInv
    /\ LanesInv
    /\ OnlyPublishLeaks
    /\ CountdownRuns
-----------------------------------------------------------------------------
\* The callers counted by pooled.busy are finitely many.
LEMMA LeasesFinite ==
    ASSUME NEW e \in Entry
    PROVE  IsFiniteSet(Leases(e)) /\ Cardinality(Leases(e)) \in Nat
<1>1. IsFiniteSet(Leases(e))
  BY PoolAssumption, FS_Subset, Leases(e) \subseteq Caller DEF Leases
<1> QED
  BY <1>1, FS_CardinalityType

\* A lease keeps the count of its entry positive, and so its model open.
LEMMA LeaseFacts ==
    ASSUME IInv, NEW c \in Caller, Leasing(c)
    PROVE  /\ entry[c] \in Entry
           /\ path[entry[c]] \in Path
           /\ busy[entry[c]] \in Nat \ {0}
           /\ ready[entry[c]] /\ ~failed[entry[c]]
           /\ closing[entry[c]] = "no"
           /\ model[entry[c]] = "open"
           /\ commits[entry[c]] = 0
<1>1. entry[c] \in Entry /\ path[entry[c]] \in Path
  BY DEF IInv, LocalsInv, Leasing
<1>2. c \in Leases(entry[c])
  BY DEF Leases
<1>3. Cardinality(Leases(entry[c])) # 0
  BY <1>1, <1>2, LeasesFinite, FS_EmptySet
<1>4. busy[entry[c]] \in Nat \ {0}
  BY <1>1, <1>3, LeasesFinite DEF IInv, BusyInv
<1>5. ready[entry[c]]
  BY <1>1, <1>4 DEF IInv, OpeningInv
<1>6. ~failed[entry[c]] /\ closing[entry[c]] = "no"
  BY <1>1, <1>4, <1>5 DEF IInv, ReadyInv, ReadyEntry
<1> QED
  BY <1>1, <1>4, <1>5, <1>6 DEF IInv, ReadyInv, ReadyEntry

\* A step that neither gives nor returns a lease leaves the count right.
LEMMA BusySame ==
    ASSUME IInv, UNCHANGED busy,
           \A d \in Caller : Leasing(d)' <=> Leasing(d),
           \A d \in Caller : Leasing(d) => entry'[d] = entry[d]
    PROVE  BusyInv'
<1>1. \A e \in Entry : Leases(e)' = Leases(e)
  BY DEF Leases
<1> QED
  BY <1>1 DEF IInv, BusyInv

\* A step that gives caller c a lease of entry e counts it.
LEMMA BusyTaken ==
    ASSUME IInv, NEW c \in Caller, NEW e \in Entry,
           ~Leasing(c), Leasing(c)', entry'[c] = e,
           busy' = [busy EXCEPT ![e] = @ + 1],
           \A d \in Caller \ {c} : Leasing(d)' <=> Leasing(d),
           \A d \in Caller \ {c} : entry'[d] = entry[d]
    PROVE  BusyInv'
<1>1. ASSUME NEW f \in Entry PROVE busy'[f] = Cardinality(Leases(f)')
  <2>1. CASE f = e
    <3>1. Leases(f)' = Leases(f) \cup {c} /\ c \notin Leases(f)
      BY <2>1 DEF Leases
    <3>2. Cardinality(Leases(f) \cup {c}) = Cardinality(Leases(f)) + 1
      BY <3>1, LeasesFinite, FS_AddElement
    <3> QED
      BY <2>1, <3>1, <3>2 DEF IInv, BusyInv, TypeOK
  <2>2. CASE f # e
    <3>1. Leases(f)' = Leases(f)
      BY <2>2 DEF Leases
    <3> QED
      BY <2>2, <3>1 DEF IInv, BusyInv, TypeOK
  <2> QED
    BY <2>1, <2>2
<1> QED
  BY <1>1 DEF BusyInv

\* A step that takes back the lease caller c has uncounts it.
LEMMA BusyReturned ==
    ASSUME IInv, NEW c \in Caller,
           Leasing(c), ~Leasing(c)',
           busy' = [busy EXCEPT ![entry[c]] = @ - 1],
           \A d \in Caller \ {c} : Leasing(d)' <=> Leasing(d),
           \A d \in Caller \ {c} : entry'[d] = entry[d]
    PROVE  BusyInv'
<1> DEFINE e == entry[c]
<1>0. e \in Entry /\ busy[e] \in Nat \ {0}
  BY LeaseFacts
<1>1. ASSUME NEW f \in Entry PROVE busy'[f] = Cardinality(Leases(f)')
  <2>1. CASE f = e
    <3>1. Leases(f)' = Leases(f) \ {c} /\ c \in Leases(f)
      BY <2>1 DEF Leases
    <3>2. Cardinality(Leases(f) \ {c}) = Cardinality(Leases(f)) - 1
      BY <3>1, LeasesFinite, FS_RemoveElement
    <3> QED
      BY <1>0, <2>1, <3>1, <3>2 DEF IInv, BusyInv, TypeOK
  <2>2. CASE f # e
    <3>1. Leases(f)' = Leases(f)
      BY <2>2 DEF Leases
    <3> QED
      BY <1>0, <2>2, <3>1 DEF IInv, BusyInv, TypeOK
  <2> QED
    BY <2>1, <2>2
<1> QED
  BY <1>1 DEF BusyInv

-----------------------------------------------------------------------------
(***************************************************************************)
(* Every action preserves the invariant: one lemma per action, one step    *)
(* per part of the invariant.                                              *)
(***************************************************************************)

\* A caller that starts Acquire holds nothing yet.
LEMMA AcquireStep ==
    ASSUME IInv, NEW c \in Caller, NEW p \in Path, NEW t \in LaneType, Acquire(c, p, t)
    PROVE  IInv'
<1> USE PoolAssumption DEF IInv, Acquire, Goto, poolVars, entryVars, closeVars,
         laneVars, TypeOK
<1>1. TypeOK'
  BY DEF PCs
<1>2. LocalsInv'
  BY DEF LocalsInv
<1>3. HeldInv'
  BY DEF HeldInv
<1>4. OpeningInv'
  BY DEF OpeningInv, Opens
<1>5. PublishInv'
  BY DEF PublishInv, Holds
<1>6. BusyInv'
  BY BusySame DEF Leasing
<1>7. ReadyInv'
  BY DEF ReadyInv, ReadyEntry, Holds
<1>8. LanesInv'
  BY DEF LanesInv, LaneExclusive
<1>9. OnlyPublishLeaks'
  BY DEF OnlyPublishLeaks, Owned, Holds
<1>10. CountdownRuns'
  BY SMTT(20) DEF CountdownRuns, Holds, Arriving
<1> QED
  BY <1>1, <1>2, <1>3, <1>4, <1>5, <1>6, <1>7, <1>8, <1>9, <1>10

\* get on a closed pool changes no entry.
LEMMA GetClosedStep ==
    ASSUME IInv, NEW c \in Caller, GetClosed(c)
    PROVE  IInv'
<1> USE PoolAssumption DEF IInv, GetClosed, Goto, Return, poolVars, entryVars,
         closeVars, laneVars, TypeOK
<1>1. TypeOK'
  BY DEF PCs
<1>2. LocalsInv'
  BY DEF LocalsInv
<1>3. HeldInv'
  BY DEF HeldInv
<1>4. OpeningInv'
  BY DEF OpeningInv, Opens
<1>5. PublishInv'
  BY DEF PublishInv, Holds
<1>6. BusyInv'
  BY BusySame DEF Leasing
<1>7. ReadyInv'
  BY DEF ReadyInv, ReadyEntry, Holds
<1>8. LanesInv'
  BY DEF LanesInv, LaneExclusive
<1>9. OnlyPublishLeaks'
  BY DEF OnlyPublishLeaks, Owned, Holds
<1>10. CountdownRuns'
  BY DEF CountdownRuns, Holds, Arriving
<1> QED
  BY <1>1, <1>2, <1>3, <1>4, <1>5, <1>6, <1>7, <1>8, <1>9, <1>10

\* get hands out the entry the pool holds.
LEMMA GetHeldStep ==
    ASSUME IInv, NEW c \in Caller, GetHeld(c)
    PROVE  IInv'
<1> USE PoolAssumption DEF IInv, GetHeld, Goto, Absent, poolVars, entryVars,
         closeVars, laneVars, TypeOK
<1>1. TypeOK'
  BY DEF PCs, LocalsInv
<1>2. LocalsInv'
  BY DEF LocalsInv, HeldInv, Holds
<1>3. HeldInv'
  BY DEF HeldInv
<1>4. OpeningInv'
  BY DEF OpeningInv, Opens
<1>5. PublishInv'
  BY DEF PublishInv, Holds
<1>6. BusyInv'
  BY BusySame DEF Leasing
<1>7. ReadyInv'
  BY DEF ReadyInv, ReadyEntry, Holds
<1>8. LanesInv'
  BY DEF LanesInv, LaneExclusive
<1>9. OnlyPublishLeaks'
  BY DEF OnlyPublishLeaks, Owned, Holds
<1>10. CountdownRuns'
  BY DEF CountdownRuns, Holds, Arriving
<1> QED
  BY <1>1, <1>2, <1>3, <1>4, <1>5, <1>6, <1>7, <1>8, <1>9, <1>10

\* get inserts a fresh entry, which nobody else knows.
LEMMA GetNewStep ==
    ASSUME IInv, NEW c \in Caller, NEW e \in Entry, GetNew(c, e)
    PROVE  IInv'
<1> USE PoolAssumption DEF IInv, GetNew, Goto, Absent, closeVars, laneVars,
         TypeOK
<1>1. TypeOK'
  BY DEF PCs
<1>2. LocalsInv'
  BY DEF LocalsInv
<1>3. HeldInv'
  BY DEF HeldInv
<1>4. OpeningInv'
  BY DEF OpeningInv, Opens, LocalsInv
<1>5. PublishInv'
  BY DEF PublishInv, Holds, LocalsInv
<1>6. BusyInv'
  BY BusySame DEF Leasing
<1>7. ReadyInv'
  BY DEF ReadyInv, ReadyEntry, Holds, LocalsInv, HeldInv, OpeningInv, Opens,
         PublishInv
<1>8. LanesInv'
  BY DEF LanesInv, LaneExclusive
<1>9. OnlyPublishLeaks'
  BY DEF OnlyPublishLeaks, Owned, Holds
<1>10. CountdownRuns'
  BY DEF CountdownRuns, Holds, Arriving
<1> QED
  BY <1>1, <1>2, <1>3, <1>4, <1>5, <1>6, <1>7, <1>8, <1>9, <1>10

\* After Open, held records whether Close came first.
LEMMA OpenReturnsStep ==
    ASSUME IInv, NEW c \in Caller, NEW ok \in BOOLEAN, OpenReturns(c, ok)
    PROVE  IInv'
<1> USE PoolAssumption DEF IInv, OpenReturns, Goto, Drop, closeVars, laneVars,
         TypeOK
<1>1. TypeOK'
  BY ZenonT(40) DEF PCs
<1>2. LocalsInv'
  BY DEF LocalsInv
<1>3. HeldInv'
  BY DEF HeldInv
<1>4. OpeningInv'
  BY DEF OpeningInv, Opens
<1>5. PublishInv'
  BY DEF PublishInv, Holds, LocalsInv, HeldInv, OpeningInv, Opens
<1>6. BusyInv'
  BY BusySame DEF Leasing
<1>7. ReadyInv'
  BY DEF ReadyInv, ReadyEntry, Holds, LocalsInv, HeldInv, OpeningInv, Opens,
         PublishInv
<1>8. LanesInv'
  BY DEF LanesInv, LaneExclusive
<1>9. OnlyPublishLeaks'
  BY DEF OnlyPublishLeaks, Owned, Holds, LocalsInv, HeldInv, OpeningInv, Opens,
         PublishInv
<1>10. CountdownRuns'
  BY DEF CountdownRuns, Holds, Arriving
<1> QED
  BY <1>1, <1>2, <1>3, <1>4, <1>5, <1>6, <1>7, <1>8, <1>9, <1>10

\* Publishing makes an entry ready, failed if nobody holds it.
LEMMA PublishStep ==
    ASSUME IInv, NEW c \in Caller, Publish(c)
    PROVE  IInv'
<1> USE PoolAssumption DEF IInv, Publish, Goto, Dropped, Announce, poolVars,
         laneVars, TypeOK
<1>1. TypeOK'
  BY DEF PCs, LocalsInv
<1>2. LocalsInv'
  BY DEF LocalsInv
<1>3. HeldInv'
  BY DEF HeldInv
<1>4. OpeningInv'
  BY DEF OpeningInv, Opens
<1>5. PublishInv'
  BY DEF PublishInv, Holds
<1>6. BusyInv'
  BY BusySame DEF Leasing
<1>7. ReadyInv'
  <2>1. entry[c] \in Entry /\ ~ready[entry[c]]
    BY DEF LocalsInv, OpeningInv, Opens
  <2>2. /\ model[entry[c]] \in {"none", "open"} /\ commits[entry[c]] = 0
        /\ busy[entry[c]] = 0 /\ closing[entry[c]] = "no"
    BY <2>1 DEF OpeningInv
  <2>3. ~held[c] \/ model[entry[c]] # "open" => ~Holds(entry[c])
    BY DEF PublishInv
  <2>4. \A e \in Entry : Holds(e)' = Holds(e)
    BY DEF Holds
  <2>5. ASSUME NEW e \in Entry, e = entry[c] PROVE ReadyEntry(e)'
    <3>1. /\ failed'[e] = (model[e] # "open" \/ ~held[c])
          /\ busy'[e] = 0 /\ closing'[e] = "no"
      BY <2>1, <2>2, <2>5
    <3>2. CASE model[e] = "open" /\ held[c]
      <4>1. ~failed'[e] /\ model'[e] = "open" /\ commits'[e] = 0
        BY <2>1, <2>2, <2>5, <3>2
      <4> QED
        BY <3>1, <4>1 DEF ReadyEntry
    <3>3. CASE ~(model[e] = "open" /\ held[c])
      <4>0. failed'[e] /\ commits[e] = 0 /\ model[e] \in {"none", "open"}
        BY <2>1, <2>2, <2>5, <3>3
      <4>1. failed'[e] /\ model'[e] # "open" /\ commits'[e] \in {0, 1}
        <5>1. CASE model[e] = "open"
          BY <2>5, <3>3, <4>0, <5>1
        <5>2. CASE model[e] # "open"
          BY <2>5, <4>0, <5>2
        <5> QED
          BY <5>1, <5>2
      <4>2. ~Holds(e)'
        BY <2>3, <2>4, <2>5, <3>3
      <4>3. commits'[e] <= 1
        BY <4>1
      <4> QED
        BY <3>1, <4>1, <4>2, <4>3 DEF ReadyEntry
    <3> QED
      BY <3>2, <3>3
  <2>6. ASSUME NEW e \in Entry, e # entry[c], ready'[e] PROVE ReadyEntry(e)'
    BY <2>4, <2>6 DEF ReadyInv, ReadyEntry
  <2> QED
    BY <2>1, <2>5, <2>6 DEF ReadyInv
<1>8. LanesInv'
  BY DEF LanesInv, LaneExclusive, LocalsInv, HeldInv, Holds, OpeningInv, Opens,
         PublishInv
<1>9. OnlyPublishLeaks'
  BY DEF OnlyPublishLeaks, Owned, Holds
<1>10. CountdownRuns'
  BY DEF CountdownRuns, Holds, Arriving
<1> QED
  BY <1>1, <1>2, <1>3, <1>4, <1>5, <1>6, <1>7, <1>8, <1>9, <1>10

\* A caller gives up a failed entry, which the pool does not hold.
LEMMA AcquireFailsStep ==
    ASSUME IInv, NEW c \in Caller, AcquireFails(c)
    PROVE  IInv'
<1> USE PoolAssumption DEF IInv, AcquireFails, Goto, Return, poolVars,
         entryVars, closeVars, laneVars, TypeOK
<1>1. TypeOK'
  BY DEF PCs
<1>2. LocalsInv'
  BY DEF LocalsInv
<1>3. HeldInv'
  BY DEF HeldInv
<1>4. OpeningInv'
  BY DEF OpeningInv, Opens
<1>5. PublishInv'
  BY DEF PublishInv, Holds
<1>6. BusyInv'
  BY BusySame DEF Leasing
<1>7. ReadyInv'
  BY DEF ReadyInv, ReadyEntry, Holds
<1>8. LanesInv'
  BY DEF LanesInv, LaneExclusive
<1>9. OnlyPublishLeaks'
  BY DEF OnlyPublishLeaks, Owned, Holds
<1>10. CountdownRuns'
  BY DEF CountdownRuns, Holds, Arriving, LocalsInv, HeldInv, OpeningInv, Opens,
         PublishInv, ReadyInv, ReadyEntry, LanesInv, LaneExclusive
<1> QED
  BY <1>1, <1>2, <1>3, <1>4, <1>5, <1>6, <1>7, <1>8, <1>9, <1>10

\* A caller gives up an entry the pool no longer holds.
LEMMA AcquireRetriesStep ==
    ASSUME IInv, NEW c \in Caller, AcquireRetries(c)
    PROVE  IInv'
<1> USE PoolAssumption DEF IInv, AcquireRetries, Goto, StillHeld, poolVars,
         entryVars, closeVars, laneVars, TypeOK
<1>1. TypeOK'
  BY DEF PCs
<1>2. LocalsInv'
  BY DEF LocalsInv
<1>3. HeldInv'
  BY DEF HeldInv
<1>4. OpeningInv'
  BY DEF OpeningInv, Opens
<1>5. PublishInv'
  BY DEF PublishInv, Holds
<1>6. BusyInv'
  BY BusySame DEF Leasing
<1>7. ReadyInv'
  BY DEF ReadyInv, ReadyEntry, Holds
<1>8. LanesInv'
  BY DEF LanesInv, LaneExclusive
<1>9. OnlyPublishLeaks'
  BY DEF OnlyPublishLeaks, Owned, Holds
<1>10. CountdownRuns'
  BY DEF CountdownRuns, Holds, Arriving, LocalsInv
<1> QED
  BY <1>1, <1>2, <1>3, <1>4, <1>5, <1>6, <1>7, <1>8, <1>9, <1>10

\* A lease is counted in the critical section that checks the pool holds the entry.
LEMMA AcquireTakesStep ==
    ASSUME IInv, NEW c \in Caller, AcquireTakes(c)
    PROVE  IInv'
<1> DEFINE e == entry[c]
<1> USE DEF IInv, TypeOK
<1>u. /\ UNCHANGED <<models, closed, expires, path, ready, failed, model, recent, firing>>
      /\ UNCHANGED <<closing, commits, sweep, orphaned, home, ltype, shut, want, entry, held>>
      /\ busy' = [busy EXCEPT ![e] = @ + 1]
      /\ timer' = [timer EXCEPT ![e] = FALSE]
      /\ pc[c] = "wait" /\ ready[e] /\ ~failed[e] /\ models[want[c][1]] = e
  BY DEF AcquireTakes, StillHeld, Count, poolVars, closeVars, laneVars
<1>d. \/ /\ UNCHANGED <<idle, lane>>
         /\ pc' = [pc EXCEPT ![c] = "lane"]
      \/ \E l \in idle[e] :
            /\ idle' = [idle EXCEPT ![e] = @ \ {l}]
            /\ lane' = [lane EXCEPT ![c] = l]
            /\ pc' = [pc EXCEPT ![c] = "leased"]
  BY DEF AcquireTakes, Pop, Goto
<1>a. /\ e \in Entry /\ path[e] \in Path /\ path[e] = want[c][1]
      /\ want[c] \in Path \X LaneType /\ models[path[e]] = e
  BY <1>u DEF LocalsInv
<1>b. Holds(e) /\ closing[e] = "no" /\ model[e] = "open" /\ commits[e] = 0
  BY <1>a, <1>u, PoolAssumption DEF Holds, ReadyInv, ReadyEntry
<1>c. /\ pc'[c] \in {"lane", "leased"}
      /\ \A d \in Caller \ {c} : pc'[d] = pc[d]
      /\ ~Leasing(c) /\ Leasing(c)'
  BY <1>d, <1>u DEF Leasing
<1>1. TypeOK'
  <2>1. pc' \in [Caller -> PCs]
    BY <1>d DEF PCs
  <2>2. idle' \in [Entry -> SUBSET Lane]
    BY <1>a, <1>d, SMTT(20)
  <2>3. lane' \in [Caller -> Lane \cup {None}]
    <3>1. idle[e] \subseteq Lane
      BY <1>a
    <3> QED
      BY <1>d, <3>1
  <2>4. busy' \in [Entry -> Nat] /\ timer' \in [Entry -> BOOLEAN]
    BY <1>a, <1>u
  <2> QED
    BY <1>u, <2>1, <2>2, <2>3, <2>4
<1>2. LocalsInv'
  BY <1>c, <1>u DEF LocalsInv
<1>3. HeldInv'
  BY <1>u DEF HeldInv
<1>4. OpeningInv'
  <2>1. \A d \in Caller, f \in Entry : Opens(d, f)' <=> Opens(d, f)
    BY <1>c, <1>u DEF Opens
  <2>2. \A d \in Caller : pc[d] # "wait" => pc'[d] = pc[d]
    BY <1>c, <1>u
  <2>3. \A f \in Entry : ~ready[f] => busy'[f] = busy[f] /\ timer'[f] = timer[f]
    BY <1>a, <1>u
  <2>4. \A d \in Caller : pc'[d] \in {"opening", "publish"} => pc[d] = pc'[d]
    BY <1>c
  <2> QED
    BY <1>u, <2>1, <2>2, <2>3, <2>4 DEF OpeningInv
<1>5. PublishInv'
  BY <1>c, <1>u DEF PublishInv, Holds
<1>6. BusyInv'
  BY <1>a, <1>c, <1>u, BusyTaken DEF Leasing
<1>7. ReadyInv'
  <2>1. \A f \in Entry : Holds(f)' = Holds(f) /\ (idle[f] = {} => idle'[f] = {})
    BY <1>a, <1>d, <1>u DEF Holds
  <2>2. SUFFICES ASSUME NEW f \in Entry, ready[f], ReadyEntry(f) PROVE ReadyEntry(f)'
    BY <1>u DEF ReadyInv
  <2>3. CASE f = e
    BY <1>b, <1>u, <2>1, <2>2, <2>3 DEF ReadyEntry
  <2>4. CASE f # e
    <3>1. busy'[f] = busy[f]
      BY <1>a, <1>u, <2>4
    <3> QED
      BY <1>u, <2>1, <2>2, <3>1 DEF ReadyEntry
  <2> QED
    BY <2>3, <2>4
<1>8. LanesInv'
  <2>1. CASE UNCHANGED <<idle, lane>> /\ pc' = [pc EXCEPT ![c] = "lane"]
    BY <1>u, <2>1 DEF LanesInv, LaneExclusive
  <2>2. ASSUME NEW l \in idle[e],
               idle' = [idle EXCEPT ![e] = @ \ {l}],
               lane' = [lane EXCEPT ![c] = l],
               pc' = [pc EXCEPT ![c] = "leased"]
        PROVE  LanesInv'
    <3>1. l \in Lane /\ home[l] = e /\ l \notin shut
      BY <1>a DEF LanesInv
    <3>2. LaneExclusive'
      BY <1>a, <1>u, <2>2, <3>1 DEF LanesInv, LaneExclusive
    <3>3. ASSUME NEW m \in Lane, NEW f \in Entry, home[m] = f
          PROVE  \/ m \in idle'[f]
                 \/ m \in shut
                 \/ \E d \in Caller : pc'[d] = "leased" /\ lane'[d] = m /\ entry[d] = f
      <4>1. CASE m = l
        BY <1>a, <2>2, <3>1, <3>3, <4>1
      <4>2. CASE m # l /\ m \in idle[f]
        BY <1>a, <2>2, <4>2
      <4>3. CASE \E d \in Caller : pc[d] = "leased" /\ lane[d] = m /\ entry[d] = f
        BY <1>u, <2>2, <4>3
      <4> QED
        BY <3>3, <4>1, <4>2, <4>3 DEF LanesInv
    <3>4. \A f \in Entry : \A m \in idle'[f] : home'[m] = f /\ m \notin shut'
      BY <1>a, <1>u, <2>2 DEF LanesInv
    <3> QED
      BY <1>u, <2>2, <3>1, <3>2, <3>3, <3>4 DEF LanesInv
  <2> QED
    BY <1>d, <2>1, <2>2
<1>9. OnlyPublishLeaks'
  <2>1. \A d \in Caller : pc[d] = "publish" => pc'[d] = "publish"
    BY <1>c, <1>u
  <2>2. \A f \in Entry : Holds(f)' = Holds(f) /\ (busy[f] > 0 => busy'[f] > 0)
    BY <1>a, <1>u DEF Holds
  <2> QED
    BY <1>u, <2>1, <2>2 DEF OnlyPublishLeaks, Owned
<1>10. CountdownRuns'
  BY <1>a, <1>c, <1>u, SMTT(20) DEF CountdownRuns, Holds, Arriving
<1> QED
  BY <1>1, <1>2, <1>3, <1>4, <1>5, <1>6, <1>7, <1>8, <1>9, <1>10

\* A new lane is the caller's own.
LEMMA LaneOpenedStep ==
    ASSUME IInv, NEW c \in Caller, NEW l \in Lane, LaneOpened(c, l)
    PROVE  IInv'
<1> USE DEF IInv, LaneOpened, Goto, poolVars, entryVars, closeVars, TypeOK
<1>a. Leasing(c) /\ Leasing(c)'
  BY DEF Leasing
<1>b. /\ entry[c] \in Entry /\ ready[entry[c]] /\ ~failed[entry[c]]
      /\ want[c] \in Path \X LaneType
  BY <1>a, LeaseFacts DEF LocalsInv
<1>c. pc'[c] = "leased" /\ \A d \in Caller \ {c} : pc'[d] = pc[d]
  OBVIOUS
<1>1. TypeOK'
  BY <1>b, PoolAssumption DEF PCs
<1>2. LocalsInv'
  BY <1>b DEF LocalsInv
<1>3. HeldInv'
  BY DEF HeldInv
<1>4. OpeningInv'
  BY <1>b, <1>c DEF OpeningInv, Opens
<1>5. PublishInv'
  BY <1>c DEF PublishInv, Holds
<1>6. BusyInv'
  BY <1>a, <1>c, BusySame DEF Leasing
<1>7. ReadyInv'
  BY DEF ReadyInv, ReadyEntry, Holds
<1>8. LanesInv'
  <2>1. l \notin shut /\ \A f \in Entry : l \notin idle[f]
    BY PoolAssumption DEF LanesInv
  <2>2. \A d \in Caller : pc[d] = "leased" => lane[d] # l
    BY PoolAssumption DEF LanesInv, LaneExclusive, LocalsInv
  <2>3. LaneExclusive'
    BY <1>b, <1>c, <2>1, <2>2 DEF LanesInv, LaneExclusive
  <2>4. \A m \in Lane : \A f \in Entry : home'[m] = f =>
            \/ m \in idle'[f]
            \/ m \in shut'
            \/ \E d \in Caller : pc'[d] = "leased" /\ lane'[d] = m /\ entry'[d] = f
    BY <1>b, <1>c DEF LanesInv
  <2>5. \A e \in Entry : \A m \in idle'[e] : home'[m] = e /\ m \notin shut'
    BY <2>1 DEF LanesInv
  <2>6. \A m \in Lane : home'[m] = None => m \notin shut'
    BY <1>b, PoolAssumption DEF LanesInv
  <2>7. \A e \in Entry : ready'[e] /\ failed'[e] => \A m \in Lane : home'[m] # e
    BY <1>b DEF LanesInv
  <2>8. \A d \in Caller : pc'[d] = "leased" => lane'[d] \in Lane
    BY <1>c DEF LanesInv
  <2> QED
    BY <2>3, <2>4, <2>5, <2>6, <2>7, <2>8 DEF LanesInv
<1>9. OnlyPublishLeaks'
  BY <1>c DEF OnlyPublishLeaks, Owned, Holds
<1>10. CountdownRuns'
  BY <1>c DEF CountdownRuns, Holds, Arriving
<1> QED
  BY <1>1, <1>2, <1>3, <1>4, <1>5, <1>6, <1>7, <1>8, <1>9, <1>10

\* What release changes, whoever calls it.
LEMMA ReleaseStep ==
    ASSUME IInv, NEW c \in Caller, Leasing(c), NEW lanes \in SUBSET Lane,
           pc[c] = "lane" => lanes = {},
           pc[c] = "leased" => lanes = {lane[c]},
           release(c, lanes)
    PROVE  IInv'
<1> DEFINE e == entry[c]
           reaps == busy[e] = 1 /\ (closed \/ models[path[e]] # e)
<1>p. /\ busy[e] - 1 \in Nat
      /\ busy[e] - 1 # 0 => busy[e] - 1 > 0
  BY LeaseFacts
<1> USE DEF IInv, release, Gone, Counts, Goto, Return, StartClosing, poolVars, laneVars, TypeOK
<1>a. /\ e \in Entry /\ path[e] \in Path /\ busy[e] \in Nat \ {0}
      /\ ready[e] /\ ~failed[e] /\ closing[e] = "no"
      /\ model[e] = "open" /\ commits[e] = 0
  BY LeaseFacts
<1>b. /\ pc'[c] = (IF reaps THEN "reap" ELSE "idle")
      /\ \A d \in Caller \ {c} : pc'[d] = pc[d] /\ entry'[d] = entry[d] /\ want'[d] = want[d]
      /\ \A d \in Caller \ {c} : lane'[d] = lane[d]
      /\ reaps => entry'[c] = e
  BY <1>a
<1>c. /\ \A f \in Entry \ {e} : UNCHANGED <<closing[f], commits[f], busy[f], idle[f],
                                            recent[f], timer[f]>>
      /\ busy'[e] = busy[e] - 1
      /\ idle'[e] = idle[e] \cup lanes
      /\ closing'[e] = (IF reaps THEN "lanes" ELSE "no")
      /\ commits'[e] = (IF reaps THEN 1 ELSE 0)
      /\ (busy'[e] = 0 /\ ~reaps /\ expires) => timer'[e]
  BY <1>a
<1>d. ~Leasing(c)' /\ \A d \in Caller \ {c} : Leasing(d)' <=> Leasing(d)
  BY <1>b DEF Leasing
<1>e. (reaps => ~Holds(e)) /\ \A f \in Entry : Holds(f)' = Holds(f)
  <2>1. closed => models[path[e]] = None
    BY <1>a DEF HeldInv
  <2>2. reaps => models[path[e]] # e
    BY <1>a, <2>1, PoolAssumption
  <2> QED
    BY <2>2 DEF Holds
<1>1. TypeOK'
  <2>1. pc' \in [Caller -> PCs] /\ entry' \in [Caller -> Entry \cup {None}]
    BY <1>a, ZenonT(40) DEF PCs
  <2>2. want' \in [Caller -> (Path \cup {None}) \X (LaneType \cup {None})]
    <3>1. want' = want \/ want' = [want EXCEPT ![c] = <<None, None>>]
      OBVIOUS
    <3>2. <<None, None>> \in (Path \cup {None}) \X (LaneType \cup {None})
      OBVIOUS
    <3> QED
      BY <3>1, <3>2
  <2>3. busy' \in [Entry -> Nat]
    <3>1. busy' = [busy EXCEPT ![e] = busy[e] - 1]
      BY DEF release
    <3> QED
      BY <1>p, <3>1
  <2>4. commits' \in [Entry -> Nat] /\ closing' \in [Entry -> {"no", "lanes", "model", "done"}]
    <3>1. CASE UNCHANGED <<closing, commits>>
      BY <3>1
    <3>2. CASE StartClosing({e})
      BY <1>a, <3>2
    <3> QED
      BY <3>1, <3>2
  <2>6. timer' \in [Entry -> BOOLEAN] /\ recent' \in [Entry -> BOOLEAN]
    BY <1>a
  <2>5. idle' \in [Entry -> SUBSET Lane] /\ lane' \in [Caller -> Lane \cup {None}]
    BY <1>a
  <2> QED
    BY <2>1, <2>2, <2>3, <2>4, <2>5, <2>6
<1>2. LocalsInv'
  BY <1>a, <1>b DEF LocalsInv
<1>3. HeldInv'
  BY DEF HeldInv
<1>4. OpeningInv'
  <2>1. \A d \in Caller, f \in Entry : Opens(d, f)' <=> Opens(d, f)
    BY <1>b DEF Opens, Leasing
  <2>2. \A d \in Caller : pc'[d] \in {"opening", "publish"} \/ pc[d] \in {"opening", "publish"}
                          => pc'[d] = pc[d] /\ entry'[d] = entry[d]
    BY <1>b DEF Leasing
  <2> QED
    BY <1>a, <1>c, <2>1, <2>2 DEF OpeningInv
<1>5. PublishInv'
  <2>1. \A d \in Caller : pc'[d] = "publish" => pc[d] = "publish" /\ entry'[d] = entry[d]
    BY <1>b
  <2> QED
    BY <1>e, <2>1 DEF PublishInv, LocalsInv
<1>6. BusyInv'
  BY <1>b, <1>d, BusyReturned
<1>7. ReadyInv'
  BY <1>a, <1>c, <1>e DEF ReadyInv, ReadyEntry
<1>8. LanesInv'
  <2>1. lanes # {} => pc[c] = "leased" /\ lanes = {lane[c]}
    BY DEF Leasing
  <2>2. \A l \in lanes : home[l] = e /\ l \notin shut
    BY <2>1 DEF LanesInv, LaneExclusive
  <2>3. \A d \in Caller \ {c} : pc[d] = "leased" => lane[d] \notin lanes
    BY <2>1 DEF LanesInv, LaneExclusive
  <2>4. LaneExclusive'
    BY <1>a, <1>b, <1>c, <2>3 DEF LanesInv, LaneExclusive
  <2>5. ASSUME NEW l \in Lane, NEW f \in Entry, home[l] = f
        PROVE  \/ l \in idle'[f]
               \/ l \in shut'
               \/ \E d \in Caller : pc'[d] = "leased" /\ lane'[d] = l /\ entry'[d] = f
    <3>1. CASE l \in idle[f] \/ l \in shut
      BY <1>a, <1>c, <3>1
    <3>2. CASE \E d \in Caller : pc[d] = "leased" /\ lane[d] = l /\ entry[d] = f
      <4>1. PICK d \in Caller : pc[d] = "leased" /\ lane[d] = l /\ entry[d] = f
        BY <3>2
      <4>2. CASE d = c
        BY <1>c, <4>1, <4>2
      <4>3. CASE d # c
        BY <1>b, <4>1, <4>3
      <4> QED
        BY <4>2, <4>3
    <3> QED
      BY <2>5, <3>1, <3>2 DEF LanesInv
  <2>6. \A f \in Entry : \A l \in idle'[f] : home'[l] = f /\ l \notin shut'
    BY <1>a, <1>c, <2>2 DEF LanesInv
  <2>7. \A d \in Caller : pc'[d] = "leased" => lane'[d] \in Lane
    BY <1>b DEF LanesInv
  <2> QED
    BY <2>4, <2>5, <2>6, <2>7 DEF LanesInv
<1>9. OnlyPublishLeaks'
  <2> SUFFICES ASSUME NEW f \in Entry, model'[f] = "open"
               PROVE  Owned(f)' \/ f \in orphaned'
    BY DEF OnlyPublishLeaks
  <2>1. CASE f = e
    <3>1. busy'[e] = 0 => reaps \/ Holds(e)
      BY <1>a, <1>c, PoolAssumption DEF Holds
    <3>2. CASE busy'[e] = 0 /\ reaps
      BY <1>c, <2>1, <3>2 DEF Owned
    <3>3. CASE busy'[e] = 0 /\ Holds(e)
      BY <1>a, <1>e, <2>1, <3>3 DEF Owned
    <3>4. CASE busy'[e] # 0
      <4>1. busy'[e] > 0
        BY <1>c, <1>p, <3>4
      <4> QED
        BY <2>1, <4>1 DEF Owned
    <3> QED
      BY <3>1, <3>2, <3>3, <3>4
  <2>2. CASE f # e
    <3>1. Owned(f) \/ f \in orphaned
      BY DEF OnlyPublishLeaks
    <3>2. \A d \in Caller : pc[d] = "publish" => pc'[d] = "publish" /\ entry'[d] = entry[d]
      BY <1>b DEF Leasing
    <3> QED
      BY <1>c, <1>e, <2>2, <3>1, <3>2 DEF Owned
  <2> QED
    BY <2>1, <2>2
<1>10. CountdownRuns'
  <2> SUFFICES ASSUME expires', NEW f \in Entry, Holds(f)', busy'[f] = 0
               PROVE  timer'[f] \/ (firing'[f] > 0 /\ ~recent'[f]) \/ Arriving(f)'
    BY DEF CountdownRuns
  <2>1. CASE f = e
    BY <1>c, <1>e, <2>1
  <2>2. CASE f # e
    <3>1. timer[f] \/ (firing[f] > 0 /\ ~recent[f]) \/ Arriving(f)
      BY <1>c, <1>e, <2>2 DEF CountdownRuns
    <3>2. Arriving(f) => Arriving(f)'
      BY <1>b DEF Arriving, Leasing
    <3> QED
      BY <1>c, <2>2, <3>1, <3>2
  <2> QED
    BY <2>1, <2>2
<1> QED
  BY <1>1, <1>2, <1>3, <1>4, <1>5, <1>6, <1>7, <1>8, <1>9, <1>10

\* A lease without a lane is given back.
LEMMA LaneFailsStep ==
    ASSUME IInv, NEW c \in Caller, LaneFails(c)
    PROVE  IInv'
<1> QED
  BY ReleaseStep DEF LaneFails, Leasing

\* A lease is given back with its lane.
LEMMA LeaseReleaseStep ==
    ASSUME IInv, NEW c \in Caller, Release(c)
    PROVE  IInv'
<1>1. lane[c] \in Lane
  BY DEF IInv, LanesInv, Release
<1> QED
  BY <1>1, ReleaseStep DEF Release, Leasing

\* release returns after the close it performed.
LEMMA ReapReturnsStep ==
    ASSUME IInv, NEW c \in Caller, ReapReturns(c)
    PROVE  IInv'
<1> USE PoolAssumption DEF IInv, ReapReturns, Goto, Return, poolVars, entryVars,
         closeVars, laneVars, TypeOK
<1>1. TypeOK'
  BY DEF PCs
<1>2. LocalsInv'
  BY DEF LocalsInv
<1>3. HeldInv'
  BY DEF HeldInv
<1>4. OpeningInv'
  BY DEF OpeningInv, Opens
<1>5. PublishInv'
  BY DEF PublishInv, Holds
<1>6. BusyInv'
  BY BusySame DEF Leasing
<1>7. ReadyInv'
  BY DEF ReadyInv, ReadyEntry, Holds
<1>8. LanesInv'
  BY DEF LanesInv, LaneExclusive
<1>9. OnlyPublishLeaks'
  BY DEF OnlyPublishLeaks, Owned, Holds
<1>10. CountdownRuns'
  BY DEF CountdownRuns, Holds, Arriving
<1> QED
  BY <1>1, <1>2, <1>3, <1>4, <1>5, <1>6, <1>7, <1>8, <1>9, <1>10

\* Close returns.
LEMMA CloseReturnsStep ==
    ASSUME IInv, NEW c \in Caller, CloseReturns(c)
    PROVE  IInv'
<1> USE PoolAssumption DEF IInv, CloseReturns, Goto, poolVars, entryVars,
         closeVars, laneVars, localVars, TypeOK
<1>1. TypeOK'
  BY DEF PCs
<1>2. LocalsInv'
  BY DEF LocalsInv
<1>3. HeldInv'
  BY DEF HeldInv
<1>4. OpeningInv'
  BY DEF OpeningInv, Opens
<1>5. PublishInv'
  BY DEF PublishInv, Holds
<1>6. BusyInv'
  BY BusySame DEF Leasing
<1>7. ReadyInv'
  BY DEF ReadyInv, ReadyEntry, Holds
<1>8. LanesInv'
  BY DEF LanesInv, LaneExclusive
<1>9. OnlyPublishLeaks'
  BY DEF OnlyPublishLeaks, Owned, Holds
<1>10. CountdownRuns'
  BY SMTT(20) DEF CountdownRuns, Holds, Arriving
<1> QED
  BY <1>1, <1>2, <1>3, <1>4, <1>5, <1>6, <1>7, <1>8, <1>9, <1>10

\* Close drops every entry; what it does not close has a lease or an opener.
LEMMA CloseStep ==
    ASSUME IInv, NEW c \in Caller, Close(c)
    PROVE  IInv'
<1> USE PoolAssumption DEF IInv, Close, Goto, StartClosing, entryVars, laneVars,
         localVars, TypeOK
<1>1. TypeOK'
  BY DEF PCs
<1>2. LocalsInv'
  BY DEF LocalsInv
<1>3. HeldInv'
  BY DEF HeldInv
<1>4. OpeningInv'
  BY DEF OpeningInv, Opens
<1>5. PublishInv'
  <2>1. \A e \in Entry : ~Holds(e)'
    BY DEF Holds
  <2> QED
    BY <2>1 DEF LocalsInv, PublishInv
<1>6. BusyInv'
  BY BusySame DEF Leasing
<1>7. ReadyInv'
  BY DEF ReadyInv, ReadyEntry, Holds
<1>8. LanesInv'
  BY DEF LanesInv, LaneExclusive
<1>9. OnlyPublishLeaks'
  <2> SUFFICES ASSUME NEW e \in Entry, model'[e] = "open"
               PROVE  Owned(e)' \/ e \in orphaned'
    BY DEF OnlyPublishLeaks
  <2>1. \A d \in Caller : pc[d] # "idle" => pc'[d] = pc[d]
    OBVIOUS
  <2>2. CASE Holds(e)
    <3>1. CASE ready[e] /\ busy[e] = 0
      BY <2>2, <3>1 DEF Owned
    <3>2. CASE ready[e] /\ busy[e] # 0
      BY <3>2 DEF Owned
    <3>3. CASE ~ready[e]
      BY <2>2, <3>3 DEF OpeningInv
    <3> QED
      BY <3>1, <3>2, <3>3
  <2>3. CASE ~Holds(e)
    BY <2>1, <2>3 DEF Owned, OnlyPublishLeaks
  <2> QED
    BY <2>2, <2>3
<1>10. CountdownRuns'
  BY DEF CountdownRuns, Holds, Arriving
<1> QED
  BY <1>1, <1>2, <1>3, <1>4, <1>5, <1>6, <1>7, <1>8, <1>9, <1>10

\* Time passes.
LEMMA ElapseStep ==
    ASSUME IInv, NEW e \in Entry, Elapse(e)
    PROVE  IInv'
<1> USE PoolAssumption DEF IInv, Elapse, poolVars, closeVars, laneVars,
         localVars, TypeOK
<1>1. TypeOK'
  BY DEF PCs
<1>2. LocalsInv'
  BY DEF LocalsInv
<1>3. HeldInv'
  BY DEF HeldInv
<1>4. OpeningInv'
  BY DEF OpeningInv, Opens
<1>5. PublishInv'
  BY DEF PublishInv, Holds
<1>6. BusyInv'
  BY BusySame DEF Leasing
<1>7. ReadyInv'
  BY DEF ReadyInv, ReadyEntry, Holds
<1>8. LanesInv'
  BY DEF LanesInv, LaneExclusive
<1>9. OnlyPublishLeaks'
  BY DEF OnlyPublishLeaks, Owned, Holds
<1>10. CountdownRuns'
  BY DEF CountdownRuns, Holds, Arriving
<1> QED
  BY <1>1, <1>2, <1>3, <1>4, <1>5, <1>6, <1>7, <1>8, <1>9, <1>10

\* A due timer starts its callback.
LEMMA FireStep ==
    ASSUME IInv, NEW e \in Entry, Fire(e)
    PROVE  IInv'
<1> USE PoolAssumption DEF IInv, Fire, poolVars, closeVars, laneVars, localVars,
         TypeOK
<1>1. TypeOK'
  BY DEF PCs
<1>2. LocalsInv'
  BY DEF LocalsInv
<1>3. HeldInv'
  BY DEF HeldInv
<1>4. OpeningInv'
  BY DEF OpeningInv, Opens
<1>5. PublishInv'
  BY DEF PublishInv, Holds
<1>6. BusyInv'
  BY BusySame DEF Leasing
<1>7. ReadyInv'
  BY DEF ReadyInv, ReadyEntry, Holds
<1>8. LanesInv'
  BY DEF LanesInv, LaneExclusive
<1>9. OnlyPublishLeaks'
  BY DEF OnlyPublishLeaks, Owned, Holds
<1>10. CountdownRuns'
  BY DEF CountdownRuns, Holds, Arriving
<1> QED
  BY <1>1, <1>2, <1>3, <1>4, <1>5, <1>6, <1>7, <1>8, <1>9, <1>10

\* The callback closes an entry only when it is held, unused and due.
LEMMA expireStep ==
    ASSUME IInv, NEW e \in Entry, expire(e)
    PROVE  IInv'
<1> USE PoolAssumption DEF IInv, expire, Unused, StartClosing, Drop, laneVars,
         localVars, TypeOK
<1>1. TypeOK'
  BY SMTT(20) DEF PCs, LocalsInv, HeldInv, Holds
<1>2. LocalsInv'
  BY DEF LocalsInv
<1>3. HeldInv'
  BY ZenonT(40) DEF HeldInv
<1>4. OpeningInv'
  BY DEF OpeningInv, Opens
<1>5. PublishInv'
  BY DEF PublishInv, Holds, LocalsInv, HeldInv, OpeningInv, Opens
<1>6. BusyInv'
  BY BusySame DEF Leasing
<1>7. ReadyInv'
  BY DEF ReadyInv, ReadyEntry, Holds, LocalsInv, HeldInv, OpeningInv, Opens,
         PublishInv
<1>8. LanesInv'
  BY DEF LanesInv, LaneExclusive
<1>9. OnlyPublishLeaks'
  BY SMTT(20) DEF OnlyPublishLeaks, Owned, Holds
<1>10. CountdownRuns'
  BY SMTT(20) DEF CountdownRuns, Holds, Arriving
<1> QED
  BY <1>1, <1>2, <1>3, <1>4, <1>5, <1>6, <1>7, <1>8, <1>9, <1>10

\* The idle lanes of a closing entry are all its lanes.
LEMMA CloseLanesStep ==
    ASSUME IInv, NEW e \in Entry, CloseLanes(e)
    PROVE  IInv'
<1> USE PoolAssumption DEF IInv, CloseLanes, ShutLanes, poolVars, localVars,
         TypeOK
<1>1. TypeOK'
  BY DEF PCs
<1>2. LocalsInv'
  BY DEF LocalsInv
<1>3. HeldInv'
  BY DEF HeldInv
<1>4. OpeningInv'
  BY DEF OpeningInv, Opens
<1>5. PublishInv'
  BY DEF PublishInv, Holds
<1>6. BusyInv'
  BY BusySame DEF Leasing
<1>7. ReadyInv'
  BY DEF ReadyInv, ReadyEntry, Holds
<1>8. LanesInv'
  BY DEF LanesInv, LaneExclusive
<1>9. OnlyPublishLeaks'
  BY DEF OnlyPublishLeaks, Owned, Holds
<1>10. CountdownRuns'
  BY DEF CountdownRuns, Holds, Arriving, LocalsInv, HeldInv, OpeningInv, Opens,
         PublishInv, ReadyInv, ReadyEntry, LanesInv, LaneExclusive
<1> QED
  BY <1>1, <1>2, <1>3, <1>4, <1>5, <1>6, <1>7, <1>8, <1>9, <1>10

\* The model is closed after its lanes.
LEMMA CloseModelStep ==
    ASSUME IInv, NEW e \in Entry, CloseModel(e)
    PROVE  IInv'
<1> USE PoolAssumption DEF IInv, CloseModel, poolVars, laneVars, localVars,
         TypeOK
<1>1. TypeOK'
  BY DEF PCs
<1>2. LocalsInv'
  BY DEF LocalsInv
<1>3. HeldInv'
  BY DEF HeldInv
<1>4. OpeningInv'
  BY DEF OpeningInv, Opens
<1>5. PublishInv'
  BY DEF PublishInv, Holds, LocalsInv, HeldInv, OpeningInv, Opens
<1>6. BusyInv'
  BY BusySame DEF Leasing
<1>7. ReadyInv'
  BY DEF ReadyInv, ReadyEntry, Holds
<1>8. LanesInv'
  BY DEF LanesInv, LaneExclusive
<1>9. OnlyPublishLeaks'
  BY DEF OnlyPublishLeaks, Owned, Holds
<1>10. CountdownRuns'
  BY DEF CountdownRuns, Holds, Arriving
<1> QED
  BY <1>1, <1>2, <1>3, <1>4, <1>5, <1>6, <1>7, <1>8, <1>9, <1>10

-----------------------------------------------------------------------------
\* A new pool satisfies the invariant.
LEMMA InitInv == Init => IInv
<1> SUFFICES ASSUME Init PROVE IInv
  OBVIOUS
<1> USE DEF Init
<1>1. TypeOK
  BY PoolAssumption DEF TypeOK, PCs
<1>2. LocalsInv /\ HeldInv /\ OpeningInv /\ PublishInv /\ ReadyInv
  BY PoolAssumption DEF LocalsInv, HeldInv, OpeningInv, Opens, PublishInv, ReadyInv, ReadyEntry, Holds
<1>3. BusyInv
  <2>1. \A e \in Entry : Leases(e) = {}
    BY DEF Leases, Leasing
  <2> QED
    BY <2>1, FS_EmptySet DEF BusyInv
<1>4. LanesInv
  BY PoolAssumption DEF LanesInv, LaneExclusive
<1>5. OnlyPublishLeaks /\ CountdownRuns
  BY DEF OnlyPublishLeaks, CountdownRuns, Holds
<1> QED
  BY <1>1, <1>2, <1>3, <1>4, <1>5 DEF IInv

\* Every step of the pool preserves the invariant.
LEMMA NextInv == IInv /\ [Next]_vars => IInv'
<1> SUFFICES ASSUME IInv, [Next]_vars PROVE IInv'
  OBVIOUS
<1>1. CASE UNCHANGED vars
  <2>1. UNCHANGED <<poolVars, entryVars, closeVars, laneVars, localVars, pc>>
    BY <1>1 DEF vars
  <2>2. TypeOK' /\ LocalsInv' /\ HeldInv'
    BY <2>1 DEF IInv, TypeOK, LocalsInv, HeldInv, poolVars, entryVars, closeVars, laneVars, localVars
  <2>3. OpeningInv' /\ PublishInv' /\ ReadyInv'
    BY <2>1 DEF IInv, OpeningInv, Opens, PublishInv, ReadyInv, ReadyEntry, Holds, poolVars, entryVars, closeVars, laneVars, localVars
  <2>4. BusyInv'
    BY <2>1, BusySame DEF Leasing, entryVars, localVars
  <2>5. LanesInv'
    BY <2>1 DEF IInv, LanesInv, LaneExclusive, poolVars, entryVars, closeVars, laneVars, localVars
  <2>6. OnlyPublishLeaks' /\ CountdownRuns'
    BY <2>1 DEF IInv, OnlyPublishLeaks, Owned, CountdownRuns, Arriving, Holds, poolVars, entryVars, closeVars, laneVars, localVars
  <2> QED
    BY <2>2, <2>3, <2>4, <2>5, <2>6 DEF IInv
<1>2. CASE \E c \in Caller, p \in Path, t \in LaneType : Acquire(c, p, t)
  BY <1>2, AcquireStep
<1>3. ASSUME NEW c \in Caller, CallerStep(c) PROVE IInv'
  BY <1>3, GetClosedStep, GetHeldStep, GetNewStep, OpenReturnsStep, PublishStep,
     AcquireFailsStep, AcquireRetriesStep, AcquireTakesStep, LaneOpenedStep,
     LaneFailsStep, LeaseReleaseStep, ReapReturnsStep, CloseReturnsStep DEF CallerStep
<1>4. CASE \E c \in Caller : Close(c)
  BY <1>4, CloseStep
<1>5. CASE \E e \in Entry : Elapse(e)
  BY <1>5, ElapseStep
<1>6. ASSUME NEW e \in Entry, EntryStep(e) PROVE IInv'
  BY <1>6, FireStep, expireStep, CloseLanesStep, CloseModelStep DEF EntryStep
<1> QED
  BY <1>1, <1>2, <1>3, <1>4, <1>5, <1>6 DEF Next

\* The invariant holds in every reachable state.
THEOREM PoolInvariant == Spec => []IInv
<1> QED
  BY InitInv, NextInv, PTL DEF Spec

\* The types of the pool's state (NewPool and every operation).
THEOREM TypeCorrect == Spec => []TypeOK
<1>1. IInv => TypeOK
  BY DEF IInv
<1> QED
  BY <1>1, PoolInvariant, PTL

\* Lease: "Its model stays open until the lease is released", whatever
\* expire, Close and the other callers do.
THEOREM LeaseKeepsModelOpen == Spec => []LeasedModelOpen
<1>1. IInv => LeasedModelOpen
  BY LeaseFacts DEF LeasedModelOpen
<1> QED
  BY <1>1, PoolInvariant, PTL

\* A lane is lent to one caller at a time and never closed under it.
THEOREM LanesAreExclusive == Spec => []LaneExclusive
<1>1. IInv => LaneExclusive
  BY DEF IInv, LanesInv
<1> QED
  BY <1>1, PoolInvariant, PTL

\* expire, release, Close and get between them close a model at most once.
THEOREM ModelClosedOnce == Spec => []ClosedOnce
<1>1. ASSUME IInv, NEW e \in Entry PROVE commits[e] <= 1
  <2>1. commits[e] \in Nat /\ closing[e] \in {"no", "lanes", "model", "done"}
    BY <1>1 DEF IInv, TypeOK
  <2>2. CASE ~ready[e]
    BY <1>1, <2>1, <2>2 DEF IInv, OpeningInv
  <2>3. CASE ready[e]
    <3>1. ReadyEntry(e)
      BY <1>1, <2>3 DEF IInv, ReadyInv
    <3> QED
      BY <2>1, <3>1 DEF ReadyEntry
  <2> QED
    BY <2>2, <2>3
<1>2. IInv => ClosedOnce
  BY <1>1 DEF ClosedOnce
<1> QED
  BY <1>2, PoolInvariant, PTL

\* Model.Close asks for it: the lanes of a model are closed before it is.
THEOREM LanesClosedBeforeModel == Spec => []LanesCloseFirst
<1>1. ASSUME IInv PROVE LanesCloseFirst
  <2> SUFFICES ASSUME NEW e \in Entry, model[e] = "closed",
                      NEW l \in Lane, home[l] = e
               PROVE  l \in shut
    BY DEF LanesCloseFirst
  <2>1. ready[e] /\ ~failed[e]
    BY <1>1 DEF IInv, OpeningInv, LanesInv
  <2>2. closing[e] # "no" /\ idle[e] = {} /\ busy[e] = 0
    BY <1>1, <2>1 DEF IInv, ReadyInv, ReadyEntry, TypeOK
  <2>3. ~\E c \in Caller : pc[c] = "leased" /\ entry[c] = e
    BY <1>1, <2>2, LeaseFacts DEF Leasing
  <2> QED
    BY <1>1, <2>2, <2>3 DEF IInv, LanesInv
<1> QED
  BY <1>1, PoolInvariant, PTL

\* The keep-alive countdown of an unused model is never lost.
THEOREM CountdownNeverLost == Spec => []CountdownRuns
<1>1. IInv => CountdownRuns
  BY DEF IInv
<1> QED
  BY <1>1, PoolInvariant, PTL

\* The window between get's last critical section and the publication of the
\* entry is the only way an open model escapes every closer.
THEOREM OnlyPublishCanLeak == Spec => []OnlyPublishLeaks
<1>1. IInv => OnlyPublishLeaks
  BY DEF IInv
<1> QED
  BY <1>1, PoolInvariant, PTL

\* "Acquire fails afterwards": a lease is given out only by a pool that still
\* holds the entry, and so never after Close, not even to a caller that
\* waited for the model to open.
THEOREM NoLeaseOnceClosed == Spec => NoLeaseAfterClose
<1>1. ASSUME IInv, [Next]_vars, NEW c \in Caller, ~Leasing(c), Leasing(c)'
      PROVE  ~closed
  <2>1. ASSUME NEW d \in Caller, AcquireTakes(d) PROVE ~closed
    <3>1. pc[d] = "wait" /\ models[want[d][1]] = entry[d]
      BY <2>1 DEF AcquireTakes, StillHeld
    <3>2. entry[d] \in Entry /\ want[d] \in Path \X LaneType
      BY <1>1, <3>1 DEF IInv, LocalsInv
    <3>3. want[d][1] \in Path /\ models[want[d][1]] # None
      BY <3>1, <3>2, PoolAssumption
    <3> QED
      BY <1>1, <3>3 DEF IInv, HeldInv
  <2>2. pc \in [Caller -> PCs]
    BY <1>1 DEF IInv, TypeOK
  <2>3. CASE UNCHANGED vars
    BY <1>1, <2>3 DEF vars, Leasing
  <2>4. ASSUME NEW d \in Caller, NEW p \in Path, NEW t \in LaneType, Acquire(d, p, t) PROVE FALSE
    BY <1>1, <2>2, <2>4 DEF Acquire, Goto, Leasing
  <2>5. ASSUME NEW d \in Caller, CallerStep(d), ~AcquireTakes(d) PROVE FALSE
    <3>1. \/ pc[d] = "lane" /\ \E x \in PCs : pc' = [pc EXCEPT ![d] = x]
          \/ \E x \in PCs \ {"lane", "leased"} : pc' = [pc EXCEPT ![d] = x]
      BY <2>5 DEF CallerStep, GetClosed, GetHeld, GetNew, OpenReturns, Publish, AcquireFails, AcquireRetries,
                  LaneOpened, LaneFails, Release, release, ReapReturns, CloseReturns, Return, Goto, PCs
    <3> QED
      BY <1>1, <2>2, <3>1 DEF Leasing
  <2>6. ASSUME NEW d \in Caller, Close(d) PROVE FALSE
    BY <1>1, <2>2, <2>6 DEF Close, Goto, Leasing
  <2>7. ASSUME NEW e \in Entry, Elapse(e) \/ EntryStep(e) PROVE FALSE
    BY <1>1, <2>7 DEF Elapse, EntryStep, Fire, expire, CloseLanes, CloseModel, Leasing
  <2> QED
    BY <1>1, <2>1, <2>3, <2>4, <2>5, <2>6, <2>7 DEF Next
<1>2. IInv /\ [Next]_vars => [\A c \in Caller : ~Leasing(c) /\ Leasing(c)' => ~closed]_vars
  BY <1>1
<1> QED
  BY <1>2, PoolInvariant, PTL DEF Spec, NoLeaseAfterClose

-----------------------------------------------------------------------------
(***************************************************************************)
(* What an open pool holds, built on the invariant above.                  *)
(***************************************************************************)
\* An entry whose model is open, or opening, and that nobody closes.
Live(e) ==
    /\ path[e] # None
    /\ closing[e] = "no"
    /\ model[e] = "open" \/ \E c \in Caller : pc[c] = "opening" /\ entry[c] = e

\* An open pool holds what is live, and a path never has two live entries,
\* not even in a closed pool.
LiveInv ==
    /\ ~closed => \A e \in Entry : Live(e) => Holds(e)
    /\ \A e, f \in Entry : Live(e) /\ Live(f) /\ path[e] = path[f] => e = f

\* A step after which nothing is live that was not, and which drops nothing
\* live while the pool is open.
LEMMA LiveKept ==
    ASSUME LiveInv, \A f \in Entry : Live(f)' => Live(f) /\ path'[f] = path[f],
           ~closed' => ~closed /\ \A f \in Entry : Live(f)' /\ Holds(f) => Holds(f)'
    PROVE  LiveInv'
<1>1. ~closed' => \A f \in Entry : Live(f)' => Holds(f)'
  BY DEF LiveInv
<1>2. \A e, f \in Entry : Live(e)' /\ Live(f)' /\ path'[e] = path'[f] => e = f
  BY DEF LiveInv
<1> QED
  BY <1>1, <1>2 DEF LiveInv

\* Steps that leave the pool's map, the models and the openers alone.
LEMMA LiveSame ==
    ASSUME IInv, LiveInv, UNCHANGED <<models, closed, path, model>>,
           \A e \in Entry : closing'[e] = "no" => closing[e] = "no",
           \A c \in Caller : pc'[c] = "opening" => pc[c] = "opening" /\ entry'[c] = entry[c]
    PROVE  LiveInv'
<1>1. \A f \in Entry : Live(f)' => Live(f) /\ path'[f] = path[f]
  BY DEF Live
<1>2. \A f \in Entry : Holds(f)' = Holds(f)
  BY DEF Holds
<1> QED
  BY <1>1, <1>2, LiveKept

\* Every step of the pool keeps what is live in it.
LEMMA LiveNext == IInv /\ LiveInv /\ [Next]_vars => LiveInv'
<1> SUFFICES ASSUME IInv, LiveInv, [Next]_vars PROVE LiveInv'
  OBVIOUS
<1> USE DEF poolVars, entryVars, closeVars, laneVars, localVars
<1>t. pc \in [Caller -> PCs] /\ entry \in [Caller -> Entry \cup {None}] /\ models \in [Path -> Entry \cup {None}]
      /\ model \in [Entry -> {"none", "open", "closed"}] /\ path \in [Entry -> Path \cup {None}]
      /\ closing \in [Entry -> {"no", "lanes", "model", "done"}]
  BY DEF IInv, TypeOK
<1>1. CASE UNCHANGED vars
  BY <1>1, LiveSame DEF vars
<1>2. ASSUME NEW c \in Caller, NEW p \in Path, NEW t \in LaneType, Acquire(c, p, t) PROVE LiveInv'
  BY <1>2, <1>t, LiveSame DEF Acquire, Goto
<1>3. ASSUME NEW c \in Caller, GetClosed(c) \/ AcquireFails(c) \/ ReapReturns(c) PROVE LiveInv'
  BY <1>3, <1>t, LiveSame DEF GetClosed, AcquireFails, ReapReturns, Return, Goto
<1>4. ASSUME NEW c \in Caller, GetHeld(c) \/ AcquireRetries(c) \/ AcquireTakes(c) \/ CloseReturns(c) PROVE LiveInv'
  <2>1. UNCHANGED <<models, closed, path, model, closing>>
    BY <1>4 DEF GetHeld, AcquireRetries, AcquireTakes, CloseReturns
  <2>2. /\ \E x \in PCs \ {"opening"} : pc' = [pc EXCEPT ![c] = x]
        /\ \A d \in Caller \ {c} : entry'[d] = entry[d]
    BY <1>4, <1>t DEF GetHeld, AcquireRetries, AcquireTakes, CloseReturns, Goto, PCs
  <2> QED
    BY <1>t, <2>1, <2>2, LiveSame
<1>5. ASSUME NEW c \in Caller, NEW l \in Lane, LaneOpened(c, l) PROVE LiveInv'
  BY <1>5, <1>t, LiveSame DEF LaneOpened, Goto
<1>6. ASSUME NEW c \in Caller, NEW lanes, release(c, lanes) PROVE LiveInv'
  <2>1. UNCHANGED <<models, closed, path, model>> /\ \A e \in Entry : closing'[e] = "no" => closing[e] = "no"
    BY <1>6, <1>t DEF release, StartClosing
  <2>2. /\ \E x \in PCs \ {"opening"} : pc' = [pc EXCEPT ![c] = x]
        /\ \A d \in Caller \ {c} : entry'[d] = entry[d]
    BY <1>6, <1>t DEF release, Return, Goto, PCs
  <2> QED
    BY <1>t, <2>1, <2>2, LiveSame
<1>7. ASSUME NEW e \in Entry, Elapse(e) \/ Fire(e) \/ CloseLanes(e) PROVE LiveInv'
  BY <1>7, <1>t, LiveSame DEF Elapse, Fire, CloseLanes
<1>8. ASSUME NEW e \in Entry, CloseModel(e) PROVE LiveInv'
  <2>1. UNCHANGED <<models, closed, path, pc, entry>>
    BY <1>8 DEF CloseModel
  <2>2. \A f \in Entry : Live(f)' => Live(f)
    BY <1>8, <1>t, <2>1 DEF CloseModel, Live
  <2> QED
    BY <2>1, <2>2, LiveKept DEF Holds
<1>9. ASSUME NEW c \in Caller, NEW e \in Entry, GetNew(c, e) PROVE LiveInv'
  <2>1. /\ ~closed /\ closed' = closed /\ path[e] = None /\ models[want[c][1]] = None
        /\ path' = [path EXCEPT ![e] = want[c][1]] /\ models' = [models EXCEPT ![want[c][1]] = e]
        /\ pc[c] = "get" /\ entry' = [entry EXCEPT ![c] = e] /\ pc' = [pc EXCEPT ![c] = "opening"]
        /\ UNCHANGED <<model, closing>>
    BY <1>9 DEF GetNew, Absent, Goto
  <2>2. want[c][1] \in Path
    BY <2>1 DEF IInv, LocalsInv
  <2>3. \A f \in Entry \ {e} : Live(f)' => Live(f) /\ path'[f] = path[f]
    BY <1>t, <2>1 DEF Live
  <2>4. \A f \in Entry \ {e} : Live(f) => Holds(f) /\ path[f] # want[c][1]
    BY <2>1, PoolAssumption DEF LiveInv, Holds
  <2>5. Holds(e)' /\ path'[e] = want[c][1]
    BY <1>t, <2>1, <2>2, PoolAssumption DEF Holds
  <2>6. \A f \in Entry \ {e} : Live(f)' => Holds(f)' /\ path'[f] # path'[e]
    BY <1>t, <2>1, <2>3, <2>4, <2>5 DEF Holds
  <2>7. \A f \in Entry : Live(f)' => Holds(f)'
    BY <2>5, <2>6
  <2>8. \A f, g \in Entry : Live(f)' /\ Live(g)' /\ path'[f] = path'[g] => f = g
    BY <2>3, <2>6 DEF LiveInv
  <2> QED
    BY <2>7, <2>8 DEF LiveInv
<1>10. ASSUME NEW c \in Caller, NEW ok \in BOOLEAN, OpenReturns(c, ok) PROVE LiveInv'
  <2> DEFINE e == entry[c]
  <2>1. /\ pc[c] = "opening" /\ pc' = [pc EXCEPT ![c] = "publish"] /\ UNCHANGED <<closed, path, closing, entry>>
        /\ \A f \in Entry \ {e} : model'[f] = model[f]
        /\ \/ model'[e] = "open" /\ models' = models
           \/ model'[e] = "none" /\ (models' = models \/ (models[path[e]] = e /\ models' = [models EXCEPT ![path[e]] = None]))
    <3>1. e \in Entry
      BY <1>10 DEF OpenReturns, IInv, LocalsInv
    <3>2. CASE ok
      BY <1>10, <1>t, <3>1, <3>2 DEF OpenReturns, Goto
    <3>3. CASE ~ok
      <4>1. model' = [model EXCEPT ![e] = "none"] /\ pc[c] = "opening" /\ pc' = [pc EXCEPT ![c] = "publish"]
            /\ UNCHANGED <<closed, path, closing, entry>>
        BY <1>10, <3>3 DEF OpenReturns, Goto
      <4>2. models' = models \/ (models[path[e]] = e /\ models' = [models EXCEPT ![path[e]] = None])
        BY <1>10, <3>3 DEF OpenReturns, Drop
      <4> QED
        BY <1>t, <3>1, <4>1, <4>2
    <3> QED
      BY <3>2, <3>3
  <2>2. e \in Entry /\ ~ready[e] /\ path[e] # None /\ closing[e] = "no"
    BY <2>1 DEF IInv, LocalsInv, OpeningInv, Opens
  <2>3. \A d \in Caller \ {c} : ~(pc[d] = "opening" /\ entry[d] = e)
    BY <2>1, <2>2 DEF IInv, OpeningInv, Opens
  <2>4. Live(e)
    BY <2>1, <2>2 DEF Live
  <2>5. \A f \in Entry \ {e} : Live(f)' => Live(f)
    BY <1>t, <2>1 DEF Live
  <2>6. \A f \in Entry : f = e /\ Live(f)' => models' = models
    BY <1>t, <2>1, <2>2, <2>3 DEF Live
  <2>7. \A f \in Entry : Live(f)' => Live(f)
    BY <2>4, <2>5
  <2>8. \A f \in Entry : Live(f)' /\ Holds(f) => Holds(f)'
    <3>1. SUFFICES ASSUME NEW f \in Entry, Live(f)', Holds(f) PROVE Holds(f)'
      OBVIOUS
    <3>2. CASE models' = models
      BY <2>1, <3>1, <3>2 DEF Holds
    <3>3. CASE models' # models
      <4>1. f # e
        BY <2>6, <3>1, <3>3
      <4>2. models[path[e]] = e /\ models' = [models EXCEPT ![path[e]] = None]
        BY <2>1, <3>3
      <4>3. path[f] # path[e]
        BY <3>1, <4>1, <4>2 DEF Holds
      <4>4. path[f] \in Path
        BY <1>t, <3>1 DEF Holds
      <4> QED
        BY <1>t, <2>1, <3>1, <4>2, <4>3, <4>4 DEF Holds
    <3> QED
      BY <3>2, <3>3
  <2> QED
    BY <2>1, <2>7, <2>8, LiveKept
<1>11. ASSUME NEW c \in Caller, Publish(c) PROVE LiveInv'
  <2>1. /\ UNCHANGED <<models, closed, path, closing, entry>> /\ pc' = [pc EXCEPT ![c] = "wait"]
        /\ \A f \in Entry : model'[f] = "open" => model[f] = "open"
    BY <1>11, <1>t DEF Publish, Goto
  <2>2. \A f \in Entry : Live(f)' => Live(f)
    BY <1>t, <2>1 DEF Live
  <2> QED
    BY <2>1, <2>2, LiveKept DEF Holds
<1>12. ASSUME NEW e \in Entry, expire(e) PROVE LiveInv'
  <2>1. UNCHANGED <<closed, path, model, pc, entry>>
    BY <1>12 DEF expire
  <2>2. CASE UNCHANGED <<models, closing>>
    BY <2>1, <2>2, LiveSame
  <2>3. CASE Unused(e) /\ Drop(e) /\ StartClosing({e})
    <3>1. models[path[e]] = e /\ models' = [models EXCEPT ![path[e]] = None]
          /\ closing'[e] = "lanes" /\ \A f \in Entry \ {e} : closing'[f] = closing[f]
      BY <2>3 DEF Unused, Drop, StartClosing
    <3>2. \A f \in Entry : Live(f)' => Live(f) /\ f # e
      BY <2>1, <3>1 DEF Live
    <3>3. \A f \in Entry : Live(f)' /\ Holds(f) => Holds(f)'
      BY <1>t, <2>1, <3>1, <3>2 DEF Holds
    <3> QED
      BY <2>1, <3>2, <3>3, LiveKept
  <2> QED
    BY <1>12, <2>2, <2>3 DEF expire
<1>13. ASSUME NEW c \in Caller, Close(c) PROVE LiveInv'
  <2>1. /\ closed' = TRUE /\ UNCHANGED <<path, model, entry>> /\ pc' = [pc EXCEPT ![c] = "closer"]
        /\ \A f \in Entry : closing'[f] = "no" => closing[f] = "no"
    BY <1>13, <1>t DEF Close, StartClosing, Goto
  <2>2. \A f \in Entry : Live(f)' => Live(f)
    BY <1>t, <2>1 DEF Live
  <2> QED
    BY <2>1, <2>2, LiveKept
<1> QED
  BY <1>1, <1>2, <1>3, <1>4, <1>5, <1>6, <1>7, <1>8, <1>9, <1>10, <1>11, <1>12, <1>13
  DEF Next, CallerStep, EntryStep, LaneFails, Release

\* And holds in every reachable state.
THEOREM PoolHoldsLive == Spec => []LiveInv
<1>1. Init => LiveInv
  BY PoolAssumption DEF Init, LiveInv, Live
<1> QED
  BY <1>1, LiveNext, PoolInvariant, PTL DEF Spec

\* At most one model of a path is resident: get opens another one only when
\* the one before is closed, closing or failed.
THEOREM OneModelOpen == Spec => []OneModelPerPath
<1>1. LiveInv => OneModelPerPath
  BY DEF LiveInv, Live, OneModelPerPath
<1> QED
  BY <1>1, PoolHoldsLive, PTL

\* Loaded lists no model that is closed, closing or failed.
THEOREM LoadedModelsAreOpen == Spec => []LoadedIsOpen
<1>1. ASSUME IInv, NEW p \in Loaded PROVE model[models[p]] = "open" /\ closing[models[p]] = "no"
  <2>1. p \in Path /\ models[p] \in Entry /\ ready[models[p]] /\ ~failed[models[p]]
    BY <1>1 DEF Loaded, IInv, TypeOK
  <2>2. Holds(models[p])
    BY <1>1, <2>1, PoolAssumption DEF IInv, HeldInv, Holds
  <2> QED
    BY <1>1, <2>1, <2>2 DEF IInv, ReadyInv, ReadyEntry
<1>2. IInv => LoadedIsOpen
  BY <1>1 DEF LoadedIsOpen
<1> QED
  BY <1>2, PoolInvariant, PTL

\* While the pool is open a model is closed only when it is unused and its
\* keep-alive time has passed, however late the expiry callback runs; a
\* release closes none.
THEOREM OnlyUnusedExpire == Spec => ExpireOnlyUnused
<1>1. ASSUME IInv, LiveInv, [Next]_vars, NEW e \in Entry, closing[e] = "no", closing'[e] # "no", ~closed'
      PROVE  ~recent[e] /\ busy[e] = 0
  <2> USE DEF poolVars, entryVars, closeVars, laneVars, localVars
  <2>1. ASSUME NEW c \in Caller, NEW lanes, Leasing(c), release(c, lanes) PROVE FALSE
    <3>1. e = entry[c] /\ Gone(e) /\ ~closed
      BY <1>1, <2>1 DEF release, StartClosing
    <3>2. model[e] = "open" /\ path[e] \in Path
      BY <1>1, <2>1, <3>1, LeaseFacts
    <3>3. Holds(e)
      BY <1>1, <3>1, <3>2, PoolAssumption DEF LiveInv, Live
    <3> QED
      BY <3>1, <3>3 DEF Gone, Holds
  <2>2. ASSUME NEW f \in Entry, expire(f) PROVE ~recent[e] /\ busy[e] = 0
    BY <1>1, <2>2 DEF expire, Unused, StartClosing
  <2>3. ASSUME NEW c \in Caller, Close(c) PROVE FALSE
    BY <1>1, <2>3 DEF Close
  <2>4. ASSUME NEW c \in Caller, CallerStep(c), ~LaneFails(c), ~Release(c) PROVE FALSE
    BY <1>1, <2>4 DEF CallerStep, GetClosed, GetHeld, GetNew, OpenReturns, Publish, AcquireFails, AcquireRetries,
                      AcquireTakes, LaneOpened, ReapReturns, CloseReturns
  <2>5. ASSUME NEW c \in Caller, LaneFails(c) \/ Release(c) PROVE FALSE
    BY <2>1, <2>5 DEF LaneFails, Release, Leasing
  <2>6. ASSUME NEW c \in Caller, NEW p \in Path, NEW t \in LaneType, Acquire(c, p, t) PROVE FALSE
    BY <1>1, <2>6 DEF Acquire
  <2>7. ASSUME NEW f \in Entry, Elapse(f) \/ Fire(f) \/ CloseLanes(f) \/ CloseModel(f) PROVE FALSE
    BY <1>1, <2>7 DEF Elapse, Fire, CloseLanes, CloseModel, IInv, TypeOK
  <2>8. CASE UNCHANGED vars
    BY <1>1, <2>8 DEF vars
  <2> QED
    BY <1>1, <2>2, <2>3, <2>4, <2>5, <2>6, <2>7, <2>8 DEF Next, EntryStep
<1>2. IInv /\ LiveInv /\ [Next]_vars =>
        [\A e \in Entry : closing[e] = "no" /\ closing[e]' # "no" /\ ~closed' => ~recent[e] /\ busy[e] = 0]_vars
  BY <1>1
<1> QED
  BY <1>2, PoolInvariant, PoolHoldsLive, PTL DEF Spec, ExpireOnlyUnused
=============================================================================
