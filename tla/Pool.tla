-------------------------------- MODULE Pool --------------------------------
(***************************************************************************)
(* gophonic.Pool (pool.go): models shared among goroutines.  A caller      *)
(* acquires a lane of a model, opening the model when the pool does not    *)
(* hold it, uses it and releases it; a model unused for the keep-alive     *)
(* time is closed by a timer callback; Close closes the pool.              *)
(*                                                                         *)
(* An action is one critical section of Pool.mu, or one step a goroutine   *)
(* makes outside it.  Entries (pooled) and lanes are identities that are   *)
(* allocated once; which idle lane of a type is reused is left open, as    *)
(* lanes of a type are interchangeable.  Time is abstracted to whether the *)
(* keep-alive time has passed since an entry was last used.                *)
(***************************************************************************)
EXTENDS Naturals, FiniteSets

CONSTANTS Caller,     \* goroutines that call Acquire, Release and Close
          Path,       \* model paths
          LaneType,   \* lane interfaces a caller may ask for
          Entry,      \* identities of *pooled values
          Lane,       \* identities of lanes
          MaxFiring,  \* bound: timer callbacks of one entry in flight
          None        \* the nil pointer

ASSUME PoolAssumption ==
    /\ IsFiniteSet(Caller)
    /\ MaxFiring \in Nat
    /\ None \notin Entry \cup Lane \cup Path \cup LaneType

VARIABLES
    models,    \* Pool.models: the entry held for each path, or None
    closed,    \* Pool.closed
    expires,   \* Pool.keepAlive > 0, fixed by NewPool
    path,      \* pooled.path; None until the entry is allocated
    ready,     \* pooled.ready is closed
    failed,    \* pooled.err # nil, meaningful once ready
    model,     \* the model Open returned for the entry: none, open, closed
    busy,      \* pooled.busy
    idle,      \* pooled.idle
    recent,    \* time.Since(pooled.lastUsed) < keepAlive
    timer,     \* pooled.timer is running
    firing,    \* expire callbacks of the entry started and not yet run
    closing,   \* progress of pooled.close
    commits,   \* history: how often a goroutine decided to close the model
    sweep,     \* the entries Close found ready and unused
    orphaned,  \* history: entries Close dropped between get's two last steps
    home,      \* the entry a lane was opened for, None until then
    ltype,     \* the type of a lane
    shut,      \* lanes that have been closed
    pc, want, entry, lane, held \* locals of each caller

poolVars == <<models, closed, expires>>
entryVars == <<path, ready, failed, model, busy, idle, recent, timer, firing>>
closeVars == <<closing, commits, sweep, orphaned>>
laneVars == <<home, ltype, shut>>
localVars == <<want, entry, lane, held>>
vars == <<poolVars, entryVars, closeVars, laneVars, localVars, pc>>

PCs == {"idle", "get", "opening", "publish", "wait", "lane", "leased", "reap", "closer"}

TypeOK ==
    /\ models \in [Path -> Entry \cup {None}]
    /\ closed \in BOOLEAN
    /\ expires \in BOOLEAN
    /\ path \in [Entry -> Path \cup {None}]
    /\ ready \in [Entry -> BOOLEAN]
    /\ failed \in [Entry -> BOOLEAN]
    /\ model \in [Entry -> {"none", "open", "closed"}]
    /\ busy \in [Entry -> Nat]
    /\ idle \in [Entry -> SUBSET Lane]
    /\ recent \in [Entry -> BOOLEAN]
    /\ timer \in [Entry -> BOOLEAN]
    /\ firing \in [Entry -> Nat]
    /\ closing \in [Entry -> {"no", "lanes", "model", "done"}]
    /\ commits \in [Entry -> Nat]
    /\ sweep \in SUBSET Entry
    /\ orphaned \in SUBSET Entry
    /\ home \in [Lane -> Entry \cup {None}]
    /\ ltype \in [Lane -> LaneType \cup {None}]
    /\ shut \in SUBSET Lane
    /\ pc \in [Caller -> PCs]
    /\ want \in [Caller -> (Path \cup {None}) \X (LaneType \cup {None})]
    /\ entry \in [Caller -> Entry \cup {None}]
    /\ lane \in [Caller -> Lane \cup {None}]
    /\ held \in [Caller -> BOOLEAN]

\* NewPool: an empty pool, with or without expiry.
Init ==
    /\ models = [p \in Path |-> None]
    /\ closed = FALSE
    /\ expires \in BOOLEAN
    /\ path = [e \in Entry |-> None]
    /\ ready = [e \in Entry |-> FALSE]
    /\ failed = [e \in Entry |-> FALSE]
    /\ model = [e \in Entry |-> "none"]
    /\ busy = [e \in Entry |-> 0]
    /\ idle = [e \in Entry |-> {}]
    /\ recent = [e \in Entry |-> FALSE]
    /\ timer = [e \in Entry |-> FALSE]
    /\ firing = [e \in Entry |-> 0]
    /\ closing = [e \in Entry |-> "no"]
    /\ commits = [e \in Entry |-> 0]
    /\ sweep = {}
    /\ orphaned = {}
    /\ home = [l \in Lane |-> None]
    /\ ltype = [l \in Lane |-> None]
    /\ shut = {}
    /\ pc = [c \in Caller |-> "idle"]
    /\ want = [c \in Caller |-> <<None, None>>]
    /\ entry = [c \in Caller |-> None]
    /\ lane = [c \in Caller |-> None]
    /\ held = [c \in Caller |-> FALSE]

-----------------------------------------------------------------------------
Goto(c, label) == pc' = [pc EXCEPT ![c] = label]

\* The call of c returns and its locals are gone.
Return(c) ==
    /\ Goto(c, "idle")
    /\ want' = [want EXCEPT ![c] = <<None, None>>]
    /\ entry' = [entry EXCEPT ![c] = None]

\* The pool holds e for its path.
Holds(e) == path[e] # None /\ models[path[e]] = e

\* A caller with a lease, or one that is opening the lane of its lease.
Leasing(c) == pc[c] \in {"lane", "leased"}

\* The goroutine that decided to close e starts pooled.close.
StartClosing(S) ==
    /\ closing' = [e \in Entry |-> IF e \in S THEN "lanes" ELSE closing[e]]
    /\ commits' = [e \in Entry |-> IF e \in S THEN commits[e] + 1 ELSE commits[e]]

(***************************************************************************)
(* The decisions below are operators of their own; each comes after the    *)
(* form a plausible mistake would give it (Bug...), which the mutation     *)
(* runs put in its place to show that the properties notice.               *)
(***************************************************************************)
\* get: the pool has no entry for the path, not even one that is opening.
Absent(p) == models[p] = None

\* get: the pool was closed while the model opened.
BugDropped(c) == FALSE
Dropped(c) == model[entry[c]] = "open" /\ ~held[c]

\* get closes pooled.ready, whatever Open returned.
BugAnnounce(e) == ready' = [ready EXCEPT ![e] = model[e] = "open"]
Announce(e) == ready' = [ready EXCEPT ![e] = TRUE]

\* Acquire: the entry was not closed while this caller waited.
BugStillHeld(c) == TRUE
StillHeld(c) == models[want[c][1]] = entry[c]

\* Acquire counts its lease.
Count(e) == busy' = [busy EXCEPT ![e] = @ + 1]

\* Acquire takes an idle lane out of the entry.
BugPop(e, l) == UNCHANGED idle
Pop(e, l) == idle' = [idle EXCEPT ![e] = @ \ {l}]

\* release: the pool no longer holds the entry.
Gone(e) == closed \/ models[path[e]] # e

\* release starts the countdown.
BugCounts(e) == busy[e] = 1 /\ ~Gone(e) /\ expires /\ ~recent[e]
Counts(e) == busy[e] = 1 /\ ~Gone(e) /\ expires

\* expire: what a callback has to see before it may close the entry.
BugUnusedLeased(e) == models[path[e]] = e /\ ~recent[e]
BugUnusedGone(e) == busy[e] = 0 /\ ~recent[e]
Unused(e) == busy[e] = 0 /\ models[path[e]] = e /\ ~recent[e]

\* expire and a failed get take the entry out of the pool.
Drop(e) == models' = [models EXCEPT ![path[e]] = None]

\* pooled.close closes the idle lanes.
ShutLanes(e) == shut' = shut \cup idle[e]

-----------------------------------------------------------------------------
\* Acquire[T](p, path) is called.
Acquire(c, p, t) ==
    /\ pc[c] = "idle"
    /\ want' = [want EXCEPT ![c] = <<p, t>>]
    /\ Goto(c, "get")
    /\ UNCHANGED <<poolVars, entryVars, closeVars, laneVars, entry, lane, held>>

\* get: ErrPoolClosed, the entry held, or a new entry that this caller opens.
GetClosed(c) ==
    /\ pc[c] = "get"
    /\ closed
    /\ Return(c)
    /\ UNCHANGED <<poolVars, entryVars, closeVars, laneVars, lane, held>>

GetHeld(c) ==
    /\ pc[c] = "get"
    /\ ~closed
    /\ ~Absent(want[c][1])
    /\ entry' = [entry EXCEPT ![c] = models[want[c][1]]]
    /\ Goto(c, "wait")
    /\ UNCHANGED <<poolVars, entryVars, closeVars, laneVars, want, lane, held>>

GetNew(c, e) ==
    /\ pc[c] = "get"
    /\ ~closed
    /\ Absent(want[c][1])
    /\ path[e] = None
    /\ path' = [path EXCEPT ![e] = want[c][1]]
    /\ models' = [models EXCEPT ![want[c][1]] = e]
    /\ entry' = [entry EXCEPT ![c] = e]
    /\ Goto(c, "opening")
    /\ UNCHANGED <<closed, expires, ready, failed, model, busy, idle, recent, timer,
                   firing, closeVars, laneVars, want, lane, held>>

\* Open returns and get looks whether the pool still holds the entry.
OpenReturns(c, ok) ==
    LET e == entry[c] IN
    /\ pc[c] = "opening"
    /\ held' = [held EXCEPT ![c] = models[path[e]] = e]
    /\ model' = [model EXCEPT ![e] = IF ok THEN "open" ELSE "none"]
    /\ IF ~ok /\ models[path[e]] = e THEN Drop(e) ELSE UNCHANGED models
    /\ Goto(c, "publish")
    /\ UNCHANGED <<closed, expires, path, ready, failed, busy, idle, recent, timer,
                   firing, closeVars, laneVars, want, entry, lane>>

\* get closes a model the pool no longer holds, then publishes the outcome.
Publish(c) ==
    LET e == entry[c] IN
    /\ pc[c] = "publish"
    /\ model' = IF Dropped(c) THEN [model EXCEPT ![e] = "closed"] ELSE model
    /\ commits' = IF Dropped(c) THEN [commits EXCEPT ![e] = @ + 1] ELSE commits
    /\ failed' = [failed EXCEPT ![e] = model[e] # "open" \/ ~held[c]]
    /\ Announce(e)
    /\ held' = [held EXCEPT ![c] = FALSE]
    /\ Goto(c, "wait")
    /\ UNCHANGED <<poolVars, path, busy, idle, recent, timer, firing, closing,
                   sweep, orphaned, laneVars, want, entry, lane>>

-----------------------------------------------------------------------------
\* Acquire, once the entry is ready: its error, another try when the pool no
\* longer holds it, an idle lane of the type, or a new lane.
AcquireFails(c) ==
    /\ pc[c] = "wait"
    /\ ready[entry[c]]
    /\ failed[entry[c]]
    /\ Return(c)
    /\ UNCHANGED <<poolVars, entryVars, closeVars, laneVars, lane, held>>

AcquireRetries(c) ==
    LET e == entry[c] IN
    /\ pc[c] = "wait"
    /\ ready[e] /\ ~failed[e]
    /\ ~StillHeld(c)
    /\ Goto(c, "get")
    /\ entry' = [entry EXCEPT ![c] = None]
    /\ UNCHANGED <<poolVars, entryVars, closeVars, laneVars, want, lane, held>>

\* The lease is counted and the countdown stopped, in the same critical section.
AcquireTakes(c) ==
    LET e == entry[c]
        lanes == {l \in idle[e] : ltype[l] = want[c][2]} IN
    /\ pc[c] = "wait"
    /\ ready[e] /\ ~failed[e]
    /\ StillHeld(c)
    /\ Count(e)
    /\ timer' = [timer EXCEPT ![e] = FALSE]
    /\ \/ /\ lanes = {}
          /\ Goto(c, "lane")
          /\ UNCHANGED <<idle, lane>>
       \/ \E l \in lanes :
          /\ Pop(e, l)
          /\ lane' = [lane EXCEPT ![c] = l]
          /\ Goto(c, "leased")
    /\ UNCHANGED <<poolVars, path, ready, failed, model, recent, firing, closeVars,
                   laneVars, want, entry, held>>

\* Lane[T](m.model) returns a new lane.
LaneOpened(c, l) ==
    /\ pc[c] = "lane"
    /\ home[l] = None
    /\ home' = [home EXCEPT ![l] = entry[c]]
    /\ ltype' = [ltype EXCEPT ![l] = want[c][2]]
    /\ lane' = [lane EXCEPT ![c] = l]
    /\ Goto(c, "leased")
    /\ UNCHANGED <<poolVars, entryVars, closeVars, shut, want, entry, held>>

\* release: the lane goes back; the last lease out closes an entry that the
\* pool no longer holds, or starts the countdown.
release(c, lanes) ==
    LET e == entry[c]
        last == busy[e] = 1 IN
    /\ idle' = [idle EXCEPT ![e] = @ \cup lanes]
    /\ busy' = [busy EXCEPT ![e] = @ - 1]
    /\ recent' = [recent EXCEPT ![e] = IF last THEN TRUE ELSE @]
    /\ timer' = [timer EXCEPT ![e] = IF Counts(e) THEN TRUE ELSE @]
    /\ lane' = [lane EXCEPT ![c] = None]
    /\ IF last /\ Gone(e)
       THEN StartClosing({e}) /\ Goto(c, "reap") /\ UNCHANGED <<want, entry>>
       ELSE Return(c) /\ UNCHANGED <<closing, commits>>
    /\ UNCHANGED <<poolVars, path, ready, failed, model, firing, sweep, orphaned,
                   laneVars, held>>

\* Lane[T] fails: Acquire gives its lease back and returns the error.
LaneFails(c) == pc[c] = "lane" /\ release(c, {})

\* Lease.Release.
Release(c) == pc[c] = "leased" /\ release(c, {lane[c]})

\* The goroutine in release returns when pooled.close has.
ReapReturns(c) ==
    /\ pc[c] = "reap"
    /\ closing[entry[c]] = "done"
    /\ Return(c)
    /\ UNCHANGED <<poolVars, entryVars, closeVars, laneVars, lane, held>>

-----------------------------------------------------------------------------
\* The keep-alive time has passed since e was last used.
Elapse(e) ==
    /\ recent[e]
    /\ recent' = [recent EXCEPT ![e] = FALSE]
    /\ UNCHANGED <<poolVars, path, ready, failed, model, busy, idle, timer, firing,
                   closeVars, laneVars, localVars, pc>>

\* The runtime starts the callback of a timer that was not stopped in time.
Fire(e) ==
    /\ timer[e]
    /\ ~recent[e]
    /\ firing[e] < MaxFiring
    /\ timer' = [timer EXCEPT ![e] = FALSE]
    /\ firing' = [firing EXCEPT ![e] = @ + 1]
    /\ UNCHANGED <<poolVars, path, ready, failed, model, busy, idle, recent,
                   closeVars, laneVars, localVars, pc>>

\* expire, the callback: it may run long after the timer fired.
expire(e) ==
    /\ firing[e] > 0
    /\ firing' = [firing EXCEPT ![e] = @ - 1]
    /\ IF Unused(e)
       THEN Drop(e) /\ StartClosing({e})
       ELSE UNCHANGED <<models, closing, commits>>
    /\ UNCHANGED <<closed, expires, path, ready, failed, model, busy, idle, recent,
                   timer, sweep, orphaned, laneVars, localVars, pc>>

\* pooled.close stops the timer and closes the idle lanes, then the model.
CloseLanes(e) ==
    /\ closing[e] = "lanes"
    /\ closing' = [closing EXCEPT ![e] = "model"]
    /\ timer' = [timer EXCEPT ![e] = FALSE]
    /\ ShutLanes(e)
    /\ idle' = [idle EXCEPT ![e] = {}]
    /\ UNCHANGED <<poolVars, path, ready, failed, model, busy, recent, firing,
                   commits, sweep, orphaned, home, ltype, localVars, pc>>

CloseModel(e) ==
    /\ closing[e] = "model"
    /\ closing' = [closing EXCEPT ![e] = "done"]
    /\ model' = [model EXCEPT ![e] = IF @ = "open" THEN "closed" ELSE @]
    /\ UNCHANGED <<poolVars, path, ready, failed, busy, idle, recent, timer, firing,
                   commits, sweep, orphaned, laneVars, localVars, pc>>

\* Close drops every entry and closes those that are ready and unused.  A
\* second Close returns at once.
Close(c) ==
    /\ pc[c] = "idle"
    /\ ~closed
    /\ closed' = TRUE
    /\ models' = [p \in Path |-> None]
    /\ sweep' = {e \in Entry : Holds(e) /\ ready[e] /\ busy[e] = 0}
    /\ StartClosing(sweep')
    /\ orphaned' = orphaned \cup
          {e \in Entry : Holds(e) /\ \E o \in Caller : pc[o] = "publish" /\ entry[o] = e}
    /\ Goto(c, "closer")
    /\ UNCHANGED <<expires, entryVars, laneVars, localVars>>

\* Close returns once the entries it closes are closed.
CloseReturns(c) ==
    /\ pc[c] = "closer"
    /\ \A e \in sweep : closing[e] = "done"
    /\ Goto(c, "idle")
    /\ UNCHANGED <<poolVars, entryVars, closeVars, laneVars, localVars>>

CallerStep(c) ==
    \/ GetClosed(c)
    \/ GetHeld(c)
    \/ \E e \in Entry : GetNew(c, e)
    \/ \E ok \in BOOLEAN : OpenReturns(c, ok)
    \/ Publish(c)
    \/ AcquireFails(c)
    \/ AcquireRetries(c)
    \/ AcquireTakes(c)
    \/ \E l \in Lane : LaneOpened(c, l)
    \/ LaneFails(c)
    \/ Release(c)
    \/ ReapReturns(c)
    \/ CloseReturns(c)

EntryStep(e) == Fire(e) \/ expire(e) \/ CloseLanes(e) \/ CloseModel(e)

Next ==
    \/ \E c \in Caller, p \in Path, t \in LaneType : Acquire(c, p, t)
    \/ \E c \in Caller : CallerStep(c)
    \/ \E c \in Caller : Close(c)
    \/ \E e \in Entry : Elapse(e)
    \/ \E e \in Entry : EntryStep(e)

Spec == Init /\ [][Next]_vars

\* Goroutines that can run do run, the runtime runs due timers, and a caller
\* releases its lease, as Release's contract asks ("Call it exactly once").
Fairness ==
    /\ \A c \in Caller : WF_vars(CallerStep(c))
    /\ \A e \in Entry : WF_vars(EntryStep(e))

FairSpec == Spec /\ Fairness

-----------------------------------------------------------------------------
\* A lease keeps its model open: while a caller holds a lane of an entry, or
\* opens one, the model is open and nobody has started to close it (Lease:
\* "Its model stays open until the lease is released").
LeasedModelOpen ==
    \A c \in Caller : Leasing(c) =>
        model[entry[c]] = "open" /\ closing[entry[c]] = "no"

\* A leased lane belongs to one caller only, is of the leased entry, is not
\* among the idle lanes anyone could take, and has not been closed.
LaneExclusive ==
    \A c \in Caller : pc[c] = "leased" =>
        /\ home[lane[c]] = entry[c]
        /\ lane[c] \notin shut
        /\ \A e \in Entry : lane[c] \notin idle[e]
        /\ \A d \in Caller \ {c} : pc[d] = "leased" => lane[d] # lane[c]

\* expire, release, Close and get race to close a model; only one of them does.
ClosedOnce == \A e \in Entry : commits[e] <= 1

\* Model.Close asks to "Close its lanes first": when a model has been closed,
\* every lane ever opened for it is closed, those still leased included.
LanesCloseFirst ==
    \A e \in Entry : model[e] = "closed" =>
        \A l \in Lane : home[l] = e => l \in shut

\* At most one model of a path stays resident: a second one is opened only
\* when the first is failed, closed or already on its way to be closed.
OneModelPerPath ==
    \A e, f \in Entry :
        (/\ e # f /\ path[e] # None /\ path[e] = path[f]
         /\ model[e] = "open" /\ model[f] = "open")
        => closing[e] # "no" \/ closing[f] # "no"

\* A caller that has the entry and will count itself as a lease next.
Arriving(e) ==
    \E c \in Caller : pc[c] \in {"opening", "publish", "wait"} /\ entry[c] = e

\* The keep-alive countdown of an unused model is never lost: a model the pool
\* holds without a lease has its timer running or a callback under way that
\* will close it, unless a caller is about to take it.
CountdownRuns ==
    expires => \A e \in Entry :
        Holds(e) /\ busy[e] = 0 =>
            timer[e] \/ (firing[e] > 0 /\ ~recent[e]) \/ Arriving(e)

\* Somebody will still close the open model e, or return it to a caller.
Owned(e) ==
    \/ Holds(e)
    \/ \E c \in Caller : entry[c] = e /\ pc[c] = "publish" /\ ~held[c]
    \/ busy[e] > 0
    \/ closing[e] # "no"

\* A model leaks in one way only: Close ran after get saw that the pool still
\* held the entry and before get published it (see CloseClosesEveryModel).
OnlyPublishLeaks ==
    \A e \in Entry : model[e] = "open" => Owned(e) \/ e \in orphaned

\* Loaded lists the paths whose entry is ready without an error.
Loaded == {p \in Path : models[p] # None /\ ready[models[p]] /\ ~failed[models[p]]}

\* Loaded never lists a model that is closed or failed to open.
LoadedIsOpen ==
    \A p \in Loaded : model[models[p]] = "open" /\ closing[models[p]] = "no"

\* "Acquire fails afterwards": no lease is given out once the pool is closed,
\* not even to a caller that was waiting for the model.
NoLeaseAfterClose ==
    [][\A c \in Caller : ~Leasing(c) /\ Leasing(c)' => ~closed]_vars

\* The expiry callback never closes a model that was used within the
\* keep-alive time, however late the callback runs.
ExpireOnlyUnused ==
    [][\A e \in Entry :
         closing[e] = "no" /\ closing[e]' # "no" /\ ~closed' => ~recent[e] /\ busy[e] = 0]_vars

\* Close's comment: "Close closes every model: unused ones now, the others
\* when their last lease is released"; and of a model that is opening, "it
\* closes when Open returns".  So when the pool is closed and nobody is at
\* work any more, no model is open.
CloseClosesEveryModel ==
    (/\ closed
     /\ \A c \in Caller : pc[c] = "idle"
     /\ \A e \in Entry : closing[e] \in {"no", "done"})
    => \A e \in Entry : model[e] # "open"

\* Every caller waiting for a model that opens gets an answer.
WaitersReturn == \A c \in Caller : pc[c] = "wait" ~> pc[c] # "wait"

\* Once the pool is closed every model gets closed, except an orphan.
ClosedPoolEmpties ==
    \A e \in Entry : (closed /\ e \notin orphaned) ~> (model[e] # "open" \/ e \in orphaned)

\* Nobody is left behind: every caller waiting for a model gets an answer
\* (Acquire 88), and a closed pool closes all it still owned (Close 222).
NobodyLeftBehind == WaitersReturn /\ ClosedPoolEmpties

=============================================================================
