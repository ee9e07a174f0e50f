----------------------------- MODULE WorkerPool -----------------------------
(***************************************************************************)
(* qwen3lm.workerPool (internal/qwen3lm/pool.go): one parallel operation   *)
(* at a time on persistent goroutines and the caller.  Idle workers spin   *)
(* on their generation and park after a while; a dispatcher wakes a parked *)
(* worker with a channel token.  Items are claimed from a shared counter.  *)
(*                                                                         *)
(* An action is one atomic operation, channel operation or critical step.  *)
(* How long a worker spins before it parks is left open (time), and so are *)
(* the calls of Gosched.  Participant 0 is the caller that holds mu.       *)
(***************************************************************************)
EXTENDS Naturals, FiniteSets

CONSTANTS Caller,      \* goroutines that call runN, runEach and close
          Workers,     \* number of persistent workers, len(p.workers)
          HoldWorkers, \* holdWorkers: only workers below it honour a hold
          Job,         \* the calls made: see JobRecord
          MaxItems,    \* bound: items of a job
          MaxJobs,     \* bound: jobs dispatched to the workers
          MaxHolds,    \* bound: forward passes that hold the pool at once
          Exclusive,   \* runEach and close are never called concurrently
          Nobody       \* mu is free, or no job is published

\* runN has participants, items and a grain; runEach only participants.
JobRecord == [each : BOOLEAN, n : 1..(Workers + 1), items : 0..MaxItems, grain : Nat \ {0}]

ASSUME WorkerPoolAssumption ==
    /\ Job \subseteq JobRecord
    /\ Workers \in Nat \ {0}
    /\ HoldWorkers \in Nat
    /\ MaxItems \in Nat \ {0}
    /\ MaxJobs \in Nat
    /\ MaxHolds \in Nat
    /\ Exclusive \in BOOLEAN
    /\ Nobody \notin Caller \cup Job

Worker == 1..Workers
Participant == 0..Workers
Items == 0..(MaxItems + Workers)

VARIABLES
    mu,       \* holder of workerPool.mu
    stop,     \* workerPool.stop
    active,   \* workerPool.active
    op,       \* the published job: op, items, grain and each
    next,     \* workerPool.next
    pending,  \* workerPool.pending
    generation, parked, wake,  \* the fields of each poolWorker
    seen, start, wpc,          \* locals of loop and claim, and where each is
    pc, arg, index,            \* locals of each caller
    jobs,     \* jobs dispatched so far
    applied   \* history: how often each item of the current job was applied

sharedVars == <<mu, stop, active, op, next, pending, generation, parked, wake>>
workerVars == <<seen, start, wpc>>
callerVars == <<pc, arg, index>>
vars == <<sharedVars, workerVars, callerVars, jobs, applied>>

WorkerPCs == {"spin", "idle", "park", "recheck", "recheckStop", "unpark", "sleep",
              "drain", "take", "claim", "apply", "finish", "exit"}
CallerPCs == {"idle", "lockRun", "checkEach", "lockEach", "signal", "kick", "send",
              "claim", "apply", "wait", "lockClose", "wakeAll", "sendStop"}

TypeOK ==
    /\ mu \in Caller \cup {Nobody}
    /\ stop \in BOOLEAN
    /\ active \in Nat
    /\ op \in Job \cup {Nobody}
    /\ next \in Nat
    /\ pending \in Nat
    /\ generation \in [Worker -> Nat]
    /\ parked \in [Worker -> BOOLEAN]
    /\ wake \in [Worker -> {0, 1}]
    /\ seen \in [Worker -> Nat]
    /\ start \in [Participant -> Nat]
    /\ wpc \in [Worker -> WorkerPCs]
    /\ pc \in [Caller -> CallerPCs]
    /\ arg \in [Caller -> Job \cup {Nobody}]
    /\ index \in [Caller -> 1..(Workers + 1)]
    /\ jobs \in Nat
    /\ applied \in [Items -> Nat]

Init ==
    /\ mu = Nobody
    /\ stop = FALSE
    /\ active = 0
    /\ op = Nobody
    /\ next = 0
    /\ pending = 0
    /\ generation = [w \in Worker |-> 0]
    /\ parked = [w \in Worker |-> FALSE]
    /\ wake = [w \in Worker |-> 0]
    /\ seen = [w \in Worker |-> 0]
    /\ start = [p \in Participant |-> 0]
    /\ wpc = [w \in Worker |-> "spin"]
    /\ pc = [c \in Caller |-> "idle"]
    /\ arg = [c \in Caller |-> Nobody]
    /\ index = [c \in Caller |-> 1]
    /\ jobs = 0
    /\ applied = [i \in Items |-> 0]

-----------------------------------------------------------------------------
Least(a, b) == IF a < b THEN a ELSE b

\* ApplyRows over [from, to).
ApplyRows(from, to) ==
    applied' = [i \in Items |-> IF from <= i /\ i < to THEN applied[i] + 1 ELSE applied[i]]

\* claim: the counter has passed the last item.
BugExhausted(j) == next + j.grain >= j.items
Exhausted(j) == next >= j.items

\* claim: a participant takes the next grain of the shared counter.
Claim(p, j) ==
    /\ start' = [start EXCEPT ![p] = IF Exhausted(j) THEN 0 ELSE next]
    /\ next' = next + j.grain

\* claim: it applies what it took, the last grain cut at the end.
BugApplyGrain(p, j) == ApplyRows(start[p], start[p] + j.grain)
ApplyGrain(p, j) == ApplyRows(start[p], Least(start[p] + j.grain, j.items))

-----------------------------------------------------------------------------
(* loop: the goroutine of worker w. *)
WGoto(w, label) == wpc' = [wpc EXCEPT ![w] = label]

\* The generation is loaded; a new one ends the wait.
Spin(w) ==
    /\ wpc[w] = "spin"
    /\ WGoto(w, IF generation[w] # seen[w] THEN "take" ELSE "idle")
    /\ UNCHANGED <<sharedVars, seen, start, callerVars, jobs, applied>>

\* No new generation: return when stopped, spin on, or start to park.
Idle(w) ==
    /\ wpc[w] = "idle"
    /\ \/ stop /\ WGoto(w, "exit")
       \/ ~stop /\ WGoto(w, "spin")
       \/ ~stop /\ ~(active > 0 /\ w < HoldWorkers) /\ WGoto(w, "park")
    /\ UNCHANGED <<sharedVars, seen, start, callerVars, jobs, applied>>

\* parked is published before the generation is looked at again.
Park(w) ==
    /\ wpc[w] = "park"
    /\ parked' = [parked EXCEPT ![w] = TRUE]
    /\ WGoto(w, "recheck")
    /\ UNCHANGED <<mu, stop, active, op, next, pending, generation, wake, seen, start,
                   callerVars, jobs, applied>>

BugRecheck(w) ==
    /\ wpc[w] = "recheck"
    /\ WGoto(w, "recheckStop")
    /\ UNCHANGED <<sharedVars, seen, start, callerVars, jobs, applied>>
Recheck(w) ==
    /\ wpc[w] = "recheck"
    /\ WGoto(w, IF generation[w] # seen[w] THEN "unpark" ELSE "recheckStop")
    /\ UNCHANGED <<sharedVars, seen, start, callerVars, jobs, applied>>

RecheckStop(w) ==
    /\ wpc[w] = "recheckStop"
    /\ WGoto(w, IF stop THEN "unpark" ELSE "sleep")
    /\ UNCHANGED <<sharedVars, seen, start, callerVars, jobs, applied>>

\* The worker takes parked back, or the dispatcher did and a token follows.
BugUnpark(w) ==
    /\ wpc[w] = "unpark"
    /\ parked' = [parked EXCEPT ![w] = FALSE]
    /\ WGoto(w, "spin")
    /\ UNCHANGED <<mu, stop, active, op, next, pending, generation, wake, seen, start,
                   callerVars, jobs, applied>>
Unpark(w) ==
    /\ wpc[w] = "unpark"
    /\ parked' = [parked EXCEPT ![w] = FALSE]
    /\ WGoto(w, IF parked[w] THEN "spin" ELSE "drain")
    /\ UNCHANGED <<mu, stop, active, op, next, pending, generation, wake, seen, start,
                   callerVars, jobs, applied>>

\* <-w.wake, asleep or draining the token of a dispatcher.
Wake(w) ==
    /\ wpc[w] \in {"sleep", "drain"}
    /\ wake[w] = 1
    /\ wake' = [wake EXCEPT ![w] = 0]
    /\ WGoto(w, "spin")
    /\ UNCHANGED <<mu, stop, active, op, next, pending, generation, parked, seen, start,
                   callerVars, jobs, applied>>

\* The new generation is recorded; a stopped worker returns without the job.
Take(w) ==
    /\ wpc[w] = "take"
    /\ seen' = [seen EXCEPT ![w] = generation[w]]
    /\ WGoto(w, IF stop THEN "exit" ELSE IF op.each THEN "apply" ELSE "claim")
    /\ UNCHANGED <<sharedVars, start, callerVars, jobs, applied>>

WorkerClaim(w) ==
    /\ wpc[w] = "claim"
    /\ Claim(w, op)
    /\ WGoto(w, IF Exhausted(op) THEN "finish" ELSE "apply")
    /\ UNCHANGED <<mu, stop, active, op, pending, generation, parked, wake, seen,
                   callerVars, jobs, applied>>

\* ApplyRows on a grain, or once with the worker's own index in runEach.
WorkerApply(w) ==
    /\ wpc[w] = "apply"
    /\ IF op.each THEN ApplyRows(w, w + 1) ELSE ApplyGrain(w, op)
    /\ WGoto(w, IF op.each THEN "finish" ELSE "claim")
    /\ UNCHANGED <<sharedVars, seen, start, callerVars, jobs>>

Finish(w) ==
    /\ wpc[w] = "finish"
    /\ pending' = pending - 1
    /\ WGoto(w, "spin")
    /\ UNCHANGED <<mu, stop, active, op, next, generation, parked, wake, seen, start,
                   callerVars, jobs, applied>>

-----------------------------------------------------------------------------
(* runN, runEach, hold, release and close, called by c. *)
Goto(c, label) == pc' = [pc EXCEPT ![c] = label]

Call(c, label, j) ==
    /\ pc[c] = "idle"
    /\ Goto(c, label)
    /\ arg' = [arg EXCEPT ![c] = j]
    /\ UNCHANGED <<sharedVars, workerVars, index, jobs, applied>>

Busy(labels) == \E d \in Caller : pc[d] \in labels

CallRunN(c, j) == ~j.each /\ Call(c, "lockRun", j)
CallRunEach(c, j) ==
    /\ j.each
    /\ Exclusive => ~Busy({"lockClose", "wakeAll", "sendStop"})
    /\ Call(c, "checkEach", j)
CallClose(c) ==
    /\ Exclusive => \A d \in Caller : arg[d] # Nobody => ~arg[d].each
    /\ Call(c, "lockClose", Nobody)

Return(c) == Goto(c, "idle") /\ arg' = [arg EXCEPT ![c] = Nobody]

hold == /\ active < MaxHolds
        /\ active' = active + 1
        /\ UNCHANGED <<mu, stop, op, next, pending, generation, parked, wake,
                       workerVars, callerVars, jobs, applied>>
release == /\ active > 0
           /\ active' = active - 1
           /\ UNCHANGED <<mu, stop, op, next, pending, generation, parked, wake,
                          workerVars, callerVars, jobs, applied>>

\* runN without helpers: one participant, one grain, or a stopped pool.
Inline(j) == j.n = 1 \/ j.items <= j.grain \/ stop

RunInline(c) ==
    /\ pc[c] = "lockRun" /\ mu = Nobody
    /\ Inline(arg[c])
    /\ Return(c)
    /\ UNCHANGED <<sharedVars, workerVars, index, jobs, applied>>

\* The workers the barrier waits for; the caller is not one of them.
Pending(j) == j.n - 1

\* The job is published and pending set before the first generation moves.
Publish(c, j) ==
    /\ mu' = c
    /\ op' = j
    /\ next' = IF j.each THEN next ELSE 0
    /\ pending' = Pending(j)
    /\ jobs' = jobs + 1
    /\ index' = [index EXCEPT ![c] = 1]
    /\ Goto(c, "signal")
    /\ UNCHANGED <<stop, active, generation, parked, wake, workerVars, arg, applied>>

RunPublish(c) ==
    /\ pc[c] = "lockRun" /\ mu = Nobody
    /\ ~Inline(arg[c])
    /\ jobs < MaxJobs
    /\ Publish(c, arg[c])

\* runEach looks at stop before it takes mu.
CheckEach(c) ==
    /\ pc[c] = "checkEach"
    /\ IF arg[c].n = 1 \/ stop
       THEN Return(c)
       ELSE Goto(c, "lockEach") /\ UNCHANGED arg
    /\ UNCHANGED <<sharedVars, workerVars, index, jobs, applied>>

EachPublish(c) ==
    /\ pc[c] = "lockEach" /\ mu = Nobody
    /\ jobs < MaxJobs
    /\ Publish(c, arg[c])

\* For each worker of the job: its generation, its parked flag, its token.
Signal(c) ==
    /\ pc[c] = "signal"
    /\ IF index[c] < op.n
       THEN /\ generation' = [generation EXCEPT ![index[c]] = @ + 1]
            /\ Goto(c, "kick")
       ELSE /\ Goto(c, IF op.each THEN "apply" ELSE "claim")
            /\ UNCHANGED generation
    /\ UNCHANGED <<mu, stop, active, op, next, pending, parked, wake, workerVars, arg,
                   index, jobs, applied>>

\* parked.CompareAndSwap(true, false); a dispatcher that wins sends a token.
Kick(c, from, send, on) ==
    LET w == index[c] IN
    /\ pc[c] = from
    /\ w \in Worker
    /\ parked' = [parked EXCEPT ![w] = FALSE]
    /\ Goto(c, IF parked[w] THEN send ELSE on)
    /\ index' = [index EXCEPT ![c] = IF parked[w] THEN @ ELSE @ + 1]
    /\ UNCHANGED <<mu, stop, active, op, next, pending, generation, wake, workerVars,
                   arg, jobs, applied>>

Send(c, from, on) ==
    /\ pc[c] = from
    /\ wake[index[c]] = 0
    /\ wake' = [wake EXCEPT ![index[c]] = 1]
    /\ index' = [index EXCEPT ![c] = @ + 1]
    /\ Goto(c, on)
    /\ UNCHANGED <<mu, stop, active, op, next, pending, generation, parked, workerVars,
                   arg, jobs, applied>>

SignalKick(c) == Kick(c, "kick", "send", "signal")
SignalSend(c) == Send(c, "send", "signal")

CallerClaim(c) ==
    /\ pc[c] = "claim"
    /\ Claim(0, op)
    /\ Goto(c, IF Exhausted(op) THEN "wait" ELSE "apply")
    /\ UNCHANGED <<mu, stop, active, op, pending, generation, parked, wake, seen, wpc,
                   arg, index, jobs, applied>>

CallerApply(c) ==
    /\ pc[c] = "apply"
    /\ IF op.each THEN ApplyRows(0, 1) ELSE ApplyGrain(0, op)
    /\ Goto(c, IF op.each THEN "wait" ELSE "claim")
    /\ UNCHANGED <<sharedVars, workerVars, arg, index, jobs>>

\* The barrier: the caller spins until no worker is pending.
BugDone == pending <= 1
Done == pending = 0

Wait(c) ==
    /\ pc[c] = "wait"
    /\ Done
    /\ op' = Nobody
    /\ applied' = [i \in Items |-> 0]
    /\ mu' = Nobody
    /\ Return(c)
    /\ UNCHANGED <<stop, active, next, pending, generation, parked, wake, workerVars,
                   index, jobs>>

\* close: the first one stops the workers and waits for them.
CloseLock(c) ==
    /\ pc[c] = "lockClose" /\ mu = Nobody
    /\ stop' = TRUE
    /\ IF stop
       THEN Return(c) /\ UNCHANGED <<mu, index>>
       ELSE /\ mu' = c
            /\ index' = [index EXCEPT ![c] = 1]
            /\ Goto(c, "wakeAll")
            /\ UNCHANGED arg
    /\ UNCHANGED <<active, op, next, pending, generation, parked, wake, workerVars,
                   jobs, applied>>

CloseKick(c) == Kick(c, "wakeAll", "sendStop", "wakeAll")
CloseSend(c) == Send(c, "sendStop", "wakeAll")

Join(c) ==
    /\ pc[c] = "wakeAll" /\ index[c] > Workers
    /\ \A w \in Worker : wpc[w] = "exit"
    /\ mu' = Nobody
    /\ Return(c)
    /\ UNCHANGED <<stop, active, op, next, pending, generation, parked, wake,
                   workerVars, index, jobs, applied>>

WorkerStep(w) ==
    \/ Spin(w) \/ Idle(w) \/ Park(w) \/ Recheck(w) \/ RecheckStop(w) \/ Unpark(w)
    \/ Wake(w) \/ Take(w) \/ WorkerClaim(w) \/ WorkerApply(w) \/ Finish(w)

CallerStep(c) ==
    \/ RunInline(c) \/ RunPublish(c) \/ CheckEach(c) \/ EachPublish(c)
    \/ Signal(c) \/ SignalKick(c) \/ SignalSend(c)
    \/ CallerClaim(c) \/ CallerApply(c) \/ Wait(c)
    \/ CloseLock(c) \/ CloseKick(c) \/ CloseSend(c) \/ Join(c)

CallStep(c) ==
    \/ \E j \in Job : CallRunN(c, j)
    \/ \E j \in Job : CallRunEach(c, j)
    \/ CallClose(c)

Next ==
    \/ \E w \in Worker : WorkerStep(w)
    \/ \E c \in Caller : CallerStep(c)
    \/ \E c \in Caller : CallStep(c)
    \/ hold
    \/ release

Spec == Init /\ [][Next]_vars

\* Every goroutine gets to run (sync.Mutex admits a waiter eventually).
Fairness ==
    /\ \A w \in Worker : WF_vars(WorkerStep(w))
    /\ \A c \in Caller : SF_vars(CallerStep(c))

FairSpec == Spec /\ Fairness

-----------------------------------------------------------------------------
\* The items of the published job, and the workers it was dispatched to.
JobItems(j) == IF j.each THEN 0..(j.n - 1) ELSE 0..(j.items - 1)
Team == IF op = Nobody THEN {} ELSE 1..(op.n - 1)

\* ApplyRows "receives disjoint ranges": no item is applied twice, and none
\* outside the job.
ItemsOnce ==
    op # Nobody => \A i \in Items : applied[i] <= (IF i \in JobItems(op) THEN 1 ELSE 0)

\* A worker that is at the job: it saw the generation and has not finished.
Working(w) == wpc[w] \in {"claim", "apply", "finish"}

\* A worker touches the job's fields only while the caller waits for it, and
\* the caller waits for exactly the workers it dispatched that are not done.
BarrierCounts ==
    /\ \A w \in Worker : Working(w) => w \in Team
    /\ Busy({"claim", "apply", "wait"}) =>
         pending = Cardinality({w \in Team : Working(w) \/ generation[w] # seen[w]})

\* A parked worker that must run is woken: when a job or close has passed it,
\* the flag was seen and a token is in its channel or about to be sent.
NoLostWakeup ==
    \A w \in Worker :
        wpc[w] = "sleep" /\ (generation[w] # seen[w] \/ stop) =>
            \/ wake[w] = 1
            \/ \E c \in Caller : index[c] <= w /\
                 pc[c] \in {"signal", "kick", "send", "wakeAll", "sendStop"}

\* A token is never left over: it meets the worker it was sent for, so a
\* dispatcher never blocks on a full channel.
NoStaleToken ==
    /\ \A w \in Worker : wake[w] = 1 =>
         ~parked[w] /\ wpc[w] \in {"recheck", "recheckStop", "unpark", "sleep", "drain"}
    /\ \A c \in Caller : pc[c] \in {"send", "sendStop"} => wake[index[c]] = 0

\* Wake-ups and sleepers match: none is lost and none is left over.
WakeupsMatch == NoLostWakeup /\ NoStaleToken

\* The comment on mu says it "serializes run and close": a job is dispatched
\* only to workers that are still there to finish it.
JobHasWorkers ==
    \A w \in Team : generation[w] # seen[w] => wpc[w] # "exit"

\* The pool implements the barrier: what is left of the published job.
todo == IF op = Nobody THEN {} ELSE {i \in JobItems(op) : applied[i] = 0}

Barrier == INSTANCE JobBarrier WITH running <- op # Nobody

\* Every step of the pool is a step of JobBarrier: runN and runEach return
\* only when every item of the job has been applied.
ImplementsBarrier == Barrier!Spec

\* Every job the bound admits is finished.
RunReturns ==
    \A c \in Caller : pc[c] \in {"signal", "kick", "send", "claim", "apply", "wait"} ~> pc[c] = "idle"

\* close wakes every worker, and each one returns.
CloseReturns ==
    \A c \in Caller : pc[c] \in {"wakeAll", "sendStop"} ~> pc[c] = "idle"

\* Every job and every close returns.
CallsReturn == RunReturns /\ CloseReturns

=============================================================================
