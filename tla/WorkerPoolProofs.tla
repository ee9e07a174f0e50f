-------------------------- MODULE WorkerPoolProofs --------------------------
(***************************************************************************)
(* Proofs about WorkerPool: for any number of workers, callers and items,  *)
(* no wake-up is lost and no token is left over, the barrier counts the    *)
(* workers that are not done, every item is applied once, and the pool     *)
(* implements JobBarrier.                                                  *)
(***************************************************************************)
EXTENDS WorkerPool, FiniteSetTheorems, TLAPS

\* Where a caller is while it runs a job, or stops the workers: it holds mu.
RunPCs == {"signal", "kick", "send", "claim", "apply", "wait"}
ClosePCs == {"wakeAll", "sendStop"}
Closing == mu \in Caller /\ pc[mu] \in ClosePCs

\* mu is held by the one caller that publishes a job or closes, and a call
\* keeps its argument until it returns.
MuInv ==
    /\ \A c \in Caller : pc[c] \in RunPCs \cup ClosePCs <=> mu = c
    /\ op # Nobody <=> (mu \in Caller /\ pc[mu] \in RunPCs)
    /\ op # Nobody => op.n # 1
    /\ \A c \in Caller :
         /\ pc[c] = "lockRun" => arg[c] \in Job /\ ~arg[c].each
         /\ pc[c] \in {"checkEach", "lockEach"} => arg[c] \in Job /\ arg[c].each
         /\ pc[c] = "lockEach" => arg[c].n # 1

\* How far the dispatcher has come with the workers.
IndexInv ==
    /\ mu \in Caller /\ pc[mu] = "signal" => index[mu] <= op.n
    /\ mu \in Caller /\ pc[mu] \in {"kick", "send"} => index[mu] < op.n
    /\ mu \in Caller /\ pc[mu] \in {"claim", "apply", "wait"} => index[mu] = op.n
    /\ mu \in Caller /\ pc[mu] = "sendStop" => index[mu] <= Workers

\* The current job has moved the generation of w.
Signalled(w) ==
    /\ op # Nobody
    /\ \/ w < index[mu]
       \/ w = index[mu] /\ pc[mu] \in {"kick", "send"}

\* A generation is ahead of its worker only between signal and take.
GenInv ==
    \A w \in Worker :
        /\ ~Signalled(w) => generation[w] = seen[w] /\ wpc[w] # "take" /\ ~Working(w)
        /\ Working(w) => generation[w] = seen[w]
        /\ wpc[w] = "take" => generation[w] # seen[w]
        /\ wpc[w] = "exit" => stop /\ (Signalled(w) => generation[w] # seen[w])

\* Once stopped, the closer is at work or every worker has returned.
StopInv ==
    /\ Closing => stop
    /\ stop => Closing \/ \A w \in Worker : wpc[w] = "exit"

\* runEach and close exclude each other, so no job meets a stopped pool.
ExclInv ==
    Exclusive =>
      /\ \A c, d \in Caller : arg[c] \in Job /\ arg[c].each =>
           pc[d] \notin {"lockClose", "wakeAll", "sendStop"}
      /\ \A c \in Caller : pc[c] = "lockEach" => ~stop
      /\ op # Nobody => ~stop

\* The holder of mu took the flag of w and is about to send its token.
Sending(w) == mu \in Caller /\ pc[mu] \in {"send", "sendStop"} /\ index[mu] = w

\* A worker whose flag was taken has exactly one token, sent or to be sent.
TokenInv ==
    \A w \in Worker :
        /\ parked[w] => wpc[w] \in {"recheck", "recheckStop", "unpark", "sleep"}
        /\ wake[w] = 1 => ~Sending(w)
        /\ (wake[w] = 1 \/ Sending(w)) <=>
             (~parked[w] /\ wpc[w] \in {"recheck", "recheckStop", "unpark", "sleep", "drain"})

\* A worker that has looked at its generation, and then at stop, is woken.
WakeInv ==
    \A w \in Worker :
        /\ wpc[w] \in {"recheckStop", "sleep"} /\ generation[w] # seen[w] =>
             wake[w] = 1 \/ (mu \in Caller /\ index[mu] = w /\ pc[mu] \in {"kick", "send"})
        /\ wpc[w] = "sleep" /\ stop =>
             wake[w] = 1 \/ (mu \in Caller /\ index[mu] <= w /\ pc[mu] \in ClosePCs)

\* The workers of the job that are not done with it are the pending ones.
DoneJob(w) == Signalled(w) /\ generation[w] = seen[w] /\ ~Working(w)
Out == {w \in Worker : op # Nobody /\ w < op.n /\ ~DoneJob(w)}
CountInv == op # Nobody => pending = Cardinality(Out)

\* The participants that apply a grain, and the grains.
Applying(p) == IF p = 0 THEN mu \in Caller /\ pc[mu] = "apply" ELSE wpc[p] = "apply"
InGrain(i, p) == start[p] <= i /\ i < start[p] + op.grain

\* runN: what the counter has passed is applied, or a grain somebody holds.
RowsInv ==
    op # Nobody /\ ~op.each =>
      /\ \A p \in Participant : Applying(p) =>
           start[p] + op.grain <= next /\ start[p] < op.items
      /\ \A p, q \in Participant : Applying(p) /\ Applying(q) /\ p # q =>
           start[p] + op.grain <= start[q] \/ start[q] + op.grain <= start[p]
      /\ \A i \in Items : applied[i] =
           IF i < next /\ i < op.items /\ \A p \in Participant : Applying(p) => ~InGrain(i, p)
           THEN 1 ELSE 0
      /\ pc[mu] = "wait" => next >= op.items

\* runEach: a participant applies its own index, once.
EachInv ==
    /\ op # Nobody /\ op.each =>
         /\ pc[mu] # "claim"
         /\ \A w \in Worker : wpc[w] # "claim"
         /\ \A i \in Items : applied[i] =
              IF \/ i = 0 /\ pc[mu] = "wait"
                 \/ i \in Worker /\ (DoneJob(i) \/ wpc[i] = "finish")
              THEN 1 ELSE 0
    /\ op = Nobody => \A i \in Items : applied[i] = 0

\* The inductive invariant: the order of the steps, the wake-ups, the work.
Order == MuInv /\ IndexInv /\ GenInv /\ StopInv
Wakeups == TokenInv /\ WakeInv
Work == CountInv /\ RowsInv /\ EachInv
IInv == TypeOK /\ Order /\ ExclInv /\ Wakeups /\ Work

-----------------------------------------------------------------------------
\* What a job is: its participants, items and grain are numbers.
LEMMA JobFields ==
    /\ Workers \in Nat \ {0}
    /\ MaxItems \in Nat \ {0}
    /\ Nobody \notin Caller /\ Nobody \notin Job
    /\ \A j \in Job : /\ j.each \in BOOLEAN
                      /\ j.n \in Nat /\ 1 <= j.n /\ j.n <= Workers + 1
                      /\ j.items \in Nat /\ j.items <= MaxItems
                      /\ j.grain \in Nat /\ j.grain > 0
BY WorkerPoolAssumption DEF JobRecord

\* A worker moves itself and the counters, and nothing of a caller.
LEMMA WorkerFrame ==
    ASSUME TypeOK, NEW w \in Worker, WorkerStep(w)
    PROVE  /\ UNCHANGED <<mu, stop, active, op, generation, pc, arg, index, jobs>>
           /\ \A v \in Worker : v # w =>
                wpc'[v] = wpc[v] /\ seen'[v] = seen[v] /\ parked'[v] = parked[v] /\ wake'[v] = wake[v]
BY DEF WorkerStep, Spin, Idle, Park, Recheck, RecheckStop, Unpark, Wake, Take, WorkerClaim,
       WorkerApply, Finish, WGoto, Claim, sharedVars, callerVars, TypeOK

\* A caller moves no worker and no other caller.
LEMMA CallerFrame ==
    ASSUME TypeOK, NEW c \in Caller, CallerStep(c) \/ CallStep(c)
    PROVE  /\ UNCHANGED <<active, seen, wpc>>
           /\ \A d \in Caller : d # c => pc'[d] = pc[d] /\ arg'[d] = arg[d] /\ index'[d] = index[d]
<1>1. CASE CallerStep(c)
  BY <1>1 DEF CallerStep, RunInline, RunPublish, CheckEach, EachPublish, Publish, Signal, SignalKick,
         SignalSend, Kick, Send, CallerClaim, CallerApply, Wait, CloseLock, CloseKick, CloseSend,
         Join, Return, Goto, Claim, sharedVars, workerVars, callerVars, TypeOK
<1>2. CASE CallStep(c)
  BY <1>2 DEF CallStep, CallRunN, CallRunEach, CallClose, Call, Goto, sharedVars, workerVars, TypeOK
<1> QED BY <1>1, <1>2

\* hold and release only move active.
LEMMA HoldFrame ==
    ASSUME hold \/ release
    PROVE  UNCHANGED <<mu, stop, op, next, pending, generation, parked, wake, seen, start, wpc,
                       pc, arg, index, jobs, applied>>
BY DEF hold, release, workerVars, callerVars

\* The workers that are out are finitely many.
LEMMA OutFinite == IsFiniteSet(Out)
<1>1. IsFiniteSet(Worker)
  BY JobFields, FS_Interval DEF Worker
<1>2. Out \subseteq Worker
  BY DEF Out
<1> QED BY <1>1, <1>2, FS_Subset

\* A claim keeps the counter and the starts numbers.
LEMMA ClaimTypes ==
    ASSUME TypeOK, NEW p \in Participant, NEW j \in Job, Claim(p, j)
    PROVE  next' \in Nat /\ start' \in [Participant -> Nat]
<1>1. j.grain \in Nat
  BY JobFields
<1>2. (IF Exhausted(j) THEN 0 ELSE next) \in Nat
  BY DEF TypeOK
<1> QED BY <1>1, <1>2 DEF Claim, TypeOK

\* The types after the step of a worker.
LEMMA WorkerTypes ==
    ASSUME IInv, NEW w \in Worker, WorkerStep(w)
    PROVE  TypeOK'
<1> USE DEF WGoto, sharedVars, callerVars, WorkerPCs, Worker
<1>1. CASE Spin(w) \/ Idle(w) \/ Recheck(w) \/ RecheckStop(w)
  BY <1>1 DEF IInv, TypeOK, Spin, Idle, Recheck, RecheckStop
<1>2. CASE Park(w) \/ Unpark(w) \/ Wake(w) \/ Take(w)
  BY <1>2, ZenonT(40) DEF IInv, TypeOK, Park, Unpark, Wake, Take
<1>3. CASE WorkerClaim(w)
  <2>1. op \in Job /\ w \in Participant
    BY <1>3, JobFields DEF IInv, Order, GenInv, TypeOK, WorkerClaim, Working, Signalled, Participant
  <2>2. next' \in Nat /\ start' \in [Participant -> Nat]
    BY <1>3, <2>1, ClaimTypes DEF IInv, WorkerClaim
  <2> QED BY <1>3, <2>2 DEF IInv, TypeOK, WorkerClaim
<1>4. CASE WorkerApply(w)
  BY <1>4, SMTT(20) DEF IInv, TypeOK, WorkerApply, ApplyRows, ApplyGrain
<1>5. CASE Finish(w)
  <2>1. op # Nobody /\ w \in Out
    BY <1>5, JobFields, SMTT(20) DEF IInv, TypeOK, Order, MuInv, IndexInv, GenInv, Finish, Working, Signalled, Out, DoneJob, RunPCs
  <2>2. IsFiniteSet(Out) /\ Cardinality(Out) # 0
    BY <2>1, OutFinite, FS_EmptySet
  <2>3. pending' \in Nat
    BY <1>5, <2>1, <2>2, FS_CardinalityType DEF IInv, Work, CountInv, TypeOK, Finish
  <2> QED BY <1>5, <2>3 DEF IInv, TypeOK, Finish
<1> QED BY <1>1, <1>2, <1>3, <1>4, <1>5 DEF WorkerStep

\* The types after a step of a caller.
LEMMA CallerTypes ==
    ASSUME IInv, NEW c \in Caller, CallerStep(c) \/ CallStep(c)
    PROVE  TypeOK'
<1> USE DEF Goto, sharedVars, workerVars, callerVars, CallerPCs
<1>0. TypeOK /\ Order
  BY DEF IInv
<1>1. CASE CallStep(c)
  BY <1>0, <1>1 DEF CallStep, CallRunN, CallRunEach, CallClose, Call, TypeOK
<1>2. CASE RunInline(c) \/ CheckEach(c)
  BY <1>0, <1>2 DEF RunInline, CheckEach, Return, TypeOK
<1>3. CASE RunPublish(c) \/ EachPublish(c)
  <2>1. arg[c] \in Job /\ Pending(arg[c]) \in Nat
    BY <1>0, <1>3, JobFields DEF RunPublish, EachPublish, Pending, Order, MuInv
  <2> QED BY <1>0, <1>3, <2>1, JobFields DEF RunPublish, EachPublish, Publish, TypeOK
<1>4. CASE Signal(c)
  BY <1>0, <1>4 DEF Signal, TypeOK
<1>5. CASE SignalKick(c) \/ CloseKick(c)
  <2>1. index[c] \in Worker /\ index[c] + 1 \in 1..(Workers + 1)
    BY <1>5, JobFields DEF SignalKick, CloseKick, Kick, Worker
  <2>2. parked' \in [Worker -> BOOLEAN] /\ pc' \in [Caller -> CallerPCs]
    BY <1>0, <1>5 DEF SignalKick, CloseKick, Kick, TypeOK
  <2>3. index' \in [Caller -> 1..(Workers + 1)]
    BY <1>0, <1>5, <2>1 DEF SignalKick, CloseKick, Kick, TypeOK
  <2> QED BY <1>0, <1>5, <2>2, <2>3 DEF SignalKick, CloseKick, Kick, TypeOK
<1>6. CASE SignalSend(c) \/ CloseSend(c)
  <2>1. index[c] \in 1..Workers
    BY <1>0, <1>6, JobFields DEF SignalSend, CloseSend, Send, Order, MuInv, IndexInv, RunPCs, ClosePCs, TypeOK
  <2>2. index[c] + 1 \in 1..(Workers + 1)
    BY <2>1, JobFields
  <2> QED BY <1>0, <1>6, <2>1, <2>2 DEF SignalSend, CloseSend, Send, TypeOK, Worker
<1>7. CASE CallerClaim(c)
  <2>1. op \in Job
    BY <1>0, <1>7 DEF CallerClaim, Order, MuInv, RunPCs, TypeOK
  <2>2. next' \in Nat /\ start' \in [Participant -> Nat]
    BY <1>0, <1>7, <2>1, ClaimTypes, JobFields DEF CallerClaim, Participant
  <2> QED BY <1>0, <1>7, <2>2 DEF CallerClaim, TypeOK
<1>8. CASE CallerApply(c)
  BY <1>0, <1>8 DEF CallerApply, ApplyRows, ApplyGrain, TypeOK
<1>9. CASE Wait(c)
  BY <1>0, <1>9 DEF Wait, Return, TypeOK
<1>10. CASE CloseLock(c)
  BY <1>0, <1>10, JobFields DEF CloseLock, Return, TypeOK
<1>11. CASE Join(c)
  BY <1>0, <1>11 DEF Join, Return, TypeOK
<1> QED BY <1>1, <1>2, <1>3, <1>4, <1>5, <1>6, <1>7, <1>8, <1>9, <1>10, <1>11 DEF CallerStep

-----------------------------------------------------------------------------
\* A worker leaves the dispatcher's state alone and keeps to its generation.
LEMMA WorkerOrder ==
    ASSUME IInv, NEW w \in Worker, WorkerStep(w)
    PROVE  Order'
<1>0. TypeOK /\ MuInv /\ IndexInv /\ GenInv /\ StopInv
  BY DEF IInv, Order
<1>1. UNCHANGED <<mu, stop, op, generation, pc, arg, index>>
  BY <1>0, WorkerFrame
<1>2. \A v \in Worker : v # w => wpc'[v] = wpc[v] /\ seen'[v] = seen[v]
  BY <1>0, WorkerFrame
<1>3. \A v \in Worker : Signalled(v)' <=> Signalled(v)
  BY <1>1 DEF Signalled
<1>4. MuInv' /\ IndexInv'
  BY <1>0, <1>1 DEF MuInv, IndexInv
<1>5. wpc'[w] = "exit" <=> wpc[w] = "exit" \/ (stop /\ wpc[w] \in {"idle", "take"})
  BY <1>0 DEF WorkerStep, Spin, Idle, Park, Recheck, RecheckStop, Unpark, Wake, Take, WorkerClaim,
       WorkerApply, Finish, WGoto, TypeOK
<1>6. StopInv'
  BY <1>0, <1>1, <1>2, <1>5 DEF StopInv, Closing
<1>7. ~(stop /\ wpc[w] = "take")
  BY <1>0, JobFields DEF StopInv, Closing, GenInv, Signalled, MuInv, RunPCs, ClosePCs
<1>8. stop /\ wpc[w] = "idle" => ~Signalled(w)
  BY <1>0, JobFields DEF StopInv, Closing, Signalled, MuInv, RunPCs, ClosePCs
<1>9. /\ wpc'[w] = "take" => generation[w] # seen'[w]
      /\ wpc'[w] \in {"claim", "apply", "finish"} =>
           generation[w] = seen'[w] /\ wpc[w] \in {"take", "claim", "apply"}
      /\ generation[w] = seen[w] => seen'[w] = seen[w]
      /\ wpc[w] # "take" => seen'[w] = seen[w]
  BY <1>0 DEF WorkerStep, Spin, Idle, Park, Recheck, RecheckStop, Unpark, Wake, Take, WorkerClaim,
       WorkerApply, Finish, WGoto, TypeOK, GenInv, Working
<1>10. GenInv'
  BY <1>0, <1>1, <1>2, <1>3, <1>5, <1>7, <1>8, <1>9 DEF GenInv, Working
<1> QED BY <1>4, <1>6, <1>10 DEF Order

\* mu and the arguments after a step of a caller.
LEMMA CallerMu ==
    ASSUME IInv, NEW c \in Caller, CallerStep(c) \/ CallStep(c)
    PROVE  MuInv'
<1> USE DEF MuInv, Goto, RunPCs, ClosePCs
<1>0. TypeOK /\ MuInv /\ mu \in Caller \cup {Nobody} /\ Nobody \notin Caller /\ Nobody \notin Job
  BY JobFields DEF IInv, Order, TypeOK
<1>0a. pc \in [Caller -> CallerPCs] /\ arg \in [Caller -> Job \cup {Nobody}] /\ op \in Job \cup {Nobody}
  BY <1>0 DEF TypeOK
<1>1. CASE CallStep(c)
  BY <1>0, <1>0a, <1>1 DEF CallStep, CallRunN, CallRunEach, CallClose, Call, sharedVars
<1>2. CASE RunInline(c) \/ CheckEach(c)
  BY <1>0, <1>0a, <1>2 DEF RunInline, CheckEach, Return, sharedVars
<1>3. CASE RunPublish(c) \/ EachPublish(c)
  BY <1>0, <1>0a, <1>3 DEF RunPublish, EachPublish, Publish, Inline
<1>4. CASE Signal(c)
  BY <1>0, <1>0a, <1>4 DEF Signal
<1>5. CASE SignalKick(c) \/ CloseKick(c)
  BY <1>0, <1>0a, <1>5 DEF SignalKick, CloseKick, Kick
<1>6. CASE SignalSend(c) \/ CloseSend(c)
  BY <1>0, <1>0a, <1>6 DEF SignalSend, CloseSend, Send
<1>7. CASE CallerClaim(c) \/ CallerApply(c)
  BY <1>0, <1>0a, <1>7 DEF CallerClaim, CallerApply, sharedVars
<1>8. CASE Wait(c) \/ Join(c)
  BY <1>0, <1>0a, <1>8 DEF Wait, Join, Return
<1>9. CASE CloseLock(c)
  BY <1>0, <1>0a, <1>9 DEF CloseLock, Return
<1> QED BY <1>1, <1>2, <1>3, <1>4, <1>5, <1>6, <1>7, <1>8, <1>9 DEF CallerStep

\* How far the dispatcher has come after a step of a caller.
LEMMA CallerIndex ==
    ASSUME IInv, NEW c \in Caller, CallerStep(c) \/ CallStep(c)
    PROVE  IndexInv'
<1> USE DEF IndexInv, MuInv, Goto, RunPCs, ClosePCs
<1>0. TypeOK /\ MuInv /\ IndexInv /\ mu \in Caller \cup {Nobody} /\ Nobody \notin Caller
  BY JobFields DEF IInv, Order, TypeOK
<1>0a. pc \in [Caller -> CallerPCs] /\ index \in [Caller -> 1..(Workers + 1)] /\ Workers \in Nat
  BY <1>0, JobFields DEF TypeOK
<1>0b. op # Nobody => op \in Job /\ op.n \in Nat /\ op.n <= Workers + 1
  BY <1>0, JobFields DEF TypeOK
<1>1. CASE CallStep(c)
  BY <1>0, <1>0a, <1>1 DEF CallStep, CallRunN, CallRunEach, CallClose, Call, sharedVars
<1>2. CASE RunInline(c) \/ CheckEach(c)
  BY <1>0, <1>0a, <1>2 DEF RunInline, CheckEach, Return, sharedVars
<1>3. CASE RunPublish(c) \/ EachPublish(c)
  <2>1. arg[c] \in Job /\ arg[c].n \in Nat /\ 1 <= arg[c].n
    BY <1>0, <1>3, JobFields DEF RunPublish, EachPublish
  <2> QED BY <1>0, <1>0a, <1>3, <2>1 DEF RunPublish, EachPublish, Publish
<1>4. CASE Signal(c)
  BY <1>0, <1>0a, <1>0b, <1>4 DEF Signal
<1>5. CASE SignalKick(c)
  BY <1>0, <1>0a, <1>0b, <1>5 DEF SignalKick, Kick
<1>6. CASE CloseKick(c)
  BY <1>0, <1>0a, <1>6 DEF CloseKick, Kick, Worker
<1>7. CASE SignalSend(c) \/ CloseSend(c)
  BY <1>0, <1>0a, <1>0b, <1>7 DEF SignalSend, CloseSend, Send
<1>8. CASE CallerClaim(c) \/ CallerApply(c)
  BY <1>0, <1>0a, <1>8 DEF CallerClaim, CallerApply, sharedVars
<1>9. CASE Wait(c) \/ Join(c)
  BY <1>0, <1>0a, <1>9 DEF Wait, Join, Return
<1>10. CASE CloseLock(c)
  BY <1>0, <1>0a, <1>10 DEF CloseLock, Return
<1> QED BY <1>1, <1>2, <1>3, <1>4, <1>5, <1>6, <1>7, <1>8, <1>9, <1>10 DEF CallerStep

\* When the caller waits, the whole team has been signalled.
LEMMA WaitSignalled ==
    ASSUME IInv, mu \in Caller, pc[mu] \in {"claim", "apply", "wait"}
    PROVE  \A w \in Worker : w < op.n <=> Signalled(w)
BY JobFields DEF IInv, Order, MuInv, IndexInv, Signalled, RunPCs, TypeOK, Worker

\* When the barrier opens, every worker is done with the job.
LEMMA BarrierOpens ==
    ASSUME IInv, NEW c \in Caller, Wait(c)
    PROVE  /\ mu = c /\ op # Nobody /\ Out = {}
           /\ \A w \in Worker : generation[w] = seen[w] /\ wpc[w] # "take" /\ ~Working(w)
<1>1. mu = c /\ op # Nobody
  BY DEF IInv, Order, MuInv, Wait, RunPCs
<1>2. Out = {}
  BY <1>1, OutFinite, FS_EmptySet DEF Wait, Done, IInv, Work, CountInv
<1>3. \A w \in Worker : Signalled(w) => DoneJob(w)
  BY <1>1, <1>2, WaitSignalled DEF Out, Wait
<1> QED BY <1>1, <1>2, <1>3 DEF DoneJob, IInv, Order, GenInv

\* Only Signal moves a generation; only Signal and Wait change who is
\* signalled.
LEMMA CallerSignals ==
    ASSUME IInv, NEW c \in Caller, CallerStep(c) \/ CallStep(c)
    PROVE  \/ /\ generation' = generation
              /\ \A w \in Worker : Signalled(w)' <=> Signalled(w)
           \/ /\ Signal(c) /\ index[c] \in Worker /\ mu = c /\ mu' = c /\ pc'[c] = "kick"
              /\ \A w \in Worker : w # index[c] => generation'[w] = generation[w]
              /\ generation'[index[c]] = generation[index[c]] + 1
              /\ ~Signalled(index[c])
              /\ \A w \in Worker : Signalled(w)' <=> Signalled(w) \/ w = index[c]
           \/ /\ Wait(c) /\ generation' = generation
              /\ \A w \in Worker : ~Signalled(w)'
<1> USE DEF Goto, RunPCs, ClosePCs
<1>0. TypeOK /\ MuInv /\ MuInv' /\ IndexInv /\ mu \in Caller \cup {Nobody} /\ Nobody \notin Caller /\ Nobody \notin Job
  BY JobFields, CallerMu DEF IInv, Order, TypeOK
<1>0a. pc \in [Caller -> CallerPCs] /\ index \in [Caller -> 1..(Workers + 1)] /\ Workers \in Nat
  BY <1>0, JobFields DEF TypeOK
<1>1. CASE CallStep(c)
  BY <1>0, <1>0a, <1>1 DEF CallStep, CallRunN, CallRunEach, CallClose, Call, sharedVars, Signalled, MuInv
<1>2. CASE RunInline(c) \/ CheckEach(c)
  BY <1>0, <1>0a, <1>2 DEF RunInline, CheckEach, Return, sharedVars, Signalled, MuInv
<1>3. CASE RunPublish(c) \/ EachPublish(c)
  BY <1>0, <1>0a, <1>3 DEF RunPublish, EachPublish, Publish, Signalled, MuInv, Worker
<1>4. CASE Signal(c)
  <2>0. op \in Job /\ op.n \in Nat /\ op.n <= Workers + 1 /\ mu = c
    BY <1>0, <1>4, JobFields DEF Signal, MuInv, TypeOK
  <2>1. CASE index[c] < op.n
    <3>1. index[c] \in Worker
      BY <1>0a, <2>0, <2>1 DEF Worker
    <3> QED BY <1>0, <1>0a, <1>4, <2>0, <2>1, <3>1 DEF Signal, Signalled, TypeOK, Worker
  <2>2. CASE ~(index[c] < op.n)
    BY <1>0, <1>0a, <1>4, <2>0, <2>2 DEF Signal, Signalled
  <2> QED BY <2>1, <2>2
<1>5. CASE SignalKick(c)
  BY <1>0, <1>0a, <1>5 DEF SignalKick, Kick, Signalled, MuInv, Worker
<1>6. CASE CloseKick(c)
  BY <1>0, <1>0a, <1>6 DEF CloseKick, Kick, Signalled, MuInv
<1>7. CASE SignalSend(c)
  BY <1>0, <1>0a, <1>7 DEF SignalSend, Send, Signalled, MuInv, Worker
<1>8. CASE CloseSend(c)
  BY <1>0, <1>0a, <1>8 DEF CloseSend, Send, Signalled, MuInv
<1>9. CASE CallerClaim(c) \/ CallerApply(c)
  BY <1>0, <1>0a, <1>9 DEF CallerClaim, CallerApply, sharedVars, Signalled, MuInv
<1>10. CASE Wait(c)
  BY <1>0, <1>0a, <1>10 DEF Wait, Signalled
<1>11. CASE Join(c)
  BY <1>0, <1>0a, <1>11 DEF Join, Return, Signalled, MuInv
<1>12. CASE CloseLock(c)
  BY <1>0, <1>0a, <1>12 DEF CloseLock, Return, Signalled, MuInv
<1> QED BY <1>1, <1>2, <1>3, <1>4, <1>5, <1>6, <1>7, <1>8, <1>9, <1>10, <1>11, <1>12 DEF CallerStep

\* The generations after a step of a caller.
LEMMA CallerGen ==
    ASSUME IInv, NEW c \in Caller, CallerStep(c) \/ CallStep(c)
    PROVE  GenInv'
<1>0. TypeOK /\ GenInv /\ UNCHANGED <<seen, wpc>>
  BY CallerFrame DEF IInv, Order
<1>1. stop => stop'
  BY DEF CallerStep, CallStep, RunInline, RunPublish, CheckEach, EachPublish, Publish, Signal, SignalKick,
         SignalSend, Kick, Send, CallerClaim, CallerApply, Wait, CloseLock, CloseKick, CloseSend,
         Join, CallRunN, CallRunEach, CallClose, Call, sharedVars
<1>2. CASE Wait(c)
  <2>1. \A w \in Worker : generation[w] = seen[w] /\ wpc[w] # "take" /\ ~Working(w)
    BY <1>2, BarrierOpens
  <2>2. generation' = generation /\ \A w \in Worker : ~Signalled(w)'
    BY <1>2 DEF Wait, Signalled
  <2> QED BY <1>0, <1>1, <2>1, <2>2 DEF GenInv, Working
<1>3. CASE generation' = generation /\ \A w \in Worker : Signalled(w)' <=> Signalled(w)
  BY <1>0, <1>1, <1>3 DEF GenInv, Working
<1>4. CASE /\ index[c] \in Worker
           /\ \A w \in Worker : w # index[c] => generation'[w] = generation[w]
           /\ generation'[index[c]] = generation[index[c]] + 1
           /\ ~Signalled(index[c])
           /\ \A w \in Worker : Signalled(w)' <=> Signalled(w) \/ w = index[c]
  BY <1>0, <1>1, <1>4 DEF GenInv, Working, TypeOK
<1> QED BY <1>2, <1>3, <1>4, CallerSignals

\* Who closes, and that the workers are gone when nobody does.
LEMMA CallerStop ==
    ASSUME IInv, NEW c \in Caller, CallerStep(c) \/ CallStep(c)
    PROVE  StopInv'
<1> USE DEF StopInv, Closing, MuInv, Goto, RunPCs, ClosePCs
<1>0. TypeOK /\ MuInv /\ StopInv /\ mu \in Caller \cup {Nobody} /\ Nobody \notin Caller
  BY JobFields DEF IInv, Order, TypeOK
<1>0a. pc \in [Caller -> CallerPCs] /\ wpc' = wpc
  BY <1>0, CallerFrame DEF TypeOK
<1>1. CASE CallStep(c)
  BY <1>0, <1>0a, <1>1 DEF CallStep, CallRunN, CallRunEach, CallClose, Call, sharedVars
<1>2. CASE RunInline(c) \/ CheckEach(c)
  BY <1>0, <1>0a, <1>2 DEF RunInline, CheckEach, Return, sharedVars
<1>3. CASE RunPublish(c) \/ EachPublish(c)
  BY <1>0, <1>0a, <1>3 DEF RunPublish, EachPublish, Publish
<1>4. CASE Signal(c)
  BY <1>0, <1>0a, <1>4 DEF Signal
<1>5. CASE SignalKick(c) \/ CloseKick(c)
  BY <1>0, <1>0a, <1>5 DEF SignalKick, CloseKick, Kick
<1>6. CASE SignalSend(c) \/ CloseSend(c)
  BY <1>0, <1>0a, <1>6 DEF SignalSend, CloseSend, Send
<1>7. CASE CallerClaim(c) \/ CallerApply(c)
  BY <1>0, <1>0a, <1>7 DEF CallerClaim, CallerApply, sharedVars
<1>8. CASE Wait(c) \/ Join(c)
  BY <1>0, <1>0a, <1>8 DEF Wait, Join, Return
<1>9. CASE CloseLock(c)
  BY <1>0, <1>0a, <1>9 DEF CloseLock, Return
<1> QED BY <1>1, <1>2, <1>3, <1>4, <1>5, <1>6, <1>7, <1>8, <1>9 DEF CallerStep

\* runEach and close still exclude each other.
LEMMA ExclStep ==
    ASSUME IInv, NEW c \in Caller, CallerStep(c) \/ CallStep(c)
    PROVE  ExclInv'
<1>0. SUFFICES ASSUME Exclusive PROVE ExclInv'
  BY DEF ExclInv
<1> USE <1>0 DEF ExclInv, MuInv, Goto, RunPCs, ClosePCs
<1>1. TypeOK /\ MuInv /\ ExclInv /\ mu \in Caller \cup {Nobody} /\ Nobody \notin Caller /\ Nobody \notin Job
  BY JobFields DEF IInv, Order, TypeOK
<1>2. pc \in [Caller -> CallerPCs] /\ arg \in [Caller -> Job \cup {Nobody}]
  BY <1>1 DEF TypeOK
<1>3. CASE CallStep(c)
  BY <1>1, <1>2, <1>3 DEF CallStep, CallRunN, CallRunEach, CallClose, Call, Busy, sharedVars
<1>4. CASE RunInline(c) \/ CheckEach(c)
  BY <1>1, <1>2, <1>4 DEF RunInline, CheckEach, Return, sharedVars
<1>5. CASE RunPublish(c) \/ EachPublish(c)
  BY <1>1, <1>2, <1>5 DEF RunPublish, EachPublish, Publish, Inline
<1>6. CASE Signal(c)
  BY <1>1, <1>2, <1>6 DEF Signal
<1>7. CASE SignalKick(c) \/ CloseKick(c)
  BY <1>1, <1>2, <1>7 DEF SignalKick, CloseKick, Kick
<1>8. CASE SignalSend(c) \/ CloseSend(c)
  BY <1>1, <1>2, <1>8 DEF SignalSend, CloseSend, Send
<1>9. CASE CallerClaim(c) \/ CallerApply(c)
  BY <1>1, <1>2, <1>9 DEF CallerClaim, CallerApply, sharedVars
<1>10. CASE Wait(c) \/ Join(c)
  BY <1>1, <1>2, <1>10 DEF Wait, Join, Return
<1>11. CASE CloseLock(c)
  BY <1>1, <1>2, <1>11 DEF CloseLock, Return
<1> QED BY <1>3, <1>4, <1>5, <1>6, <1>7, <1>8, <1>9, <1>10, <1>11 DEF CallerStep

-----------------------------------------------------------------------------
\* A worker meets the tokens that are sent to it, and no other.
LEMMA WorkerWakeups ==
    ASSUME IInv, NEW w \in Worker, WorkerStep(w)
    PROVE  Wakeups'
<1> USE DEF WGoto
<1>0. TypeOK /\ TokenInv /\ WakeInv /\ GenInv
  BY DEF IInv, Order, Wakeups
<1>1. UNCHANGED <<mu, stop, generation, pc, index>>
  BY <1>0, WorkerFrame
<1>2. \A v \in Worker : v # w => /\ wpc'[v] = wpc[v] /\ seen'[v] = seen[v]
                                 /\ parked'[v] = parked[v] /\ wake'[v] = wake[v]
  BY <1>0, WorkerFrame
<1>3. \A v \in Worker : Sending(v)' <=> Sending(v)
  BY <1>1 DEF Sending
<1>4. CASE Spin(w) \/ Idle(w) \/ Park(w)
  BY <1>0, <1>1, <1>2, <1>3, <1>4 DEF Wakeups, TokenInv, WakeInv, TypeOK, Spin, Idle, Park, sharedVars
<1>5. CASE Recheck(w) \/ RecheckStop(w)
  BY <1>0, <1>1, <1>2, <1>3, <1>5 DEF Wakeups, TokenInv, WakeInv, TypeOK, Recheck, RecheckStop, sharedVars
<1>6. CASE Unpark(w) \/ Wake(w)
  BY <1>0, <1>1, <1>2, <1>3, <1>6 DEF Wakeups, TokenInv, WakeInv, TypeOK, Unpark, Wake
<1>7. CASE Take(w) \/ WorkerClaim(w) \/ WorkerApply(w) \/ Finish(w)
  BY <1>0, <1>1, <1>2, <1>3, <1>7 DEF Wakeups, TokenInv, WakeInv, TypeOK, Take, WorkerClaim, WorkerApply,
       Finish, sharedVars
<1> QED BY <1>4, <1>5, <1>6, <1>7 DEF WorkerStep

\* A caller wakes the worker whose flag it takes, once.
LEMMA CallerTokens ==
    ASSUME IInv, NEW c \in Caller, CallerStep(c) \/ CallStep(c)
    PROVE  TokenInv'
<1> USE DEF TokenInv, Sending, MuInv, Goto, RunPCs, ClosePCs
<1>0. TypeOK /\ MuInv /\ TokenInv /\ mu \in Caller \cup {Nobody} /\ Nobody \notin Caller
  BY JobFields DEF IInv, Order, Wakeups, TypeOK
<1>0a. /\ pc \in [Caller -> CallerPCs] /\ index \in [Caller -> 1..(Workers + 1)] /\ Workers \in Nat
       /\ parked \in [Worker -> BOOLEAN] /\ wake \in [Worker -> {0, 1}]
  BY <1>0, JobFields DEF TypeOK
<1>0b. wpc' = wpc
  BY <1>0, CallerFrame
<1>1. CASE CallStep(c)
  BY <1>0, <1>0a, <1>0b, <1>1 DEF CallStep, CallRunN, CallRunEach, CallClose, Call, sharedVars
<1>2. CASE RunInline(c) \/ CheckEach(c)
  BY <1>0, <1>0a, <1>0b, <1>2 DEF RunInline, CheckEach, Return, sharedVars
<1>3. CASE RunPublish(c) \/ EachPublish(c)
  BY <1>0, <1>0a, <1>0b, <1>3 DEF RunPublish, EachPublish, Publish
<1>4. CASE Signal(c)
  BY <1>0, <1>0a, <1>0b, <1>4 DEF Signal
<1>5. CASE SignalKick(c)
  BY <1>0, <1>0a, <1>0b, <1>5 DEF SignalKick, Kick
<1>6. CASE CloseKick(c)
  BY <1>0, <1>0a, <1>0b, <1>6 DEF CloseKick, Kick
<1>7. CASE SignalSend(c)
  BY <1>0, <1>0a, <1>0b, <1>7 DEF SignalSend, Send
<1>8. CASE CloseSend(c)
  BY <1>0, <1>0a, <1>0b, <1>8 DEF CloseSend, Send
<1>9. CASE CallerClaim(c) \/ CallerApply(c)
  BY <1>0, <1>0a, <1>0b, <1>9 DEF CallerClaim, CallerApply, sharedVars
<1>10. CASE Wait(c) \/ Join(c)
  BY <1>0, <1>0a, <1>0b, <1>10 DEF Wait, Join, Return
<1>11. CASE CloseLock(c)
  BY <1>0, <1>0a, <1>0b, <1>11 DEF CloseLock, Return
<1> QED BY <1>1, <1>2, <1>3, <1>4, <1>5, <1>6, <1>7, <1>8, <1>9, <1>10, <1>11 DEF CallerStep

\* A caller that passes a sleeping worker has woken it.
LEMMA CallerWakes ==
    ASSUME IInv, NEW c \in Caller, CallerStep(c) \/ CallStep(c)
    PROVE  WakeInv'
<1> USE DEF WakeInv, MuInv, Goto, RunPCs, ClosePCs
<1>0. TypeOK /\ MuInv /\ TokenInv /\ WakeInv /\ mu \in Caller \cup {Nobody} /\ Nobody \notin Caller
  BY JobFields DEF IInv, Order, Wakeups, TypeOK
<1>0a. /\ pc \in [Caller -> CallerPCs] /\ index \in [Caller -> 1..(Workers + 1)] /\ Workers \in Nat
       /\ parked \in [Worker -> BOOLEAN] /\ wake \in [Worker -> {0, 1}] /\ generation \in [Worker -> Nat]
  BY <1>0, JobFields DEF TypeOK
<1>0b. wpc' = wpc /\ seen' = seen
  BY <1>0, CallerFrame
<1>1. CASE CallStep(c)
  BY <1>0, <1>0a, <1>0b, <1>1 DEF CallStep, CallRunN, CallRunEach, CallClose, Call, sharedVars
<1>2. CASE RunInline(c) \/ CheckEach(c)
  BY <1>0, <1>0a, <1>0b, <1>2 DEF RunInline, CheckEach, Return, sharedVars
<1>3. CASE RunPublish(c) \/ EachPublish(c)
  BY <1>0, <1>0a, <1>0b, <1>3 DEF RunPublish, EachPublish, Publish
<1>4. CASE Signal(c)
  BY <1>0, <1>0a, <1>0b, <1>4 DEF Signal
<1>5. CASE SignalKick(c)
  BY <1>0, <1>0a, <1>0b, <1>5 DEF SignalKick, Kick, TokenInv, Sending, Worker
<1>6. CASE CloseKick(c)
  BY <1>0, <1>0a, <1>0b, <1>6 DEF CloseKick, Kick, TokenInv, Sending, Worker
<1>7. CASE SignalSend(c)
  BY <1>0, <1>0a, <1>0b, <1>7 DEF SignalSend, Send, Worker
<1>8. CASE CloseSend(c)
  BY <1>0, <1>0a, <1>0b, <1>8 DEF CloseSend, Send, Worker
<1>9. CASE CallerClaim(c) \/ CallerApply(c)
  BY <1>0, <1>0a, <1>0b, <1>9 DEF CallerClaim, CallerApply, sharedVars
<1>10. CASE Wait(c) \/ Join(c)
  <2>1. Join(c) => \A w \in Worker : wpc[w] = "exit"
    BY DEF Join
  <2> QED BY <1>0, <1>0a, <1>0b, <1>10, <2>1 DEF Wait, Join, Return
<1>11. CASE CloseLock(c)
  BY <1>0, <1>0a, <1>0b, <1>11 DEF CloseLock, Return, Worker
<1> QED BY <1>1, <1>2, <1>3, <1>4, <1>5, <1>6, <1>7, <1>8, <1>9, <1>10, <1>11 DEF CallerStep

-----------------------------------------------------------------------------
\* A worker whose generation was moved belongs to the job's team.
LEMMA SignalledTeam ==
    ASSUME IInv, NEW w \in Worker, Signalled(w)
    PROVE  w < op.n
<1>1. op \in Job /\ op.n \in Nat /\ mu \in Caller /\ pc[mu] \in RunPCs
  BY JobFields DEF IInv, Order, MuInv, Signalled, TypeOK
<1>2. index[mu] \in Nat /\ w \in Nat
  BY <1>1, JobFields DEF IInv, TypeOK, Worker
<1> QED BY <1>1, <1>2 DEF IInv, Order, IndexInv, Signalled, RunPCs

\* A worker at the job belongs to its team.
LEMMA WorkingTeam ==
    ASSUME IInv, NEW w \in Worker, Working(w) \/ wpc[w] = "take"
    PROVE  op \in Job /\ op # Nobody /\ mu \in Caller /\ w < op.n /\ Signalled(w)
BY JobFields, SMTT(20) DEF IInv, Order, MuInv, IndexInv, GenInv, Signalled, RunPCs, TypeOK, Worker

\* Only Finish counts a worker down, and only a worker that was out.
LEMMA WorkerCounts ==
    ASSUME IInv, NEW w \in Worker, WorkerStep(w)
    PROVE  /\ CountInv'
           /\ \A v \in Worker : DoneJob(v)' <=> DoneJob(v) \/ (v = w /\ wpc[w] = "finish")
<1> USE DEF WGoto
<1>0. TypeOK /\ GenInv /\ CountInv /\ MuInv /\ StopInv
  BY DEF IInv, Order, Work
<1>1. UNCHANGED <<mu, stop, op, generation, pc, index>>
  BY <1>0, WorkerFrame
<1>2. \A v \in Worker : v # w => wpc'[v] = wpc[v] /\ seen'[v] = seen[v]
  BY <1>0, WorkerFrame
<1>3. \A v \in Worker : Signalled(v)' <=> Signalled(v)
  BY <1>1 DEF Signalled
<1>4. CASE Finish(w)
  <2>1. wpc[w] = "finish" /\ wpc'[w] = "spin" /\ seen' = seen /\ pending' = pending - 1
    BY <1>0, <1>4 DEF Finish, TypeOK
  <2>2. \A v \in Worker : DoneJob(v)' <=> DoneJob(v) \/ v = w
    BY <1>0, <1>1, <1>2, <1>3, <2>1, WorkingTeam DEF DoneJob, Working, GenInv
  <2>3. w \in Out /\ op # Nobody
    BY <2>1, WorkingTeam DEF Out, DoneJob, Working
  <2>4. Out' = Out \ {w}
    BY <1>1, <2>2 DEF Out
  <2>5. Cardinality(Out') = Cardinality(Out) - 1
    BY <2>3, <2>4, OutFinite, FS_RemoveElement
  <2> QED BY <1>0, <1>1, <2>1, <2>2, <2>3, <2>5 DEF CountInv
<1>5. CASE Take(w)
  <2>1. ~stop /\ generation[w] # seen[w]
    BY <1>0, <1>5, WorkingTeam DEF Take, GenInv, StopInv, Closing, MuInv, RunPCs, ClosePCs
  <2>2. wpc[w] = "take" /\ wpc'[w] \in {"claim", "apply"} /\ pending' = pending
    BY <1>0, <1>5, <2>1 DEF Take, TypeOK, sharedVars
  <2>3. \A v \in Worker : DoneJob(v)' <=> DoneJob(v)
    BY <1>1, <1>2, <1>3, <2>1, <2>2 DEF DoneJob, Working
  <2>4. Out' = Out
    BY <1>1, <2>3 DEF Out
  <2> QED BY <1>0, <1>1, <2>2, <2>3, <2>4 DEF CountInv
<1>6. CASE ~Finish(w) /\ ~Take(w)
  <2>1. /\ wpc'[w] \in {"claim", "apply", "finish"} <=> wpc[w] \in {"claim", "apply", "finish"}
        /\ pending' = pending /\ seen' = seen /\ wpc[w] # "finish"
    BY <1>0, <1>6 DEF WorkerStep, Spin, Idle, Park, Recheck, RecheckStop, Unpark, Wake, WorkerClaim,
       WorkerApply, TypeOK, sharedVars
  <2>2. \A v \in Worker : DoneJob(v)' <=> DoneJob(v)
    BY <1>1, <1>2, <1>3, <2>1 DEF DoneJob, Working
  <2>3. Out' = Out
    BY <1>1, <2>2 DEF Out
  <2> QED BY <1>0, <1>1, <2>1, <2>2, <2>3 DEF CountInv
<1> QED BY <1>4, <1>5, <1>6

\* The rows when no grain is claimed or applied.
LEMMA RowsFrame ==
    ASSUME RowsInv, UNCHANGED <<op, next, applied, start>>,
           \A p \in Participant : Applying(p)' <=> Applying(p),
           op # Nobody /\ ~op.each /\ pc'[mu'] = "wait" => pc[mu] = "wait"
    PROVE  RowsInv'
BY DEF RowsInv, InGrain

\* The rows when participant p claims the next grain.
LEMMA RowsClaim ==
    ASSUME TypeOK, RowsInv, NEW p \in Participant, op \in Job, ~op.each, Claim(p, op),
           op' = op, applied' = applied, ~Applying(p), mu' = mu,
           Applying(p)' <=> ~Exhausted(op),
           \A q \in Participant : q # p => (Applying(q)' <=> Applying(q)),
           pc'[mu] = "wait" => pc[mu] = "wait" \/ Exhausted(op)
    PROVE  RowsInv'
<1> USE JobFields DEF RowsInv, InGrain, Claim, Exhausted, TypeOK
<1>0. op.grain \in Nat /\ op.grain > 0 /\ op.items \in Nat /\ op # Nobody
  OBVIOUS
<1>1. next' = next + op.grain /\ next \in Nat /\ \A q \in Participant : start[q] \in Nat
  OBVIOUS
<1>2. CASE Exhausted(op)
  <2>1. \A q \in Participant : Applying(q)' <=> Applying(q)
    BY <1>2
  <2>2. \A q \in Participant : Applying(q)' => start'[q] = start[q]
    BY <1>2, <2>1
  <2>3. \A q \in Participant : Applying(q)' => start'[q] + op.grain <= next' /\ start'[q] < op.items
    BY <1>0, <1>1, <2>1, <2>2
  <2>4. \A q, r \in Participant : Applying(q)' /\ Applying(r)' /\ q # r =>
          start'[q] + op.grain <= start'[r] \/ start'[r] + op.grain <= start'[q]
    BY <1>0, <1>1, <2>1, <2>2
  <2>5. ASSUME NEW i \in Items
        PROVE  applied'[i] = IF i < next' /\ i < op.items /\ \A q \in Participant : Applying(q)' => ~InGrain(i, q)'
                             THEN 1 ELSE 0
    <3>1. i \in Nat
      BY DEF Items
    <3>2. \A q \in Participant : (Applying(q)' => ~InGrain(i, q)') <=> (Applying(q) => ~InGrain(i, q))
      BY <2>1, <2>2
    <3>3. i < op.items => (i < next <=> i < next')
      BY <1>0, <1>1, <1>2, <3>1
    <3> QED BY <1>0, <3>2, <3>3
  <2> QED BY <1>0, <1>1, <1>2, <2>3, <2>4, <2>5
<1>3. CASE ~Exhausted(op)
  <2>1. start'[p] = next /\ Applying(p)' /\ next < op.items
    BY <1>3
  <2>2. \A q \in Participant : q # p => (Applying(q)' <=> Applying(q)) /\ start'[q] = start[q]
    OBVIOUS
  <2>3. \A q \in Participant : Applying(q)' => start'[q] + op.grain <= next' /\ start'[q] < op.items
    BY <1>0, <1>1, <2>1, <2>2
  <2>4. \A q, r \in Participant : Applying(q)' /\ Applying(r)' /\ q # r =>
          start'[q] + op.grain <= start'[r] \/ start'[r] + op.grain <= start'[q]
    BY <1>0, <1>1, <2>1, <2>2
  <2>5. ASSUME NEW i \in Items
        PROVE  applied'[i] = IF i < next' /\ i < op.items /\ \A q \in Participant : Applying(q)' => ~InGrain(i, q)'
                             THEN 1 ELSE 0
    <3>0. i \in Nat
      BY DEF Items
    <3>1. CASE i < next
      <4>1. ~InGrain(i, p)'
        BY <1>0, <1>1, <2>1, <3>0, <3>1
      <4> QED BY <1>0, <1>1, <2>1, <2>2, <3>0, <3>1, <4>1
    <3>2. CASE ~(i < next)
      <4>1. InGrain(i, p)' \/ ~(i < next')
        BY <1>0, <1>1, <2>1, <3>0, <3>2
      <4> QED BY <1>0, <1>1, <2>1, <3>0, <3>2, <4>1
    <3> QED BY <3>1, <3>2
  <2> QED BY <1>0, <2>1, <2>3, <2>4, <2>5, <1>3, <1>1
<1> QED BY <1>2, <1>3

\* The rows when participant p has applied its grain.
LEMMA RowsApply ==
    ASSUME TypeOK, RowsInv, NEW p \in Participant, op \in Job, ~op.each, ApplyGrain(p, op),
           UNCHANGED <<op, next, start, mu>>, Applying(p), ~Applying(p)',
           \A q \in Participant : q # p => (Applying(q)' <=> Applying(q)),
           pc'[mu] = "wait" => pc[mu] = "wait"
    PROVE  RowsInv'
<1>0. op.grain \in Nat /\ op.grain > 0 /\ op.items \in Nat /\ op # Nobody
  BY JobFields
<1>1. next \in Nat /\ \A q \in Participant : start[q] \in Nat
  BY DEF TypeOK
<1>2. ASSUME NEW i \in Items
      PROVE  applied'[i] = IF i < next /\ i < op.items /\ \A q \in Participant : Applying(q)' => ~InGrain(i, q)
                           THEN 1 ELSE 0
  <2>0. i \in Nat /\ applied[i] \in Nat
    BY JobFields DEF Items, TypeOK
  <2>1. applied'[i] = IF InGrain(i, p) /\ i < op.items THEN applied[i] + 1 ELSE applied[i]
    BY <1>0, <1>1, <2>0 DEF ApplyGrain, ApplyRows, Least, InGrain
  <2>2. start[p] + op.grain <= next
    BY <1>0 DEF RowsInv
  <2>3. CASE InGrain(i, p) /\ i < op.items
    <3>1. applied[i] = 0
      BY <1>0, <2>3 DEF RowsInv
    <3>2. i < next
      BY <1>0, <1>1, <2>0, <2>2, <2>3 DEF InGrain
    <3>3. \A q \in Participant : Applying(q)' => ~InGrain(i, q)
      BY <1>0, <1>1, <2>0, <2>3 DEF InGrain, RowsInv
    <3> QED BY <2>1, <2>3, <3>1, <3>2, <3>3
  <2>4. CASE ~(InGrain(i, p) /\ i < op.items)
    BY <1>0, <2>1, <2>4 DEF RowsInv
  <2> QED BY <2>3, <2>4
<1>3. \A q \in Participant : Applying(q)' => Applying(q)
  OBVIOUS
<1> QED BY <1>0, <1>2, <1>3 DEF RowsInv, InGrain

\* The rows of runN after the step of a worker.
LEMMA WorkerRows ==
    ASSUME IInv, NEW w \in Worker, WorkerStep(w)
    PROVE  RowsInv'
<1> USE DEF WGoto
<1>0. TypeOK /\ RowsInv /\ w \in Participant /\ w # 0 /\ 0 \in Participant
  BY JobFields DEF IInv, Work, Worker, Participant
<1>1. UNCHANGED <<mu, op, pc>>
  BY <1>0, WorkerFrame
<1>2. \A q \in Participant : q # w => (Applying(q)' <=> Applying(q))
  <2>1. \A v \in Worker : v # w => wpc'[v] = wpc[v]
    BY <1>0, WorkerFrame
  <2> QED BY <1>1, <2>1 DEF Applying, Participant, Worker
<1>3. CASE WorkerClaim(w) /\ ~op.each
  <2>1. op \in Job
    BY <1>3, WorkingTeam DEF WorkerClaim, Working
  <2>2. ~Applying(w) /\ (Applying(w)' <=> ~Exhausted(op)) /\ applied' = applied
    BY <1>0, <1>3 DEF WorkerClaim, Applying, TypeOK
  <2> QED BY <1>0, <1>1, <1>2, <1>3, <2>1, <2>2, RowsClaim DEF WorkerClaim
<1>4. CASE WorkerApply(w) /\ ~op.each
  <2>1. op \in Job
    BY <1>4, WorkingTeam DEF WorkerApply, Working
  <2>2. Applying(w) /\ ~Applying(w)' /\ UNCHANGED <<next, start>> /\ ApplyGrain(w, op)
    BY <1>0, <1>4 DEF WorkerApply, Applying, TypeOK, sharedVars
  <2> QED BY <1>0, <1>1, <1>2, <1>4, <2>1, <2>2, RowsApply
<1>5. CASE op.each
  BY <1>1, <1>5 DEF RowsInv
<1>6. CASE ~op.each /\ ~WorkerClaim(w) /\ ~WorkerApply(w)
  <2>1. UNCHANGED <<next, applied, start>> /\ wpc[w] # "apply" /\ (wpc'[w] = "apply" => op.each)
    BY <1>0, <1>6 DEF WorkerStep, Spin, Idle, Park, Recheck, RecheckStop, Unpark, Wake, Take, Finish,
       TypeOK, sharedVars
  <2> QED BY <1>0, <1>1, <1>2, <1>6, <2>1, RowsFrame DEF Applying
<1> QED BY <1>3, <1>4, <1>5, <1>6

\* The indices of runEach after the step of a worker.
LEMMA WorkerEach ==
    ASSUME IInv, NEW w \in Worker, WorkerStep(w)
    PROVE  EachInv'
<1> USE DEF WGoto
<1>0. TypeOK /\ EachInv /\ w # 0 /\ w \in Items
  BY JobFields DEF IInv, Work, Worker, Items
<1>1. UNCHANGED <<mu, op, pc>>
  BY <1>0, WorkerFrame
<1>2. \A v \in Worker : DoneJob(v)' <=> DoneJob(v) \/ (v = w /\ wpc[w] = "finish")
  BY WorkerCounts
<1>3. \A v \in Worker : v # w => wpc'[v] = wpc[v]
  BY <1>0, WorkerFrame
<1>4. CASE op = Nobody
  <2>1. ~WorkerApply(w)
    BY <1>4, WorkingTeam DEF WorkerApply, Working
  <2>2. applied' = applied
    BY <2>1 DEF WorkerStep, Spin, Idle, Park, Recheck, RecheckStop, Unpark, Wake, Take, WorkerClaim, Finish
  <2> QED BY <1>0, <1>1, <1>4, <2>2 DEF EachInv
<1>5. CASE op # Nobody /\ op.each
  <2>1. CASE WorkerApply(w)
    <3>1. wpc[w] = "apply" /\ wpc'[w] = "finish"
      BY <1>0, <1>5, <2>1 DEF WorkerApply, TypeOK
    <3>2. \A i \in Items : applied'[i] = IF i = w THEN applied[i] + 1 ELSE applied[i]
      BY <1>0, <1>5, <2>1 DEF WorkerApply, ApplyRows, Items, Worker
    <3>3. applied[w] = 0
      BY <1>0, <1>5, <3>1 DEF EachInv, DoneJob, Working
    <3> QED BY <1>0, <1>1, <1>2, <1>3, <1>5, <3>1, <3>2, <3>3 DEF EachInv
  <2>2. CASE ~WorkerApply(w)
    <3>1. applied' = applied /\ wpc'[w] # "finish" /\ wpc'[w] # "claim"
      BY <1>0, <1>5, <2>2 DEF WorkerStep, Spin, Idle, Park, Recheck, RecheckStop, Unpark, Wake, Take,
         WorkerClaim, Finish, EachInv, TypeOK
    <3> QED BY <1>0, <1>1, <1>2, <1>3, <1>5, <3>1 DEF EachInv
  <2> QED BY <2>1, <2>2
<1>6. CASE op # Nobody /\ ~op.each
  BY <1>1, <1>6 DEF EachInv
<1> QED BY <1>4, <1>5, <1>6

-----------------------------------------------------------------------------
\* A caller makes no worker done: a worker it signals is behind.
LEMMA CallerDone ==
    ASSUME IInv, NEW c \in Caller, CallerStep(c) \/ CallStep(c), ~Wait(c)
    PROVE  \A w \in Worker : DoneJob(w)' <=> DoneJob(w)
<1>0. TypeOK /\ GenInv /\ UNCHANGED <<seen, wpc>>
  BY CallerFrame DEF IInv, Order
<1>1. CASE generation' = generation /\ \A w \in Worker : Signalled(w)' <=> Signalled(w)
  BY <1>0, <1>1 DEF DoneJob, Working
<1>2. CASE /\ index[c] \in Worker
           /\ \A w \in Worker : w # index[c] => generation'[w] = generation[w]
           /\ generation'[index[c]] = generation[index[c]] + 1
           /\ ~Signalled(index[c])
           /\ \A w \in Worker : Signalled(w)' <=> Signalled(w) \/ w = index[c]
  <2>1. generation'[index[c]] # seen[index[c]]
    BY <1>0, <1>2 DEF GenInv, TypeOK
  <2> QED BY <1>0, <1>2, <2>1 DEF DoneJob, Working
<1> QED BY <1>1, <1>2, CallerSignals

\* A job is published when no worker is at one and nothing is applied.
LEMMA Published ==
    ASSUME IInv, NEW c \in Caller, RunPublish(c) \/ EachPublish(c)
    PROVE  /\ op = Nobody /\ mu = Nobody /\ mu' = c /\ pc'[c] = "signal"
           /\ arg[c] \in Job /\ op' = arg[c] /\ pending' = arg[c].n - 1
           /\ ~arg[c].each => next' = 0
           /\ UNCHANGED <<applied, start, wpc>>
           /\ \A i \in Items : applied[i] = 0
           /\ \A w \in Worker : ~Working(w) /\ ~DoneJob(w) /\ ~DoneJob(w)'
<1>1. /\ op = Nobody /\ mu = Nobody /\ mu' = c /\ pc'[c] = "signal"
      /\ arg[c] \in Job /\ op' = arg[c] /\ pending' = arg[c].n - 1
      /\ ~arg[c].each => next' = 0
      /\ UNCHANGED <<applied, start, wpc>>
  BY JobFields DEF IInv, Order, MuInv, RunPublish, EachPublish, Publish, Pending, Goto, workerVars, TypeOK
<1>2. \A i \in Items : applied[i] = 0
  BY <1>1 DEF IInv, Work, EachInv
<1>3. \A w \in Worker : ~Working(w) /\ ~DoneJob(w)
  BY <1>1 DEF IInv, Order, GenInv, Signalled, DoneJob
<1>4. \A w \in Worker : ~DoneJob(w)'
  <2>1. ~Wait(c)
    BY DEF RunPublish, EachPublish, Wait
  <2> QED BY <1>3, <2>1, CallerDone DEF CallerStep
<1> QED BY <1>1, <1>2, <1>3, <1>4

\* The pending workers after a step of a caller.
LEMMA CallerCounts ==
    ASSUME IInv, NEW c \in Caller, CallerStep(c) \/ CallStep(c)
    PROVE  CountInv'
<1>1. CASE RunPublish(c) \/ EachPublish(c)
  <2>1. op' \in Job /\ pending' = op'.n - 1 /\ \A w \in Worker : ~DoneJob(w)'
    BY <1>1, Published
  <2>2. op'.n \in Nat /\ 1 <= op'.n /\ op'.n <= Workers + 1 /\ Workers \in Nat /\ op' # Nobody
    BY <2>1, JobFields
  <2>3. Out' = 1..(op'.n - 1)
    BY <2>1, <2>2 DEF Out, Worker
  <2>4. Cardinality(1..(op'.n - 1)) = op'.n - 1
    BY <2>2, FS_Interval
  <2> QED BY <2>1, <2>3, <2>4 DEF CountInv
<1>2. CASE Wait(c)
  BY <1>2 DEF Wait, CountInv
<1>3. CASE ~(RunPublish(c) \/ EachPublish(c) \/ Wait(c))
  <2>1. UNCHANGED <<op, pending>>
    BY <1>3 DEF CallerStep, CallStep, RunInline, CheckEach, Signal, SignalKick, SignalSend, Kick, Send,
       CallerClaim, CallerApply, CloseLock, CloseKick, CloseSend, Join, CallRunN, CallRunEach,
       CallClose, Call, sharedVars
  <2>2. Out' = Out
    BY <1>3, <2>1, CallerDone DEF Out
  <2> QED BY <2>1, <2>2 DEF CountInv, IInv, Work
<1> QED BY <1>1, <1>2, <1>3

\* A caller that neither publishes, claims, applies nor waits leaves the
\* rows alone, and does not reach "wait" or, in runN, "apply".
LEMMA OtherSteps ==
    ASSUME IInv, NEW c \in Caller, CallerStep(c) \/ CallStep(c),
           ~RunPublish(c), ~EachPublish(c), ~CallerClaim(c), ~CallerApply(c), ~Wait(c)
    PROVE  /\ UNCHANGED <<op, next, applied, start, wpc>>
           /\ op # Nobody => /\ mu \in Caller /\ mu' = mu
                             /\ pc'[mu] = "wait" <=> pc[mu] = "wait"
                             /\ ~op.each => (pc'[mu] = "apply" <=> pc[mu] = "apply")
                             /\ op.each => pc'[mu] # "claim"
<1> USE DEF Goto
<1>0. /\ TypeOK /\ MuInv /\ EachInv /\ mu \in Caller \cup {Nobody} /\ Nobody \notin Caller
      /\ pc \in [Caller -> CallerPCs]
  BY JobFields DEF IInv, Order, Work, TypeOK
<1>1. UNCHANGED <<op, next, applied, start, wpc>>
  BY DEF CallerStep, CallStep, RunInline, CheckEach, Signal, SignalKick, SignalSend, Kick, Send,
     CloseLock, CloseKick, CloseSend, Join, CallRunN, CallRunEach, CallClose, Call, sharedVars, workerVars
<1>2. ASSUME op # Nobody
      PROVE  /\ mu \in Caller /\ mu' = mu
             /\ pc'[mu] = "wait" <=> pc[mu] = "wait"
             /\ ~op.each => (pc'[mu] = "apply" <=> pc[mu] = "apply")
             /\ op.each => pc'[mu] # "claim"
  <2>0. mu \in Caller /\ pc[mu] \in RunPCs /\ (op.each => pc[mu] # "claim")
    BY <1>0, <1>2 DEF MuInv, EachInv
  <2>1. CASE CallStep(c) \/ RunInline(c) \/ CheckEach(c)
    BY <1>0, <2>0, <2>1 DEF CallStep, CallRunN, CallRunEach, CallClose, Call, RunInline, CheckEach, Return,
       sharedVars, MuInv, RunPCs
  <2>2. CASE Signal(c) \/ SignalKick(c) \/ SignalSend(c)
    BY <1>0, <2>0, <2>2 DEF Signal, SignalKick, SignalSend, Kick, Send, MuInv, RunPCs
  <2>3. CASE CloseLock(c) \/ CloseKick(c) \/ CloseSend(c) \/ Join(c)
    BY <1>0, <2>0, <2>3 DEF CloseLock, CloseKick, CloseSend, Join, Kick, Send, MuInv, RunPCs, ClosePCs
  <2> QED BY <2>1, <2>2, <2>3 DEF CallerStep
<1> QED BY <1>1, <1>2

\* The rows of runN after a step of a caller.
LEMMA CallerRows ==
    ASSUME IInv, NEW c \in Caller, CallerStep(c) \/ CallStep(c)
    PROVE  RowsInv'
<1> USE DEF Goto
<1>0. TypeOK /\ RowsInv /\ MuInv /\ 0 \in Participant /\ \A p \in Participant : p # 0 => p \in Worker
  BY JobFields DEF IInv, Order, Work, Participant, Worker
<1>1. CASE RunPublish(c) \/ EachPublish(c)
  <2>1. \A p \in Participant : ~Applying(p)'
    BY <1>0, <1>1, Published DEF Applying, Working
  <2>2. op' \in Job /\ op'.items \in Nat
    BY <1>1, Published, JobFields
  <2> QED BY <1>1, <2>1, <2>2, Published DEF RowsInv, Items
<1>2. CASE Wait(c)
  BY <1>2 DEF Wait, RowsInv
<1>3. CASE CallerClaim(c)
  <2>1. mu = c /\ op \in Job /\ mu \in Caller /\ mu' = mu /\ op' = op
    BY <1>0, <1>3 DEF MuInv, CallerClaim, RunPCs, TypeOK
  <2>2. ~op.each
    BY <1>3, <2>1, JobFields DEF CallerClaim, IInv, Work, EachInv
  <2>3. ~Applying(0) /\ (Applying(0)' <=> ~Exhausted(op)) /\ applied' = applied /\ wpc' = wpc
    BY <1>0, <1>3, <2>1 DEF CallerClaim, Applying, TypeOK
  <2>4. pc'[mu] = "wait" => Exhausted(op)
    BY <1>0, <1>3, <2>1 DEF CallerClaim, TypeOK
  <2>5. \A q \in Participant : q # 0 => (Applying(q)' <=> Applying(q))
    BY <2>3 DEF Applying
  <2> QED BY <1>0, <1>3, <2>1, <2>2, <2>3, <2>4, <2>5, RowsClaim DEF CallerClaim
<1>4. CASE CallerApply(c)
  <2>1. mu = c /\ op \in Job /\ mu \in Caller /\ UNCHANGED <<mu, op, next, start, wpc>>
    BY <1>0, <1>4 DEF MuInv, CallerApply, RunPCs, TypeOK, sharedVars, workerVars
  <2>2. CASE op.each
    BY <2>1, <2>2 DEF RowsInv
  <2>3. CASE ~op.each
    <3>1. Applying(0) /\ ~Applying(0)' /\ ApplyGrain(0, op) /\ pc'[mu] = "claim"
      BY <1>0, <1>4, <2>1, <2>3 DEF CallerApply, Applying, TypeOK
    <3>2. \A q \in Participant : q # 0 => (Applying(q)' <=> Applying(q))
      BY <2>1 DEF Applying
    <3> QED BY <1>0, <2>1, <2>3, <3>1, <3>2, RowsApply
  <2> QED BY <2>2, <2>3
<1>5. CASE ~(RunPublish(c) \/ EachPublish(c) \/ Wait(c) \/ CallerClaim(c) \/ CallerApply(c))
  <2>1. CASE op = Nobody \/ op.each
    BY <1>5, <2>1, OtherSteps DEF RowsInv
  <2>2. CASE op # Nobody /\ ~op.each
    <3>1. \A p \in Participant : Applying(p)' <=> Applying(p)
      BY <1>5, <2>2, OtherSteps DEF Applying
    <3> QED BY <1>0, <1>5, <2>2, <3>1, OtherSteps, RowsFrame
  <2> QED BY <2>1, <2>2
<1> QED BY <1>1, <1>2, <1>3, <1>4, <1>5

\* The indices of runEach after a step of a caller.
LEMMA CallerEach ==
    ASSUME IInv, NEW c \in Caller, CallerStep(c) \/ CallStep(c)
    PROVE  EachInv'
<1> USE DEF Goto
<1>0. /\ TypeOK /\ MuInv /\ EachInv /\ 0 \in Items /\ 0 \notin Worker
      /\ Nobody \notin Job /\ Nobody \notin Caller /\ UNCHANGED wpc
  BY JobFields, CallerFrame DEF IInv, Order, Work, Items, Worker
<1>1. CASE RunPublish(c) \/ EachPublish(c)
  <2>1. op' \in Job /\ mu' = c /\ pc'[c] = "signal" /\ UNCHANGED <<applied, wpc>>
    BY <1>1, Published
  <2>2. /\ \A i \in Items : applied[i] = 0
        /\ \A w \in Worker : ~Working(w) /\ ~DoneJob(w)'
    BY <1>1, Published
  <2> QED BY <1>0, <2>1, <2>2 DEF EachInv, Working
<1>2. CASE Wait(c)
  BY <1>0, <1>2 DEF Wait, EachInv
<1>3. CASE CallerClaim(c)
  <2>1. mu = c /\ op # Nobody /\ op' = op /\ ~op.each
    BY <1>0, <1>3 DEF MuInv, CallerClaim, RunPCs, EachInv
  <2> QED BY <2>1 DEF EachInv
<1>4. CASE CallerApply(c)
  <2>1. mu = c /\ op # Nobody /\ UNCHANGED <<mu, op>> /\ pc[c] = "apply" /\ ~Wait(c)
    BY <1>0, <1>4 DEF MuInv, CallerApply, RunPCs, sharedVars, Wait
  <2>2. CASE ~op.each
    BY <2>1, <2>2 DEF EachInv
  <2>3. CASE op.each
    <3>1. pc'[c] = "wait"
      BY <1>0, <1>4, <2>3 DEF CallerApply, TypeOK
    <3>2. \A i \in Items : applied'[i] = IF i = 0 THEN applied[i] + 1 ELSE applied[i]
      BY <1>0, <1>4, <2>3 DEF CallerApply, ApplyRows, Items
    <3>3. \A w \in Worker : DoneJob(w)' <=> DoneJob(w)
      BY <2>1, CallerDone
    <3>4. applied[0] = 0
      BY <1>0, <2>1, <2>3 DEF EachInv
    <3> QED BY <1>0, <2>1, <2>3, <3>1, <3>2, <3>3, <3>4 DEF EachInv
  <2> QED BY <2>2, <2>3
<1>5. CASE ~(RunPublish(c) \/ EachPublish(c) \/ Wait(c) \/ CallerClaim(c) \/ CallerApply(c))
  <2>1. UNCHANGED <<op, applied>> /\ \A w \in Worker : DoneJob(w)' <=> DoneJob(w)
    BY <1>5, OtherSteps, CallerDone
  <2>2. op # Nobody => mu' = mu /\ (pc'[mu] = "wait" <=> pc[mu] = "wait") /\ (op.each => pc'[mu] # "claim")
    BY <1>5, OtherSteps
  <2> QED BY <1>0, <2>1, <2>2 DEF EachInv
<1> QED BY <1>1, <1>2, <1>3, <1>4, <1>5

-----------------------------------------------------------------------------
\* The pool starts with nobody at work.
LEMMA InitInv == Init => IInv
<1> SUFFICES ASSUME Init PROVE IInv
  OBVIOUS
<1>0. 1 \in 1..(Workers + 1)
  BY JobFields
<1>1. TypeOK
  BY <1>0 DEF Init, TypeOK, WorkerPCs, CallerPCs
<1>2. Order /\ ExclInv
  BY JobFields DEF Init, Order, MuInv, IndexInv, GenInv, StopInv, ExclInv, Closing, Signalled, Working, RunPCs, ClosePCs
<1>3. Wakeups
  BY JobFields DEF Init, Wakeups, TokenInv, WakeInv, Sending
<1>4. Work
  BY JobFields DEF Init, Work, CountInv, RowsInv, EachInv
<1> QED BY <1>1, <1>2, <1>3, <1>4 DEF IInv

\* Every step keeps the inductive invariant.
LEMMA NextInv == IInv /\ [Next]_vars => IInv'
<1> SUFFICES ASSUME IInv, [Next]_vars PROVE IInv'
  OBVIOUS
<1>1. ASSUME NEW w \in Worker, WorkerStep(w) PROVE IInv'
  <2>1. ExclInv'
    BY <1>1, WorkerFrame DEF IInv, ExclInv
  <2> QED BY <1>1, <2>1, WorkerTypes, WorkerOrder, WorkerWakeups, WorkerCounts, WorkerRows, WorkerEach
          DEF IInv, Work
<1>2. ASSUME NEW c \in Caller, CallerStep(c) \/ CallStep(c) PROVE IInv'
  <2>1. Order'
    BY <1>2, CallerMu, CallerIndex, CallerGen, CallerStop DEF Order
  <2>2. Wakeups'
    BY <1>2, CallerTokens, CallerWakes DEF Wakeups
  <2>3. Work'
    BY <1>2, CallerCounts, CallerRows, CallerEach DEF Work
  <2> QED BY <1>2, <2>1, <2>2, <2>3, CallerTypes, ExclStep DEF IInv
<1>3. ASSUME UNCHANGED <<mu, stop, op, next, pending, generation, parked, wake, seen, start, wpc,
                         pc, arg, index, jobs, applied>>, active' \in Nat
      PROVE IInv'
  <2>1. TypeOK'
    BY <1>3 DEF IInv, TypeOK
  <2>2. Order' /\ ExclInv'
    BY <1>3 DEF IInv, Order, MuInv, IndexInv, GenInv, StopInv, ExclInv, Closing, Signalled, Working
  <2>3. Wakeups'
    BY <1>3 DEF IInv, Wakeups, TokenInv, WakeInv, Sending
  <2>4. Out' = Out /\ \A w \in Worker : DoneJob(w)' <=> DoneJob(w)
    BY <1>3 DEF Out, DoneJob, Signalled, Working
  <2>5. CountInv' /\ EachInv'
    BY <1>3, <2>4 DEF IInv, Work, CountInv, EachInv
  <2>6. RowsInv'
    BY <1>3 DEF IInv, Work, RowsInv, Applying, InGrain
  <2> QED BY <2>1, <2>2, <2>3, <2>5, <2>6 DEF IInv, Work
<1>4. CASE hold \/ release
  <2>1. active' \in Nat
    BY <1>4, WorkerPoolAssumption DEF hold, release, IInv, TypeOK
  <2> QED BY <1>3, <1>4, <2>1, HoldFrame
<1>5. CASE UNCHANGED vars
  BY <1>3, <1>5 DEF vars, sharedVars, workerVars, callerVars, IInv, TypeOK
<1> QED BY <1>1, <1>2, <1>4, <1>5 DEF Next

\* The inductive invariant holds in every reachable state.
LEMMA Invariant == Spec => []IInv
BY InitInv, NextInv, PTL DEF Spec

\* The types of the pool, for any number of workers, callers and jobs.
THEOREM TypesHold == Spec => []TypeOK
<1>1. IInv => TypeOK
  BY DEF IInv
<1> QED BY <1>1, Invariant, PTL

\* park, the recheck of loop and the CompareAndSwap of run and close: a
\* sleeping worker with something to do has a token, sent or about to be,
\* and no token is left in a channel.
THEOREM WakeupsAlwaysMatch == Spec => []WakeupsMatch
<1>1. IInv => NoLostWakeup
  <2> SUFFICES ASSUME IInv, NEW w \in Worker, wpc[w] = "sleep", generation[w] # seen[w] \/ stop
               PROVE  \/ wake[w] = 1
                      \/ \E c \in Caller : index[c] <= w /\
                           pc[c] \in {"signal", "kick", "send", "wakeAll", "sendStop"}
    BY DEF NoLostWakeup
  <2>1. CASE mu \in Caller /\ index[mu] = w /\ pc[mu] \in {"kick", "send"}
    BY <2>1, JobFields DEF Worker
  <2> QED BY <2>1 DEF IInv, Wakeups, WakeInv, ClosePCs
<1>2. IInv => NoStaleToken
  <2> SUFFICES ASSUME IInv PROVE NoStaleToken
    OBVIOUS
  <2>1. \A w \in Worker : wake[w] = 1 =>
          ~parked[w] /\ wpc[w] \in {"recheck", "recheckStop", "unpark", "sleep", "drain"}
    BY DEF IInv, Wakeups, TokenInv
  <2>2. ASSUME NEW c \in Caller, pc[c] \in {"send", "sendStop"} PROVE wake[index[c]] = 0
    <3>1. mu = c
      BY <2>2 DEF IInv, Order, MuInv, RunPCs, ClosePCs
    <3>2. index[c] \in Worker
      BY <2>2, <3>1, JobFields DEF IInv, Order, IndexInv, MuInv, RunPCs, TypeOK, Worker
    <3> QED BY <2>2, <3>1, <3>2 DEF IInv, Wakeups, TokenInv, Sending, TypeOK
  <2> QED BY <2>1, <2>2 DEF NoStaleToken
<1> QED BY <1>1, <1>2, Invariant, PTL DEF WakeupsMatch

\* claim: of any job, every item is applied at most once and nothing else.
THEOREM ItemsAppliedOnce == Spec => []ItemsOnce
<1>1. IInv => ItemsOnce
  <2> SUFFICES ASSUME IInv, op # Nobody, NEW i \in Items
               PROVE  applied[i] <= (IF i \in JobItems(op) THEN 1 ELSE 0)
    BY DEF ItemsOnce
  <2>0. /\ op \in Job /\ op.n \in Nat /\ op.items \in Nat /\ i \in Nat /\ Workers \in Nat
        /\ 1 <= op.n /\ op.n <= Workers + 1
    BY JobFields DEF IInv, TypeOK, Items
  <2>1. CASE op.each
    <3>1. i \in Worker /\ (DoneJob(i) \/ wpc[i] = "finish") => i < op.n
      BY SignalledTeam, WorkingTeam DEF DoneJob, Working
    <3> QED BY <2>0, <2>1, <3>1 DEF IInv, Work, EachInv, JobItems
  <2>2. CASE ~op.each
    BY <2>0, <2>2 DEF IInv, Work, RowsInv, JobItems
  <2> QED BY <2>1, <2>2
<1> QED BY <1>1, Invariant, PTL

\* pending counts exactly the workers the caller still waits for, when
\* runEach and close are never called concurrently.
THEOREM BarrierCountsExactly ==
    ASSUME Exclusive
    PROVE  Spec => []BarrierCounts
<1>1. IInv => BarrierCounts
  <2> SUFFICES ASSUME IInv PROVE BarrierCounts
    OBVIOUS
  <2>1. \A w \in Worker : Working(w) => w \in Team
    BY WorkingTeam, JobFields DEF Team, Worker
  <2>2. ASSUME Busy({"claim", "apply", "wait"})
        PROVE  pending = Cardinality({w \in Team : Working(w) \/ generation[w] # seen[w]})
    <3>1. mu \in Caller /\ op # Nobody /\ pc[mu] \in {"claim", "apply", "wait"}
      BY <2>2 DEF Busy, IInv, Order, MuInv, RunPCs
    <3>2. \A w \in Worker : w < op.n <=> Signalled(w)
      BY <3>1, WaitSignalled
    <3>3. op.n \in Nat /\ 1 <= op.n /\ op.n <= Workers + 1 /\ Workers \in Nat
      BY <3>1, JobFields DEF IInv, TypeOK
    <3>4. \A w : w \in Team <=> w \in Worker /\ w < op.n
      BY <3>1, <3>3 DEF Team, Worker
    <3>5. Out = {w \in Team : Working(w) \/ generation[w] # seen[w]}
      BY <3>1, <3>2, <3>4 DEF Out, DoneJob
    <3> QED BY <3>1, <3>5 DEF IInv, Work, CountInv
  <2> QED BY <2>1, <2>2 DEF BarrierCounts
<1> QED BY <1>1, Invariant, PTL

\* The comment on mu, "serializes run and close": no job is dispatched to a
\* worker that has returned, when runEach and close exclude each other.
THEOREM JobsHaveWorkers ==
    ASSUME Exclusive
    PROVE  Spec => []JobHasWorkers
<1>1. IInv => JobHasWorkers
  BY JobFields DEF IInv, ExclInv, Order, GenInv, JobHasWorkers, Team, Worker, TypeOK
<1> QED BY <1>1, Invariant, PTL

-----------------------------------------------------------------------------
\* The items of a job are items of the barrier.
LEMMA JobItemsAreItems == \A j \in Job : JobItems(j) \subseteq Items
BY JobFields DEF JobItems, Items

\* A step that touches neither the job nor its rows is a stutter.
LEMMA Stutter ==
    ASSUME UNCHANGED <<op, applied>>
    PROVE  UNCHANGED Barrier!vars
BY DEF Barrier!vars, todo

\* A step that applies rows of the job nobody has applied is Apply.
LEMMA ApplyIsApply ==
    ASSUME op \in Job, op' = op, NEW S, S \subseteq todo, S \subseteq Items,
           \A i \in JobItems(op) : applied'[i] = 0 <=> applied[i] = 0 /\ i \notin S
    PROVE  Barrier!Next
<1>1. op # Nobody
  BY JobFields
<1>2. todo' = todo \ S
  BY <1>1 DEF todo
<1>3. Barrier!Apply(S)
  BY <1>1, <1>2 DEF Barrier!Apply
<1> QED BY <1>3 DEF Barrier!Next

\* What a grain marks of the rows of runN.
LEMMA GrainIsApply ==
    ASSUME IInv, NEW p \in Participant, op \in Job, ~op.each, Applying(p), ApplyGrain(p, op), op' = op
    PROVE  Barrier!Next
<1>0. op.grain \in Nat /\ op.items \in Nat /\ op # Nobody /\ JobItems(op) \subseteq Items
  BY JobFields, JobItemsAreItems
<1>1. TypeOK /\ RowsInv /\ start[p] \in Nat
  BY DEF IInv, Work, TypeOK
<1> DEFINE S == {i \in JobItems(op) : InGrain(i, p)}
<1>2. ASSUME NEW i \in JobItems(op)
      PROVE  /\ applied'[i] = IF InGrain(i, p) THEN applied[i] + 1 ELSE applied[i]
             /\ applied[i] \in Nat /\ (InGrain(i, p) => applied[i] = 0)
  <2>1. i \in Items /\ i \in Nat /\ i < op.items
    BY <1>0, <1>2 DEF JobItems
  <2>2. applied[i] \in Nat
    BY <1>1, <2>1 DEF TypeOK
  <2>3. InGrain(i, p) => applied[i] = 0
    BY <1>0, <1>1, <2>1 DEF RowsInv
  <2> QED BY <1>0, <1>1, <2>1, <2>2, <2>3 DEF ApplyGrain, ApplyRows, Least, InGrain
<1>3. S \subseteq todo /\ S \subseteq Items
  BY <1>0, <1>2 DEF todo
<1>4. \A i \in JobItems(op) : applied'[i] = 0 <=> applied[i] = 0 /\ i \notin S
  BY <1>2
<1> HIDE DEF S
<1> QED BY <1>3, <1>4, ApplyIsApply

\* What a participant of runEach marks: its own index.
LEMMA EachIsApply ==
    ASSUME IInv, op \in Job, op.each, op' = op, NEW k \in JobItems(op), applied[k] = 0, ApplyRows(k, k + 1)
    PROVE  Barrier!Next
<1>0. JobItems(op) \subseteq Items /\ op # Nobody /\ k \in Nat /\ TypeOK
  BY JobFields, JobItemsAreItems DEF JobItems, IInv
<1>1. \A i \in JobItems(op) : i \in Nat /\ applied[i] \in Nat
  BY <1>0, JobFields DEF JobItems, TypeOK
<1>2. \A i \in JobItems(op) : applied'[i] = IF i = k THEN applied[i] + 1 ELSE applied[i]
  BY <1>0, <1>1 DEF ApplyRows
<1>3. {k} \subseteq todo /\ {k} \subseteq Items
  BY <1>0 DEF todo
<1>4. \A i \in JobItems(op) : applied'[i] = 0 <=> applied[i] = 0 /\ i \notin {k}
  BY <1>1, <1>2
<1> QED BY <1>3, <1>4, ApplyIsApply

\* When the barrier opens, nothing of the job is left.
LEMMA NothingLeft ==
    ASSUME IInv, NEW c \in Caller, Wait(c)
    PROVE  todo = {}
<1>1. mu = c /\ op # Nobody /\ op \in Job /\ pc[mu] = "wait" /\ \A w \in Worker : ~Working(w)
  BY BarrierOpens DEF Wait, IInv, TypeOK
<1>2. SUFFICES ASSUME NEW i \in JobItems(op) PROVE applied[i] # 0
  BY DEF todo
<1>3. i \in Items /\ i \in Nat /\ op.n \in Nat /\ op.items \in Nat /\ Workers \in Nat /\ op.n <= Workers + 1
  BY <1>1, JobItemsAreItems, JobFields DEF JobItems
<1>4. CASE op.each
  <2>1. i < op.n
    BY <1>3, <1>4 DEF JobItems
  <2>2. i # 0 => i \in Worker
    BY <1>3, <2>1 DEF Worker
  <2>3. i # 0 => DoneJob(i)
    BY <1>1, <2>1, <2>2, BarrierOpens DEF Out
  <2> QED BY <1>1, <1>3, <1>4, <2>2, <2>3 DEF IInv, Work, EachInv
<1>5. CASE ~op.each
  <2>1. i < op.items
    BY <1>3, <1>5 DEF JobItems
  <2>2. next \in Nat /\ next >= op.items
    BY <1>1, <1>5 DEF IInv, Work, RowsInv, TypeOK
  <2>3. \A p \in Participant : ~Applying(p)
    BY <1>1, JobFields DEF Applying, Working, Participant, Worker
  <2> QED BY <1>1, <1>3, <1>5, <2>1, <2>2, <2>3 DEF IInv, Work, RowsInv
<1> QED BY <1>4, <1>5

\* A step of a worker is Apply or a stutter.
LEMMA WorkerRefines ==
    ASSUME IInv, NEW w \in Worker, WorkerStep(w)
    PROVE  [Barrier!Next]_(Barrier!vars)
<1>0. op' = op /\ w \in Participant /\ w # 0
  BY WorkerFrame, JobFields DEF IInv, Worker, Participant
<1>1. CASE WorkerApply(w)
  <2>1. op \in Job /\ w < op.n /\ op # Nobody /\ wpc[w] = "apply"
    BY <1>1, WorkingTeam DEF WorkerApply, Working
  <2>2. CASE op.each
    <3>1. w \in JobItems(op) /\ w \in Items
      BY <2>1, <2>2, JobFields, JobItemsAreItems DEF JobItems, Worker
    <3>2. applied[w] = 0
      BY <1>0, <2>1, <2>2, <3>1 DEF IInv, Work, EachInv, DoneJob, Working
    <3> QED BY <1>0, <1>1, <2>1, <2>2, <3>1, <3>2, EachIsApply DEF WorkerApply
  <2>3. CASE ~op.each
    BY <1>0, <1>1, <2>1, <2>3, GrainIsApply DEF WorkerApply, Applying
  <2> QED BY <2>2, <2>3
<1>2. CASE ~WorkerApply(w)
  <2>1. applied' = applied
    BY <1>2 DEF WorkerStep, Spin, Idle, Park, Recheck, RecheckStop, Unpark, Wake, Take, WorkerClaim, Finish
  <2> QED BY <1>0, <2>1, Stutter
<1> QED BY <1>1, <1>2

\* A step of a caller is Begin, Apply, End or a stutter.
LEMMA CallerRefines ==
    ASSUME IInv, NEW c \in Caller, CallerStep(c) \/ CallStep(c)
    PROVE  [Barrier!Next]_(Barrier!vars)
<1>1. CASE RunPublish(c) \/ EachPublish(c)
  <2>1. op = Nobody /\ op' \in Job /\ op' # Nobody /\ JobItems(op') \subseteq Items
    BY <1>1, Published, JobFields, JobItemsAreItems
  <2>2. \A i \in Items : applied'[i] = 0
    BY <1>1, Published
  <2>3. todo' = JobItems(op')
    BY <2>1, <2>2 DEF todo, JobItems
  <2>4. Barrier!Begin(JobItems(op'))
    BY <2>1, <2>3 DEF Barrier!Begin
  <2> QED BY <2>1, <2>4 DEF Barrier!Next
<1>2. CASE Wait(c)
  <2>1. op # Nobody /\ op' = Nobody /\ todo = {} /\ todo' = {}
    BY <1>2, NothingLeft, BarrierOpens DEF Wait, todo
  <2>2. Barrier!End
    BY <2>1 DEF Barrier!End
  <2> QED BY <2>2 DEF Barrier!Next
<1>3. CASE CallerApply(c)
  <2>1. mu = c /\ op # Nobody /\ op \in Job /\ op' = op /\ pc[mu] = "apply" /\ 0 \in Participant
    BY <1>3, JobFields DEF CallerApply, IInv, Order, MuInv, RunPCs, TypeOK, sharedVars, Participant
  <2>2. CASE op.each
    <3>1. 0 \in JobItems(op) /\ 0 \in Items /\ 0 \notin Worker
      BY <2>1, <2>2, JobFields, JobItemsAreItems DEF JobItems, Worker
    <3>2. applied[0] = 0
      BY <2>1, <2>2, <3>1 DEF IInv, Work, EachInv
    <3>3. ApplyRows(0, 0 + 1)
      BY <1>3, <2>2 DEF CallerApply
    <3> QED BY <2>1, <2>2, <3>1, <3>2, <3>3, EachIsApply
  <2>3. CASE ~op.each
    BY <1>3, <2>1, <2>3, GrainIsApply DEF CallerApply, Applying
  <2> QED BY <2>2, <2>3
<1>4. CASE ~(RunPublish(c) \/ EachPublish(c) \/ Wait(c) \/ CallerApply(c))
  <2>1. UNCHANGED <<op, applied>>
    BY <1>4 DEF CallerStep, CallStep, RunInline, CheckEach, Signal, SignalKick, SignalSend, Kick, Send,
       CallerClaim, CloseLock, CloseKick, CloseSend, Join, CallRunN, CallRunEach, CallClose, Call, sharedVars
  <2> QED BY <2>1, Stutter
<1> QED BY <1>1, <1>2, <1>3, <1>4

\* The pool implements the barrier: run and runEach start one job at a time,
\* participants apply items nobody has applied before, and the call returns
\* only when nothing is left.
THEOREM PoolImplementsBarrier == Spec => ImplementsBarrier
<1>1. Init => Barrier!Init
  BY DEF Init, Barrier!Init, todo
<1>2. IInv /\ [Next]_vars => [Barrier!Next]_(Barrier!vars)
  <2> SUFFICES ASSUME IInv, [Next]_vars PROVE [Barrier!Next]_(Barrier!vars)
    OBVIOUS
  <2>1. CASE hold \/ release
    BY <2>1, HoldFrame, Stutter
  <2>2. CASE UNCHANGED vars
    BY <2>2, Stutter DEF vars, sharedVars
  <2> QED BY <2>1, <2>2, WorkerRefines, CallerRefines DEF Next
<1> QED BY <1>1, <1>2, Invariant, PTL DEF Spec, ImplementsBarrier, Barrier!Spec
=============================================================================
