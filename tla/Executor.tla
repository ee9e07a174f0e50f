------------------------------ MODULE Executor ------------------------------
(***************************************************************************)
(* whispergemm.Executor: a caller and its polling workers share the rows   *)
(* of a product or of a row operation, and the ways the operations share   *)
(* what they have: fixed ranges, a counter of items (qwen3asr's linear),   *)
(* panels and strips claimed from both ends (qwen3lm's projectClaims,      *)
(* whose own pool calls every participant once, as Rows does), and layers  *)
(* in lockstep behind a spinning barrier (the codec of qwen3tts).          *)
(*                                                                         *)
(* Shard 0 is the caller's, shard i that of worker i.  An operation o has  *)
(* rows, the fewest rows of a shard, the scratch it needs and items.       *)
(***************************************************************************)
EXTENDS Integers, FiniteSets, Sequences

CONSTANTS ExecUser,        \* goroutines that call
          ExecWorkers,     \* workers, with the caller
          Operation,       \* the operations called
          StripsPerPanel,
          Phases,          \* phases of the layers in lockstep
          MaxExecCalls     \* bound: calls

\* An executor has its caller's shard, and rows refuses fewer than one row
\* per shard.
ASSUME ExecAssumption ==
    /\ {ExecWorkers, StripsPerPanel, Phases} \subseteq Nat \ {0} /\ MaxExecCalls \in Nat /\ "free" \notin ExecUser
    /\ Operation \subseteq [kind : {"rows", "mul", "claims", "split", "lockstep"}, rows : Nat, minRows : Nat \ {0}, need : Nat, items : Nat]

VARIABLES
    exec,      \* mu, closed, stop, pending, the job, the arena, and the operation's atomics
    shards,    \* each worker: its generation, the one it has seen, and where it is
    users,     \* each goroutine: pc, operation, workers told
    applied,   \* how often each item was computed
    execCalls

execVars == <<exec, shards, users, applied, execCalls>>

Shard == 0 .. ExecWorkers - 1
NoOperation == [kind |-> "none", rows |-> 0, minRows |-> 1, need |-> 0, items |-> 0]
Least(a, b) == IF a < b THEN a ELSE b
Greatest(a, b) == IF a < b THEN b ELSE a
Ceil(a, b) == (a + b - 1) \div b

-----------------------------------------------------------------------------
(* How rows are shared.                                                    *)

\* At least 16 rows and about a million products per shard, for products
\* of 1024 by 1024.
partitions(m) ==
    LET minRows == Greatest(16, 4 * Ceil(Ceil(Ceil(1048576, 1024), 1024), 4))
    IN IF m < 32 THEN 1 ELSE Greatest(1, Least(ExecWorkers, m \div minRows))

PartsOf(o) == IF o.kind = "mul" THEN partitions(o.rows) ELSE Greatest(1, Least(ExecWorkers, o.rows \div o.minRows))

\* Share i of n things in parts: the first n % parts have one more.
First(n, parts, i) == i * (n \div parts) + Least(i, n % parts)

\* runShard, and mulShard, which keeps to tiles of four rows.
RangeOf(o, i) ==
    IF o.kind = "mul"
    THEN LET tiles == Ceil(o.rows, 4) IN
         4 * First(tiles, PartsOf(o), i) .. Least(4 * First(tiles, PartsOf(o), i + 1), o.rows) - 1
    ELSE First(o.rows, PartsOf(o), i) .. First(o.rows, PartsOf(o), i + 1) - 1

\* What has to be computed: rows, items of a counter, strips, or a phase of
\* every participant.
ItemsOf(o) ==
    CASE o.kind \in {"rows", "mul"} -> 0 .. o.rows - 1
      [] o.kind = "claims" -> 0 .. o.items - 1
      [] o.kind = "split" -> 0 .. o.items * StripsPerPanel - 1
      [] o.kind = "lockstep" -> (0 .. PartsOf(o) - 1) \X (1 .. Phases)
      [] OTHER -> {}

-----------------------------------------------------------------------------
\* NewExecutor.
ExecInit ==
    /\ exec = [mu |-> "free", closed |-> FALSE, stop |-> FALSE, pending |-> 0, job |-> NoOperation, arena |-> 0, size |-> 0,
               next |-> 0, front |-> 0, back |-> 0, arrive |-> 0]
    /\ shards = [i \in Shard |-> [gen |-> 0, prev |-> 0, pc |-> "idle", item |-> 0, front |-> 0, back |-> 0, phase |-> 0, arena |-> 0]]
    /\ users = [u \in ExecUser |-> [pc |-> "idle", op |-> NoOperation, told |-> 0]]
    /\ applied = <<>> /\ execCalls = 0

ExecTypeOK ==
    /\ exec.mu \in ExecUser \cup {"free"} /\ exec.job \in Operation \cup {NoOperation}
    /\ exec.pending \in 0 .. ExecWorkers - 1
    /\ \A i \in Shard : shards[i].pc \in {"idle", "apply", "claim", "swap", "write", "arrive", "spin", "finish", "exit"}
    /\ \A u \in ExecUser : users[u].pc \in {"idle", "lock", "tell", "shard", "wait", "stopping"}
    /\ execCalls \in 0 .. MaxExecCalls

UserAt(u, pc) == users[u].pc = pc
UserTo(u, pc) == [users EXCEPT ![u].pc = pc]

Call(u, o) ==
    /\ UserAt(u, "idle") /\ execCalls < MaxExecCalls
    /\ users' = [users EXCEPT ![u] = [pc |-> "lock", op |-> o, told |-> 0]]
    /\ execCalls' = execCalls + 1
    /\ UNCHANGED <<exec, shards, applied>>

\* ensureScratch: a larger arena takes the place of the one before.
Arena(o) == IF o.need > exec.size THEN [arena |-> exec.arena + 1, size |-> o.need] ELSE [arena |-> exec.arena, size |-> exec.size]

\* The workers an operation waits for: the caller has the first part itself.
Pending(o) == PartsOf(o) - 1

\* Mul and rows under mu.  An operation of one part is all in the caller's
\* shard and tells nobody.
Enter(u) ==
    LET o == users[u].op IN
    /\ UserAt(u, "lock") /\ exec.mu = "free"
    /\ IF exec.closed \/ o.rows = 0
       THEN users' = UserTo(u, "idle") /\ UNCHANGED <<exec, applied>>
       ELSE /\ users' = UserTo(u, "tell")
            /\ applied' = [x \in ItemsOf(o) |-> 0]
            /\ exec' = [exec EXCEPT !.mu = u, !.job = o, !.arena = Arena(o).arena, !.size = Arena(o).size, !.pending = Pending(o),
                                    !.next = 0, !.front = 0, !.back = o.items * StripsPerPanel, !.arrive = 0]
    /\ UNCHANGED <<shards, execCalls>>

\* The first step of a shard.
StartPc(o) == CASE o.kind \in {"claims", "split"} -> "claim" [] o.kind = "lockstep" -> "write" [] OTHER -> "apply"
Started(i) == [shards[i] EXCEPT !.pc = StartPc(exec.job), !.phase = 0, !.arena = exec.arena]

\* execute: a generation for each worker of the operation, then shard 0.
Tell(u) ==
    LET n == users[u].told IN
    /\ UserAt(u, "tell")
    /\ IF n < PartsOf(exec.job) - 1
       THEN users' = [users EXCEPT ![u].told = n + 1] /\ shards' = [shards EXCEPT ![n + 1].gen = @ + 1]
       ELSE users' = UserTo(u, "shard") /\ shards' = [shards EXCEPT ![0] = Started(0)]
    /\ UNCHANGED <<exec, applied, execCalls>>

Waits(u) == UserAt(u, "wait") /\ exec.pending = 0

Return(u) ==
    /\ Waits(u)
    /\ users' = UserTo(u, "idle")
    /\ exec' = [exec EXCEPT !.job = NoOperation, !.mu = "free"]
    /\ UNCHANGED <<shards, applied, execCalls>>

\* Close waits for the operation, stops the workers and frees the arena.
CloseExec(u) ==
    /\ UserAt(u, "idle") /\ exec.mu = "free" /\ ~exec.closed
    /\ users' = UserTo(u, "stopping")
    /\ exec' = [exec EXCEPT !.mu = u, !.closed = TRUE, !.stop = TRUE]
    /\ UNCHANGED <<shards, applied, execCalls>>

Stopped(u) ==
    /\ UserAt(u, "stopping") /\ \A i \in Shard \ {0} : shards[i].pc = "exit"
    /\ users' = UserTo(u, "idle")
    /\ exec' = [exec EXCEPT !.mu = "free", !.arena = -1]
    /\ UNCHANGED <<shards, applied, execCalls>>

-----------------------------------------------------------------------------
(* Workers.                                                                *)

ShardAt(i, pc) == shards[i].pc = pc
To(i, pc) == [shards EXCEPT ![i].pc = pc]
Plus(which) == [x \in DOMAIN applied |-> applied[x] + (IF x \in which THEN 1 ELSE 0)]

\* run: a worker polls its generation, and looks at stop before.
Poll(i) ==
    /\ i # 0 /\ ShardAt(i, "idle")
    /\ \/ exec.stop /\ shards' = To(i, "exit")
       \/ ~exec.stop /\ shards[i].gen # shards[i].prev /\ shards' = [shards EXCEPT ![i] = [Started(i) EXCEPT !.prev = shards[i].gen]]
    /\ UNCHANGED <<exec, users, applied, execCalls>>

Apply(i) ==
    /\ ShardAt(i, "apply")
    /\ applied' = Plus(IF exec.job.kind = "claims" THEN {shards[i].item} ELSE RangeOf(exec.job, i))
    /\ shards' = To(i, IF exec.job.kind = "claims" THEN "claim" ELSE "finish")
    /\ UNCHANGED <<exec, users, execCalls>>

\* linearOp.ApplyRows: the next item, until there is none.
ClaimItem(i) ==
    /\ ShardAt(i, "claim") /\ exec.job.kind = "claims"
    /\ exec' = [exec EXCEPT !.next = @ + 1]
    /\ shards' = [shards EXCEPT ![i].item = exec.next, ![i].pc = IF exec.next >= exec.job.items THEN "finish" ELSE "apply"]
    /\ UNCHANGED <<users, applied, execCalls>>

\* projectClaims: participant 0 takes panels from the front, the others
\* strips from the back; both ends are in one word.
Panels(i) == i = 0
NothingLeft(i, front, back) ==
    IF Panels(i) THEN front >= exec.job.items \/ (front + 1) * StripsPerPanel > back
    ELSE back = 0 \/ back - 1 < front * StripsPerPanel

LoadClaims(i) ==
    /\ ShardAt(i, "claim") /\ exec.job.kind = "split"
    /\ shards' = [shards EXCEPT ![i].front = exec.front, ![i].back = exec.back,
                                ![i].pc = IF NothingLeft(i, exec.front, exec.back) THEN "finish" ELSE "swap"]
    /\ UNCHANGED <<exec, users, applied, execCalls>>

BugSwaps(i) == IF Panels(i) THEN exec.front = shards[i].front ELSE exec.back = shards[i].back

Swaps(i) == exec.front = shards[i].front /\ exec.back = shards[i].back

SwapClaims(i) ==
    LET f == shards[i].front
        b == shards[i].back
    IN /\ ShardAt(i, "swap")
       /\ IF ~Swaps(i) THEN UNCHANGED <<exec, applied>>
          ELSE IF Panels(i) THEN exec' = [exec EXCEPT !.front = f + 1] /\ applied' = Plus(f * StripsPerPanel .. (f + 1) * StripsPerPanel - 1)
          ELSE exec' = [exec EXCEPT !.back = b - 1] /\ applied' = Plus({b - 1})
       /\ shards' = To(i, "claim")
       /\ UNCHANGED <<users, execCalls>>

\* layers: a phase's outputs, and the barrier after it.
WritePhase(i) ==
    /\ ShardAt(i, "write")
    /\ shards' = [shards EXCEPT ![i].phase = @ + 1, ![i].pc = IF PartsOf(exec.job) > 1 THEN "arrive" ELSE IF shards[i].phase + 1 = Phases THEN "finish" ELSE "write"]
    /\ applied' = Plus({<<i, shards[i].phase + 1>>})
    /\ UNCHANGED <<exec, users, execCalls>>

Arrive(i) ==
    /\ ShardAt(i, "arrive")
    /\ exec' = [exec EXCEPT !.arrive = @ + 1] /\ shards' = To(i, "spin")
    /\ UNCHANGED <<users, applied, execCalls>>

Target(i) == shards[i].phase * PartsOf(exec.job)

Spin(i) ==
    /\ ShardAt(i, "spin") /\ exec.arrive >= Target(i)
    /\ shards' = To(i, IF shards[i].phase = Phases THEN "finish" ELSE "write")
    /\ UNCHANGED <<exec, users, applied, execCalls>>

\* The last access of a worker to the operation; the caller goes on to wait.
BugFinishShard(i) ==
    /\ ShardAt(i, "finish") /\ shards' = To(i, "idle")
    /\ IF i = 0 THEN users' = UserTo(exec.mu, "wait") /\ UNCHANGED exec
       ELSE users' = users /\ exec' = [exec EXCEPT !.pending = IF @ = 1 THEN 1 ELSE @ - 1]
    /\ UNCHANGED <<applied, execCalls>>

FinishShard(i) ==
    /\ ShardAt(i, "finish") /\ shards' = To(i, "idle")
    /\ IF i = 0 THEN users' = UserTo(exec.mu, "wait") /\ UNCHANGED exec
       ELSE users' = users /\ exec' = [exec EXCEPT !.pending = @ - 1]
    /\ UNCHANGED <<applied, execCalls>>

ShardStep(i) ==
    \/ Poll(i) \/ Apply(i) \/ ClaimItem(i) \/ LoadClaims(i) \/ SwapClaims(i)
    \/ WritePhase(i) \/ Arrive(i) \/ Spin(i) \/ FinishShard(i)

UserStep(u) == Enter(u) \/ Tell(u) \/ Return(u) \/ Stopped(u)

ExecNext ==
    \/ \E u \in ExecUser : UserStep(u) \/ CloseExec(u) \/ \E o \in Operation : Call(u, o)
    \/ \E i \in Shard : ShardStep(i)

ExecSpec == ExecInit /\ [][ExecNext]_execVars

-----------------------------------------------------------------------------
\* When an operation returns every row, item, strip or phase of it has been
\* computed, by one shard: none twice where two ends or two ranges meet.
ComputedOnce ==
    /\ \A x \in DOMAIN applied : applied[x] <= 1
    /\ \A u \in ExecUser : Waits(u) => \A x \in DOMAIN applied : applied[x] = 1

\* A worker that computes does so for the operation its caller waits in,
\* with scratch of the arena that is not freed, and belongs to it.
InOperation ==
    \A i \in Shard : shards[i].pc \notin {"idle", "exit"} =>
        /\ exec.mu # "free" /\ exec.job # NoOperation
        /\ i < PartsOf(exec.job) /\ shards[i].arena = exec.arena

\* In lockstep nobody writes a phase before all have written the one before,
\* whose results it reads, or while one still reads what it overwrites.
Lockstep ==
    exec.job.kind = "lockstep" =>
        \A i, j \in 0 .. PartsOf(exec.job) - 1 : ShardAt(i, "write") /\ shards[i].phase > 0 => applied[<<j, shards[i].phase>>] = 1

ExecQuiet == \A u \in ExecUser : UserAt(u, "idle")

\* Shards share an operation out: each part is computed once, in its phase,
\* and for the operation that its caller waits in.
ExecutorSafe == ExecTypeOK /\ ComputedOnce /\ InOperation /\ Lockstep

=============================================================================
