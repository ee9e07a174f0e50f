-------------------------- MODULE ExecutorProofs --------------------------
(***************************************************************************)
(* Proofs about Executor: for any number of workers, rows, items, panels   *)
(* and phases, an operation's parts are computed once each, for the        *)
(* operation its caller waits in, and phases follow each other.            *)
(***************************************************************************)
EXTENDS Executor, FiniteSetTheorems, TLAPS

JobType == Operation \cup {NoOperation}
ExecType == [mu : ExecUser \cup {"free"}, closed : BOOLEAN, stop : BOOLEAN, pending : 0 .. ExecWorkers - 1, job : JobType,
             arena : Int, size : Nat, next : Nat, front : Nat, back : Nat, arrive : Nat]
ShardPcs == {"idle", "apply", "claim", "swap", "write", "arrive", "spin", "finish", "exit"}
ShardType == [gen : Nat, prev : Nat, pc : ShardPcs, item : Nat, front : Nat, back : Nat, phase : Nat, arena : Int]
UserType == [pc : {"idle", "lock", "tell", "shard", "wait", "stopping"}, op : JobType, told : Nat]
ExecTypes ==
    /\ exec \in ExecType /\ shards \in [Shard -> ShardType] /\ users \in [ExecUser -> UserType] /\ execCalls \in 0 .. MaxExecCalls
    /\ \A x \in DOMAIN applied : applied[x] \in {0, 1}

\* An operation is under way: its caller tells the workers, computes its own
\* shard or waits.
Busy == exec.mu # "free" /\ users[exec.mu].pc \in {"tell", "shard", "wait"}
Parts == PartsOf(exec.job)
Told == users[exec.mu].told
Active(i) == shards[i].pc \notin {"idle", "exit"}

\* mu has one holder, and a job while an operation is under way.
CallerInv ==
    /\ \A u \in ExecUser : users[u].pc \in {"tell", "shard", "wait", "stopping"} <=> exec.mu = u
    /\ \A u \in ExecUser : users[u].pc = "lock" => users[u].op \in Operation /\ users[u].told = 0
    /\ Busy => exec.job \in Operation /\ ~exec.closed /\ Told \in 0 .. Parts - 1 /\ (users[exec.mu].pc # "tell" => Told = Parts - 1)
    /\ ~Busy => exec.job = NoOperation
    /\ exec.stop => exec.closed

\* A shard computes only for the operation, when it has been told to.
ShardInv ==
    /\ \A i \in Shard : Active(i) => Busy /\ i < Parts /\ shards[i].arena = exec.arena
    /\ \A i \in Shard \ {0} : Active(i) => i <= Told /\ shards[i].gen = shards[i].prev
    /\ \A i \in Shard \ {0} : shards[i].gen # shards[i].prev => Busy /\ i <= Told
    /\ Active(0) <=> Busy /\ users[exec.mu].pc = "shard"
    /\ \A i \in Shard : shards[i].pc = "exit" => exec.stop /\ i # 0

\* The workers that pending counts.
Unfinished == {i \in 1 .. Parts - 1 : i > Told \/ shards[i].gen # shards[i].prev \/ Active(i)}
CountInv == Busy => exec.pending = Cardinality(Unfinished)

\* Where shard j, in state r, is in the operation, whose caller is at pc and
\* has told the first workers: not begun, at a step of it, or through.
ThroughOf(j, r, pc, told) ==
    \/ r.pc = "finish"
    \/ j = 0 /\ pc = "wait"
    \/ j # 0 /\ j <= told /\ r.gen = r.prev /\ r.pc \in {"idle", "exit"}
PlaceOf(j, r, pc, told) == IF ThroughOf(j, r, pc, told) THEN "through" ELSE IF r.pc \in {"idle", "exit"} THEN "todo" ELSE r.pc
Places == [j \in Shard |-> PlaceOf(j, shards[j], users[exec.mu].pc, users[exec.mu].told)]
PartsIn(o) == 0 .. PartsOf(o) - 1

\* Fixed ranges: the rows of the shards that are through.
RowsWork(o, at, a) ==
    \A i \in PartsIn(o) : /\ at[i] \in {"todo", "apply", "through"}
                          /\ \A x \in RangeOf(o, i) : a[x] = IF at[i] = "through" THEN 1 ELSE 0

\* A counter: the items below it, but for those a shard has in hand.
InHand(o, at, s, x) == \E i \in PartsIn(o) : at[i] = "apply" /\ s[i].item = x
ClaimsWork(o, at, s, e, a) ==
    /\ \A i \in PartsIn(o) : /\ at[i] \in {"todo", "claim", "apply", "through"}
                             /\ at[i] = "apply" => s[i].item < e.next /\ s[i].item < o.items
                             /\ at[i] = "through" => o.items <= e.next
    /\ \A i, j \in PartsIn(o) : at[i] = "apply" /\ at[j] = "apply" /\ s[i].item = s[j].item => i = j
    /\ \A x \in 0 .. o.items - 1 : a[x] = IF x < e.next /\ ~InHand(o, at, s, x) THEN 1 ELSE 0

\* Two ends: the strips of the panels before the front, and those behind the
\* back; whoever is through left none that another does not take.
SplitWork(o, at, s, e, a) ==
    /\ e.front * StripsPerPanel <= e.back /\ e.back <= o.items * StripsPerPanel
    /\ PartsOf(o) = 1 => e.back = o.items * StripsPerPanel
    /\ \A i \in PartsIn(o) :
        /\ at[i] \in {"todo", "claim", "swap", "through"}
        /\ at[i] = "swap" => IF i = 0 THEN s[i].front < o.items /\ (s[i].front + 1) * StripsPerPanel <= s[i].back
                             ELSE s[i].back > 0 /\ s[i].front * StripsPerPanel <= s[i].back - 1
        /\ at[i] = "through" => IF i = 0 THEN o.items <= e.front \/ e.back < (e.front + 1) * StripsPerPanel
                                ELSE e.back <= e.front * StripsPerPanel
    /\ \A x \in 0 .. o.items * StripsPerPanel - 1 : a[x] = IF x < e.front * StripsPerPanel \/ e.back <= x THEN 1 ELSE 0

\* Lockstep: the phases a shard has written, those it has arrived after, and
\* those whose barrier it has passed.
Wrote(at, s, i) == IF at[i] = "todo" THEN 0 ELSE IF at[i] = "through" THEN Phases ELSE s[i].phase
Arrived(at, s, i) == IF at[i] = "arrive" THEN s[i].phase - 1 ELSE Wrote(at, s, i)
Passed(at, s, i) == IF at[i] \in {"arrive", "spin"} THEN s[i].phase - 1 ELSE Wrote(at, s, i)
Arrivals(o, at, s) == {t \in PartsIn(o) \X (1 .. Phases) : t[2] <= Arrived(at, s, t[1])}
LockWork(o, at, s, e, a) ==
    /\ \A i \in PartsIn(o) :
        /\ at[i] \in {"todo", "write", "arrive", "spin", "through"}
        /\ at[i] = "write" => s[i].phase < Phases
        /\ at[i] \in {"arrive", "spin"} => s[i].phase \in 1 .. Phases /\ PartsOf(o) > 1
        /\ \A k \in 1 .. Phases : a[<<i, k>>] = IF k <= Wrote(at, s, i) THEN 1 ELSE 0
    /\ \A i, j \in PartsIn(o) : Passed(at, s, i) <= Arrived(at, s, j)
    /\ PartsOf(o) > 1 => e.arrive = Cardinality(Arrivals(o, at, s))

Work(o, at, s, e, a) ==
    /\ DOMAIN a = ItemsOf(o)
    /\ o.kind \in {"rows", "mul"} => RowsWork(o, at, a)
    /\ o.kind = "claims" => ClaimsWork(o, at, s, e, a)
    /\ o.kind = "split" => SplitWork(o, at, s, e, a)
    /\ o.kind = "lockstep" => LockWork(o, at, s, e, a)
WorkInv == Busy => Work(exec.job, Places, shards, exec, applied)

ExecInv == ExecTypes /\ CallerInv /\ ShardInv /\ CountInv /\ WorkInv

-----------------------------------------------------------------------------
(* How rows are shared.                                                    *)

LEMMA ExecBounds ==
    /\ ExecWorkers \in Nat /\ ExecWorkers > 0 /\ StripsPerPanel \in Nat /\ StripsPerPanel > 0 /\ Phases \in Nat /\ Phases > 0
    /\ MaxExecCalls \in Nat /\ "free" \notin ExecUser
BY ExecAssumption

LEMMA OperationFields ==
  ASSUME NEW o \in JobType
  PROVE  /\ o.rows \in Nat /\ o.minRows \in Nat /\ o.minRows > 0 /\ o.need \in Nat /\ o.items \in Nat
         /\ o \in Operation <=> o # NoOperation
         /\ o \in Operation => o.kind \in {"rows", "mul", "claims", "split", "lockstep"}
         /\ o.kind \in {"rows", "mul", "claims", "split", "lockstep"} => o \in Operation
<1>1. NoOperation.kind = "none" /\ NoOperation.rows = 0 /\ NoOperation.minRows = 1 /\ NoOperation.need = 0 /\ NoOperation.items = 0
  BY DEF NoOperation
<1>2. ASSUME o \in Operation
      PROVE  /\ o.rows \in Nat /\ o.minRows \in Nat /\ o.minRows > 0 /\ o.need \in Nat /\ o.items \in Nat
             /\ o.kind \in {"rows", "mul", "claims", "split", "lockstep"}
  BY <1>2, ExecAssumption
<1>3. CASE o \in Operation
  BY <1>1, <1>2, <1>3
<1>4. CASE o = NoOperation /\ o \notin Operation
  BY <1>1, <1>4
<1> QED BY <1>3, <1>4 DEF JobType

\* An operation has a part, and no more parts than the executor has shards.
LEMMA PartsBound == ASSUME NEW o \in JobType PROVE PartsOf(o) \in Int /\ 1 <= PartsOf(o) /\ PartsOf(o) <= ExecWorkers
<1>1. \A x \in Int : Greatest(1, Least(ExecWorkers, x)) \in Int /\ 1 <= Greatest(1, Least(ExecWorkers, x)) /\ Greatest(1, Least(ExecWorkers, x)) <= ExecWorkers
  BY ExecBounds DEF Greatest, Least
<1>2. o.rows \div o.minRows \in Int
  BY OperationFields
<1>3. PICK d \in Int : d > 0 /\ (partitions(o.rows) = 1 \/ partitions(o.rows) = Greatest(1, Least(ExecWorkers, o.rows \div d)))
  <2> DEFINE d == Greatest(16, 4 * Ceil(Ceil(Ceil(1048576, 1024), 1024), 4))
  <2>1. Ceil(1048576, 1024) \in Int
    BY DEF Ceil
  <2>2. Ceil(Ceil(1048576, 1024), 1024) \in Int
    BY <2>1 DEF Ceil
  <2>3. Ceil(Ceil(Ceil(1048576, 1024), 1024), 4) \in Int
    BY <2>2 DEF Ceil
  <2>4. d \in Int /\ d > 0
    BY <2>3 DEF Greatest
  <2>5. partitions(o.rows) = 1 \/ partitions(o.rows) = Greatest(1, Least(ExecWorkers, o.rows \div d))
    BY DEF partitions
  <2> HIDE DEF d
  <2> QED BY <2>4, <2>5
<1>4. o.rows \div d \in Int
  BY <1>3, OperationFields
<1>5. PartsOf(o) \in {1, Greatest(1, Least(ExecWorkers, o.rows \div d)), Greatest(1, Least(ExecWorkers, o.rows \div o.minRows))}
  BY <1>3 DEF PartsOf
<1> QED BY <1>1, <1>2, <1>4, <1>5, ExecBounds

\* n things in parts: q for each part, and one more for the first r.
LEMMA Divided ==
  ASSUME NEW n \in Nat, NEW parts \in Nat, parts > 0
  PROVE  n \div parts \in Nat /\ n % parts \in Nat /\ n % parts < parts /\ n = (n \div parts) * parts + (n % parts)
OBVIOUS

LEMMA Times == ASSUME NEW a \in Nat, NEW b \in Nat, NEW c \in Nat, a <= b PROVE a * c \in Nat /\ b * c \in Nat /\ a * c <= b * c
<1>1. PICK d \in Nat : b = a + d
  <2>1. b - a \in Nat /\ b = a + (b - a)
    OBVIOUS
  <2> QED BY <2>1
<1>2. b * c = a * c + d * c /\ d * c \in Nat /\ a * c \in Nat
  BY <1>1
<1> QED BY <1>2

LEMMA FirstIs ==
  ASSUME NEW n \in Nat, NEW parts \in Nat, parts > 0, NEW i \in Nat
  PROVE  First(n, parts, i) \in Nat /\ First(n, parts, i) = i * (n \div parts) + (IF i < n % parts THEN i ELSE n % parts)
<1>1. i * (n \div parts) \in Nat
  BY Divided
<1> QED BY <1>1, Divided DEF First, Least

\* The parts follow each other, from the first thing to the last.
LEMMA FirstGrows ==
  ASSUME NEW n \in Nat, NEW parts \in Nat, parts > 0
  PROVE  /\ First(n, parts, 0) = 0 /\ First(n, parts, parts) = n
         /\ \A i, j \in Nat : i <= j => First(n, parts, i) <= First(n, parts, j)
<1> DEFINE q == n \div parts
           r == n % parts
<1>0. q \in Nat /\ r \in Nat /\ r < parts /\ n = q * parts + r
  BY Divided
<1>1. First(n, parts, 0) = 0
  <2>1. First(n, parts, 0) = 0 * q + (IF 0 < r THEN 0 ELSE r)
    BY FirstIs
  <2> HIDE DEF q, r
  <2> QED BY <1>0, <2>1
<1>2. First(n, parts, parts) = n
  <2>1. First(n, parts, parts) = parts * q + (IF parts < r THEN parts ELSE r)
    BY FirstIs
  <2> HIDE DEF q, r
  <2>2. parts * q = q * parts /\ ~(parts < r)
    BY <1>0
  <2> QED BY <1>0, <2>1, <2>2
<1>3. ASSUME NEW i \in Nat, NEW j \in Nat, i <= j PROVE First(n, parts, i) <= First(n, parts, j)
  <2>1. i * q \in Nat /\ j * q \in Nat /\ i * q <= j * q
    BY <1>0, <1>3, Times
  <2>2. First(n, parts, i) = i * q + (IF i < r THEN i ELSE r) /\ First(n, parts, j) = j * q + (IF j < r THEN j ELSE r)
    BY FirstIs
  <2> HIDE DEF q, r
  <2> QED BY <1>0, <1>3, <2>1, <2>2
<1> QED BY <1>1, <1>2, <1>3

\* Every thing is in a part.
LEMMA FirstCovers ==
  ASSUME NEW n \in Nat, NEW parts \in Nat, parts > 0, NEW x \in Nat, x < n
  PROVE  \E i \in 0 .. parts - 1 : First(n, parts, i) <= x /\ x < First(n, parts, i + 1)
<1> DEFINE q == n \div parts
           r == n % parts
<1>0. q \in Nat /\ r \in Nat /\ r < parts /\ n = q * parts + r
  BY Divided
<1>1. \A i \in Nat : First(n, parts, i) = i * q + (IF i < r THEN i ELSE r)
  BY FirstIs
<1> HIDE DEF q, r
<1>2. CASE x < r * (q + 1)
  <2> DEFINE i == x \div (q + 1)
             m == x % (q + 1)
  <2>1. q + 1 \in Nat /\ q + 1 > 0
    BY <1>0
  <2>2. i \in Nat /\ m \in Nat /\ m < q + 1 /\ x = i * (q + 1) + m
    BY <2>1, Divided
  <2> HIDE DEF i, m
  <2>3. i < r
    <3>1. SUFFICES ASSUME r <= i PROVE FALSE
      BY <1>0, <2>2
    <3>2. r * (q + 1) <= i * (q + 1) /\ r * (q + 1) \in Nat /\ i * (q + 1) \in Nat
      BY <1>0, <2>1, <2>2, <3>1, Times
    <3> QED BY <1>2, <2>2, <3>2
  <2>4. i * (q + 1) = i * q + i /\ (i + 1) * q = i * q + q /\ i * q \in Nat
    BY <1>0, <2>2
  <2>5. First(n, parts, i) = i * q + i /\ First(n, parts, i + 1) = (i + 1) * q + (i + 1)
    <3>1. First(n, parts, i + 1) = (i + 1) * q + (IF i + 1 < r THEN i + 1 ELSE r) /\ (i + 1 < r \/ i + 1 = r)
      BY <1>0, <1>1, <2>2, <2>3
    <3> QED BY <1>1, <2>2, <2>3, <3>1
  <2>6. First(n, parts, i) <= x /\ x < First(n, parts, i + 1) /\ i \in 0 .. parts - 1
    BY <1>0, <2>2, <2>3, <2>4, <2>5
  <2> QED BY <2>6
<1>3. CASE r * (q + 1) <= x
  <2>1. r * (q + 1) = r * q + r /\ r * q \in Nat
    BY <1>0
  <2>2. q > 0
    <3>1. SUFFICES ASSUME q = 0 PROVE FALSE
      BY <1>0
    <3>2. q * parts = 0 /\ r * q = 0
      BY <1>0, <3>1
    <3> QED BY <1>0, <1>3, <2>1, <3>2
  <2>3. x - (r * q + r) \in Nat
    BY <1>0, <1>3, <2>1
  <2> DEFINE y == x - (r * q + r)
             k == y \div q
             m == y % q
             i == r + k
  <2>4. k \in Nat /\ m \in Nat /\ m < q /\ y = k * q + m
    BY <1>0, <2>2, <2>3, Divided
  <2>5. x = y + (r * q + r) /\ y \in Nat /\ i = r + k /\ i \in Nat
    BY <1>0, <2>1, <2>3, <2>4
  <2> HIDE DEF y, k, m, i
  <2>6. i * q = r * q + k * q /\ (i + 1) * q = i * q + q /\ k * q \in Nat
    BY <1>0, <2>4, <2>5
  <2>7. i < parts
    <3>1. SUFFICES ASSUME parts <= i PROVE FALSE
      BY <2>5
    <3>2. parts * q <= i * q /\ parts * q \in Nat /\ i * q \in Nat
      BY <1>0, <2>5, <3>1, Times
    <3>3. parts * q = q * parts
      BY <1>0
    <3> QED BY <1>0, <2>1, <2>4, <2>5, <2>6, <3>2, <3>3
  <2>8. First(n, parts, i) = i * q + r /\ First(n, parts, i + 1) = (i + 1) * q + r
    <3>1. i + 1 \in Nat /\ ~(i < r) /\ ~(i + 1 < r)
      BY <1>0, <2>4, <2>5
    <3>2. First(n, parts, i) = i * q + (IF i < r THEN i ELSE r)
      BY <1>1, <2>5
    <3>3. First(n, parts, i + 1) = (i + 1) * q + (IF i + 1 < r THEN i + 1 ELSE r)
      BY <1>1, <3>1
    <3> QED BY <3>1, <3>2, <3>3
  <2>9. First(n, parts, i) <= x /\ x < First(n, parts, i + 1)
    BY <1>0, <2>1, <2>4, <2>5, <2>6, <2>8
  <2> QED BY <2>5, <2>7, <2>9
<1>4. r * (q + 1) \in Nat
  BY <1>0
<1> QED BY <1>2, <1>3, <1>4

\* The ranges of two shards are apart, and together they are all rows.
LEMMA Ranges ==
  ASSUME NEW o \in JobType
  PROVE  /\ \A i, j \in PartsIn(o) : i # j => RangeOf(o, i) \cap RangeOf(o, j) = {}
         /\ \A x \in 0 .. o.rows - 1 : \E i \in PartsIn(o) : x \in RangeOf(o, i)
<1> DEFINE parts == PartsOf(o)
<1>0. parts \in Nat /\ parts > 0 /\ o.rows \in Nat
  BY PartsBound, OperationFields, ExecBounds
<1> DEFINE n == IF o.kind = "mul" THEN Ceil(o.rows, 4) ELSE o.rows
           F(i) == First(n, parts, i)
<1>1. n \in Nat /\ (o.kind = "mul" => o.rows <= 4 * n /\ 4 * n < o.rows + 4)
  <2>1. Ceil(o.rows, 4) \in Nat /\ o.rows <= 4 * Ceil(o.rows, 4) /\ 4 * Ceil(o.rows, 4) < o.rows + 4
    BY <1>0 DEF Ceil
  <2> QED BY <1>0, <2>1
<1>2. \A i \in Nat : F(i) \in Nat
  BY <1>0, <1>1, FirstIs
<1>3. \A i, j \in Nat : i <= j => F(i) <= F(j)
  BY <1>0, <1>1, FirstGrows
<1>4. F(parts) = n
  BY <1>0, <1>1, FirstGrows
<1>5. \A x \in Nat : x < n => \E i \in 0 .. parts - 1 : F(i) <= x /\ x < F(i + 1)
  BY <1>0, <1>1, FirstCovers
<1>6. \A i \in Nat : RangeOf(o, i) = IF o.kind = "mul" THEN 4 * F(i) .. Least(4 * F(i + 1), o.rows) - 1 ELSE F(i) .. F(i + 1) - 1
  BY DEF RangeOf
<1> HIDE DEF n, F, parts
<1>7. \A x, i \in Nat : x \in RangeOf(o, i) <=>
        IF o.kind = "mul" THEN 4 * F(i) <= x /\ x < 4 * F(i + 1) /\ x < o.rows ELSE F(i) <= x /\ x < F(i + 1)
  <2> TAKE x, i \in Nat
  <2>1. F(i) \in Nat /\ F(i + 1) \in Nat
    BY <1>2
  <2>2. CASE o.kind = "mul"
    <3>1. Least(4 * F(i + 1), o.rows) \in Int /\ (x < Least(4 * F(i + 1), o.rows) <=> x < 4 * F(i + 1) /\ x < o.rows)
      BY <1>0, <2>1 DEF Least
    <3>2. RangeOf(o, i) = 4 * F(i) .. Least(4 * F(i + 1), o.rows) - 1
      BY <1>6, <2>2
    <3> QED BY <2>1, <2>2, <3>1, <3>2
  <2>3. CASE o.kind # "mul"
    <3>1. RangeOf(o, i) = F(i) .. F(i + 1) - 1
      BY <1>6, <2>3
    <3> QED BY <2>1, <2>3, <3>1
  <2> QED BY <2>2, <2>3
<1>8. ASSUME NEW i \in Nat, NEW j \in Nat, i < j, NEW x, x \in RangeOf(o, i), x \in RangeOf(o, j) PROVE FALSE
  <2>1. F(i) \in Nat /\ F(i + 1) \in Nat /\ F(j) \in Nat /\ F(j + 1) \in Nat /\ F(i + 1) <= F(j)
    BY <1>2, <1>3, <1>8
  <2>2. x \in Nat
    <3>1. RangeOf(o, i) \subseteq 4 * F(i) .. Least(4 * F(i + 1), o.rows) - 1 \/ RangeOf(o, i) \subseteq F(i) .. F(i + 1) - 1
      BY <1>6
    <3> QED BY <1>8, <2>1, <3>1
  <2> QED BY <1>7, <1>8, <2>1, <2>2
<1>9. ASSUME NEW i \in 0 .. parts - 1, NEW j \in 0 .. parts - 1, i # j PROVE RangeOf(o, i) \cap RangeOf(o, j) = {}
  <2>1. i \in Nat /\ j \in Nat /\ (i < j \/ j < i)
    BY <1>0, <1>9
  <2> QED BY <1>8, <2>1
<1>10. ASSUME NEW x \in 0 .. o.rows - 1 PROVE \E i \in 0 .. parts - 1 : x \in RangeOf(o, i)
  <2>1. x \in Nat /\ x < o.rows
    BY <1>0
  <2>2. CASE o.kind = "mul"
    <3>1. x \div 4 \in Nat /\ x \div 4 < n /\ 4 * (x \div 4) <= x /\ x < 4 * (x \div 4) + 4
      BY <1>0, <1>1, <2>1, <2>2
    <3>2. PICK i \in 0 .. parts - 1 : F(i) <= x \div 4 /\ x \div 4 < F(i + 1)
      BY <1>5, <3>1
    <3>3. i \in Nat /\ F(i) \in Nat /\ F(i + 1) \in Nat
      BY <1>0, <1>2
    <3>4. 4 * F(i) <= x /\ x < 4 * F(i + 1)
      BY <3>1, <3>2, <3>3
    <3> QED BY <1>7, <2>1, <2>2, <3>3, <3>4
  <2>3. CASE o.kind # "mul"
    <3>1. n = o.rows
      BY <2>3 DEF n
    <3>2. PICK i \in 0 .. parts - 1 : F(i) <= x /\ x < F(i + 1)
      BY <1>5, <2>1, <3>1
    <3>3. i \in Nat
      BY <1>0
    <3> QED BY <1>7, <2>1, <2>3, <3>2, <3>3
  <2> QED BY <2>2, <2>3
<1> QED BY <1>9, <1>10 DEF PartsIn, parts

\* A shard's range is of the operation's rows.
LEMMA RangesIn == ASSUME NEW o \in JobType, NEW i \in PartsIn(o) PROVE RangeOf(o, i) \subseteq 0 .. o.rows - 1
<1> DEFINE parts == PartsOf(o)
<1>0. parts \in Nat /\ parts > 0 /\ o.rows \in Nat /\ i \in Nat /\ i + 1 \in Nat /\ i + 1 <= parts
  BY PartsBound, OperationFields, ExecBounds DEF PartsIn
<1>1. CASE o.kind = "mul"
  <2> DEFINE n == Ceil(o.rows, 4)
  <2>1. n \in Nat
    BY <1>0 DEF Ceil
  <2>2. First(n, parts, i) \in Nat /\ First(n, parts, i + 1) \in Nat
    BY <1>0, <2>1, FirstIs
  <2>3. RangeOf(o, i) = 4 * First(n, parts, i) .. Least(4 * First(n, parts, i + 1), o.rows) - 1
    BY <1>1 DEF RangeOf
  <2>4. Least(4 * First(n, parts, i + 1), o.rows) \in Int /\ Least(4 * First(n, parts, i + 1), o.rows) <= o.rows
    BY <1>0, <2>2 DEF Least
  <2> HIDE DEF n
  <2> QED BY <1>0, <2>2, <2>3, <2>4
<1>2. CASE o.kind # "mul"
  <2>1. First(o.rows, parts, i) \in Nat /\ First(o.rows, parts, i + 1) \in Nat /\ First(o.rows, parts, i + 1) <= o.rows
    <3>1. First(o.rows, parts, parts) = o.rows /\ First(o.rows, parts, i + 1) <= First(o.rows, parts, parts)
      BY <1>0, FirstGrows
    <3> HIDE DEF parts
    <3>2. First(o.rows, parts, i) \in Nat /\ First(o.rows, parts, i + 1) \in Nat
      BY <1>0, FirstIs
    <3> QED BY <3>1, <3>2
  <2>2. RangeOf(o, i) = First(o.rows, parts, i) .. First(o.rows, parts, i + 1) - 1
    BY <1>2 DEF RangeOf
  <2> QED BY <1>0, <2>1, <2>2
<1> QED BY <1>1, <1>2

-----------------------------------------------------------------------------
(* What a step of a shard does to the work of the operation.               *)

LEMMA ItemsAre ==
  ASSUME NEW o
  PROVE  /\ o.kind \in {"rows", "mul"} => ItemsOf(o) = 0 .. o.rows - 1
         /\ o.kind = "claims" => ItemsOf(o) = 0 .. o.items - 1
         /\ o.kind = "split" => ItemsOf(o) = 0 .. o.items * StripsPerPanel - 1
         /\ o.kind = "lockstep" => ItemsOf(o) = PartsIn(o) \X (1 .. Phases)
<1>1. CASE o.kind \in {"rows", "mul"}
  BY <1>1 DEF ItemsOf
<1>2. CASE o.kind = "claims"
  BY <1>2 DEF ItemsOf
<1>3. CASE o.kind = "split"
  BY <1>3 DEF ItemsOf
<1>4. CASE o.kind = "lockstep"
  BY <1>4 DEF ItemsOf, PartsIn
<1> QED BY <1>1, <1>2, <1>3, <1>4

\* Shard j is where it was.
StaysAt(at, bt, s, t, j) ==
    /\ bt[j] = at[j] /\ t[j].item = s[j].item /\ t[j].front = s[j].front /\ t[j].back = s[j].back /\ t[j].phase = s[j].phase
SameCounters(e, f) == f.next = e.next /\ f.front = e.front /\ f.back = e.back /\ f.arrive = e.arrive


\* Who stays has written, arrived and passed what it had.
LEMMA StaysCounts ==
  ASSUME NEW at, NEW bt, NEW s, NEW t, NEW j, StaysAt(at, bt, s, t, j)
  PROVE  Wrote(bt, t, j) = Wrote(at, s, j) /\ Arrived(bt, t, j) = Arrived(at, s, j) /\ Passed(bt, t, j) = Passed(at, s, j)
BY DEF StaysAt, Wrote, Arrived, Passed

\* A step that moves no shard and no counter.
LEMMA WorkStays ==
  ASSUME NEW o \in Operation, NEW at, NEW bt, NEW s, NEW t, NEW e, NEW f, NEW a, Work(o, at, s, e, a),
         \A j \in PartsIn(o) : StaysAt(at, bt, s, t, j), SameCounters(e, f)
  PROVE  Work(o, bt, t, f, a)
<1>1. DOMAIN a = ItemsOf(o)
  BY DEF Work
<1>2. ASSUME o.kind \in {"rows", "mul"} PROVE RowsWork(o, bt, a)
  BY <1>2 DEF Work, RowsWork, StaysAt
<1>3. ASSUME o.kind = "claims" PROVE ClaimsWork(o, bt, t, f, a)
  <2>1. \A x : InHand(o, bt, t, x) <=> InHand(o, at, s, x)
    BY DEF InHand, StaysAt
  <2>2. ClaimsWork(o, at, s, e, a)
    BY <1>3 DEF Work
  <2>3. \A x \in 0 .. o.items - 1 : a[x] = IF x < f.next /\ ~InHand(o, bt, t, x) THEN 1 ELSE 0
    BY <2>1, <2>2 DEF ClaimsWork, SameCounters
  <2> QED BY <2>2, <2>3 DEF ClaimsWork, SameCounters, StaysAt
<1>4. ASSUME o.kind = "split" PROVE SplitWork(o, bt, t, f, a)
  BY <1>4 DEF Work, SplitWork, StaysAt, SameCounters
<1>5. ASSUME o.kind = "lockstep" PROVE LockWork(o, bt, t, f, a)
  <2>1. \A j \in PartsIn(o) : Wrote(bt, t, j) = Wrote(at, s, j) /\ Arrived(bt, t, j) = Arrived(at, s, j) /\ Passed(bt, t, j) = Passed(at, s, j)
    BY StaysCounts
  <2>2. Arrivals(o, bt, t) = Arrivals(o, at, s)
    BY <2>1 DEF Arrivals
  <2>3. LockWork(o, at, s, e, a)
    BY <1>5 DEF Work
  <2> QED BY <2>1, <2>2, <2>3 DEF LockWork, StaysAt, SameCounters
<1> QED BY <1>1, <1>2, <1>3, <1>4, <1>5 DEF Work

\* A shard begins.
LEMMA WorkStarts ==
  ASSUME NEW o \in Operation, NEW at, NEW bt, NEW s, NEW t, NEW e, NEW a, Work(o, at, s, e, a), NEW i \in PartsIn(o),
         \A j \in PartsIn(o) \ {i} : StaysAt(at, bt, s, t, j), at[i] = "todo", bt[i] = StartPc(o), t[i].phase = 0
  PROVE  Work(o, bt, t, e, a)
<1>1. DOMAIN a = ItemsOf(o)
  BY DEF Work
<1>2. ASSUME o.kind \in {"rows", "mul"} PROVE RowsWork(o, bt, a)
  <2>1. bt[i] = "apply"
    BY <1>2 DEF StartPc
  <2> QED BY <1>2, <2>1 DEF Work, RowsWork, StaysAt
<1>3. ASSUME o.kind = "claims" PROVE ClaimsWork(o, bt, t, e, a)
  <2>0. bt[i] = "claim"
    BY <1>3 DEF StartPc
  <2>1. \A x : InHand(o, bt, t, x) <=> InHand(o, at, s, x)
    BY <2>0 DEF InHand, StaysAt
  <2>2. ClaimsWork(o, at, s, e, a)
    BY <1>3 DEF Work
  <2>3. \A x \in 0 .. o.items - 1 : a[x] = IF x < e.next /\ ~InHand(o, bt, t, x) THEN 1 ELSE 0
    BY <2>1, <2>2 DEF ClaimsWork
  <2> QED BY <2>0, <2>2, <2>3 DEF ClaimsWork, StaysAt
<1>4. ASSUME o.kind = "split" PROVE SplitWork(o, bt, t, e, a)
  <2>1. bt[i] = "claim"
    BY <1>4 DEF StartPc
  <2> QED BY <1>4, <2>1 DEF Work, SplitWork, StaysAt
<1>5. ASSUME o.kind = "lockstep" PROVE LockWork(o, bt, t, e, a)
  <2>0. bt[i] = "write"
    BY <1>5 DEF StartPc
  <2>1. Wrote(bt, t, i) = Wrote(at, s, i) /\ Arrived(bt, t, i) = Arrived(at, s, i) /\ Passed(bt, t, i) = Passed(at, s, i)
    BY <2>0 DEF Wrote, Arrived, Passed
  <2>2. \A j \in PartsIn(o) : Wrote(bt, t, j) = Wrote(at, s, j) /\ Arrived(bt, t, j) = Arrived(at, s, j) /\ Passed(bt, t, j) = Passed(at, s, j)
    BY <2>1, StaysCounts
  <2>3. Arrivals(o, bt, t) = Arrivals(o, at, s)
    BY <2>2 DEF Arrivals
  <2>4. LockWork(o, at, s, e, a)
    BY <1>5 DEF Work
  <2> QED BY <2>0, <2>2, <2>3, <2>4, ExecBounds DEF LockWork, StaysAt
<1> QED BY <1>1, <1>2, <1>3, <1>4, <1>5 DEF Work

\* The counts after one more was computed.
Added(a, which) == [x \in DOMAIN a |-> a[x] + (IF x \in which THEN 1 ELSE 0)]

\* A shard computes its rows.
LEMMA RowsApplied ==
  ASSUME NEW o \in Operation, NEW at, NEW bt, NEW s, NEW t, NEW e, NEW a, Work(o, at, s, e, a), NEW i \in PartsIn(o),
         \A j \in PartsIn(o) \ {i} : StaysAt(at, bt, s, t, j), at[i] = "apply", bt[i] = "through", o.kind \in {"rows", "mul"}
  PROVE  Work(o, bt, t, e, Added(a, RangeOf(o, i))) /\ \A x \in DOMAIN a : Added(a, RangeOf(o, i))[x] \in {0, 1}
<1> DEFINE b == Added(a, RangeOf(o, i))
<1>0. o \in JobType /\ PartsIn(o) = 0 .. PartsOf(o) - 1
  BY DEF JobType, PartsIn
<1>1. DOMAIN a = 0 .. o.rows - 1 /\ RowsWork(o, at, a) /\ DOMAIN b = DOMAIN a
  BY ItemsAre DEF Work, Added
<1>2. \A x \in DOMAIN a : b[x] = a[x] + (IF x \in RangeOf(o, i) THEN 1 ELSE 0)
  BY DEF Added
<1> HIDE DEF b
<1>3. ASSUME NEW j \in PartsIn(o), NEW x \in RangeOf(o, j), x \in DOMAIN a PROVE b[x] = IF bt[j] = "through" THEN 1 ELSE 0
  <2>1. CASE j = i
    <3>1. a[x] = 0
      BY <1>1, <1>3, <2>1 DEF RowsWork
    <3> QED BY <1>2, <1>3, <2>1, <3>1
  <2>2. CASE j # i
    <3>1. x \notin RangeOf(o, i) /\ bt[j] = at[j]
      BY <1>0, <1>3, <2>2, Ranges DEF StaysAt
    <3>2. a[x] = IF at[j] = "through" THEN 1 ELSE 0
      BY <1>1, <1>3 DEF RowsWork
    <3> QED BY <1>2, <1>3, <3>1, <3>2
  <2> QED BY <2>1, <2>2
<1>4. \A j \in PartsIn(o) : RangeOf(o, j) \subseteq DOMAIN a
  BY <1>0, <1>1, RangesIn
<1>5. RowsWork(o, bt, b)
  <2>1. \A j \in PartsIn(o) : bt[j] \in {"todo", "apply", "through"}
    BY <1>1 DEF RowsWork, StaysAt
  <2> QED BY <1>3, <1>4, <2>1 DEF RowsWork
<1>6. ASSUME NEW x \in DOMAIN a PROVE b[x] \in {0, 1}
  <2>1. PICK j \in PartsIn(o) : x \in RangeOf(o, j)
    BY <1>0, <1>1, <1>6, Ranges
  <2> QED BY <1>3, <1>6, <2>1
<1>7. Work(o, bt, t, e, b)
  BY <1>1, <1>5, ItemsAre DEF Work
<1> QED BY <1>6, <1>7 DEF b

\* A shard takes the next item of the counter, or finds none.
LEMMA ItemClaimed ==
  ASSUME NEW o \in Operation, NEW at, NEW bt, NEW s, NEW t, NEW e, NEW f, NEW a, Work(o, at, s, e, a), NEW i \in PartsIn(o),
         \A j \in PartsIn(o) \ {i} : StaysAt(at, bt, s, t, j), \A j \in PartsIn(o) : s[j].item \in Nat, at[i] = "claim", o.kind = "claims",
         e.next \in Nat, f.next = e.next + 1, t[i].item = e.next, bt[i] = IF e.next >= o.items THEN "through" ELSE "apply"
  PROVE  Work(o, bt, t, f, a)
<1>0. o.items \in Nat
  BY OperationFields DEF JobType
<1>1. ClaimsWork(o, at, s, e, a) /\ DOMAIN a = ItemsOf(o)
  BY DEF Work
<1>2. \A j \in PartsIn(o) : /\ bt[j] \in {"todo", "claim", "apply", "through"}
                            /\ bt[j] = "apply" => t[j].item < f.next /\ t[j].item < o.items
                            /\ bt[j] = "through" => o.items <= f.next
  <2> TAKE j \in PartsIn(o)
  <2>1. CASE j = i
    BY <1>0, <2>1
  <2>2. CASE j # i
    <3>1. bt[j] = at[j] /\ t[j].item = s[j].item /\ s[j].item \in Nat
      BY <2>2 DEF StaysAt
    <3>2. /\ at[j] \in {"todo", "claim", "apply", "through"} /\ (at[j] = "apply" => s[j].item < e.next /\ s[j].item < o.items)
          /\ at[j] = "through" => o.items <= e.next
      BY <1>1 DEF ClaimsWork
    <3> QED BY <1>0, <3>1, <3>2
  <2> QED BY <2>1, <2>2
<1>3. ASSUME NEW j \in PartsIn(o), NEW k \in PartsIn(o), bt[j] = "apply", bt[k] = "apply", t[j].item = t[k].item PROVE j = k
  <2>1. \A l \in PartsIn(o) \ {i} : bt[l] = "apply" => at[l] = "apply" /\ t[l].item = s[l].item /\ t[l].item < e.next /\ t[l].item \in Nat
    BY <1>1 DEF ClaimsWork, StaysAt
  <2>2. CASE j # i /\ k # i
    BY <1>1, <1>3, <2>1, <2>2 DEF ClaimsWork
  <2>3. CASE j = i /\ k # i
    BY <1>3, <2>1, <2>3
  <2>4. CASE j # i /\ k = i
    BY <1>3, <2>1, <2>4
  <2> QED BY <2>2, <2>3, <2>4
<1>4. ASSUME NEW x \in 0 .. o.items - 1 PROVE a[x] = IF x < f.next /\ ~InHand(o, bt, t, x) THEN 1 ELSE 0
  <2>0. x \in Nat /\ x < o.items /\ a[x] = IF x < e.next /\ ~InHand(o, at, s, x) THEN 1 ELSE 0
    BY <1>0, <1>1 DEF ClaimsWork
  <2>1. CASE x = e.next
    <3>1. bt[i] = "apply" /\ t[i].item = x
      BY <1>0, <2>0, <2>1
    <3>2. InHand(o, bt, t, x)
      BY <3>1 DEF InHand
    <3> QED BY <2>0, <2>1, <3>2
  <2>2. CASE x # e.next
    <3>1. InHand(o, bt, t, x) <=> InHand(o, at, s, x)
      BY <2>2 DEF InHand, StaysAt
    <3>2. x < f.next <=> x < e.next
      BY <2>0, <2>2
    <3> QED BY <2>0, <3>1, <3>2
  <2> QED BY <2>1, <2>2
<1>5. ClaimsWork(o, bt, t, f, a)
  BY <1>2, <1>3, <1>4 DEF ClaimsWork
<1> QED BY <1>1, <1>5 DEF Work

\* A shard computes the item it has in hand.
LEMMA ItemApplied ==
  ASSUME NEW o \in Operation, NEW at, NEW bt, NEW s, NEW t, NEW e, NEW a, Work(o, at, s, e, a), NEW i \in PartsIn(o),
         \A j \in PartsIn(o) \ {i} : StaysAt(at, bt, s, t, j), at[i] = "apply", bt[i] = "claim", o.kind = "claims"
  PROVE  Work(o, bt, t, e, Added(a, {s[i].item})) /\ \A x \in DOMAIN a : Added(a, {s[i].item})[x] \in {0, 1}
<1> DEFINE b == Added(a, {s[i].item})
<1>1. ClaimsWork(o, at, s, e, a) /\ DOMAIN a = 0 .. o.items - 1 /\ DOMAIN b = DOMAIN a
  BY ItemsAre DEF Work, Added
<1>2. \A x \in DOMAIN a : b[x] = a[x] + (IF x = s[i].item THEN 1 ELSE 0)
  BY DEF Added
<1> HIDE DEF b
<1>3. s[i].item < e.next
  BY <1>1 DEF ClaimsWork
<1>4. ASSUME NEW x \in DOMAIN a PROVE b[x] = IF x < e.next /\ ~InHand(o, bt, t, x) THEN 1 ELSE 0
  <2>1. a[x] = IF x < e.next /\ ~InHand(o, at, s, x) THEN 1 ELSE 0
    BY <1>1 DEF ClaimsWork
  <2>2. CASE x = s[i].item
    <3>1. InHand(o, at, s, x)
      BY <2>2 DEF InHand
    <3>2. ~InHand(o, bt, t, x)
      BY <1>1, <2>2 DEF InHand, ClaimsWork, StaysAt
    <3> QED BY <1>2, <1>3, <2>1, <2>2, <3>1, <3>2
  <2>3. CASE x # s[i].item
    <3>1. InHand(o, bt, t, x) <=> InHand(o, at, s, x)
      BY <2>3 DEF InHand, StaysAt
    <3> QED BY <1>2, <2>1, <2>3, <3>1
  <2> QED BY <2>2, <2>3
<1>5. /\ \A j \in PartsIn(o) : /\ bt[j] \in {"todo", "claim", "apply", "through"}
                               /\ bt[j] = "apply" => t[j].item < e.next /\ t[j].item < o.items
                               /\ bt[j] = "through" => o.items <= e.next
      /\ \A j, k \in PartsIn(o) : bt[j] = "apply" /\ bt[k] = "apply" /\ t[j].item = t[k].item => j = k
  BY <1>1 DEF ClaimsWork, StaysAt
<1>6. ClaimsWork(o, bt, t, e, b)
  BY <1>1, <1>4, <1>5 DEF ClaimsWork
<1>7. Work(o, bt, t, e, b)
  BY <1>1, <1>6, ItemsAre DEF Work
<1>8. \A x \in DOMAIN a : b[x] \in {0, 1}
  BY <1>4
<1> QED BY <1>7, <1>8 DEF b

\* A shard has looked at both ends, or gives its claim up.
LEMMA ClaimsLooked ==
  ASSUME NEW o \in Operation, NEW at, NEW bt, NEW s, NEW t, NEW e, NEW a, Work(o, at, s, e, a), NEW i \in PartsIn(o),
         \A j \in PartsIn(o) \ {i} : StaysAt(at, bt, s, t, j), o.kind = "split", bt[i] \in {"claim", "swap", "through"},
         bt[i] = "swap" => IF i = 0 THEN t[i].front < o.items /\ (t[i].front + 1) * StripsPerPanel <= t[i].back
                           ELSE t[i].back > 0 /\ t[i].front * StripsPerPanel <= t[i].back - 1,
         bt[i] = "through" => IF i = 0 THEN o.items <= e.front \/ e.back < (e.front + 1) * StripsPerPanel ELSE e.back <= e.front * StripsPerPanel
  PROVE  Work(o, bt, t, e, a)
<1>1. SplitWork(o, at, s, e, a) /\ DOMAIN a = ItemsOf(o)
  BY DEF Work
<1>2. ASSUME NEW j \in PartsIn(o)
      PROVE  /\ bt[j] \in {"todo", "claim", "swap", "through"}
             /\ bt[j] = "swap" => IF j = 0 THEN t[j].front < o.items /\ (t[j].front + 1) * StripsPerPanel <= t[j].back
                                  ELSE t[j].back > 0 /\ t[j].front * StripsPerPanel <= t[j].back - 1
             /\ bt[j] = "through" => IF j = 0 THEN o.items <= e.front \/ e.back < (e.front + 1) * StripsPerPanel
                                     ELSE e.back <= e.front * StripsPerPanel
  <2>1. CASE j = i
    BY <2>1
  <2>2. CASE j # i
    BY <1>1, <2>2 DEF SplitWork, StaysAt
  <2> QED BY <2>1, <2>2
<1>3. SplitWork(o, bt, t, e, a)
  BY <1>1, <1>2 DEF SplitWork
<1> QED BY <1>1, <1>3 DEF Work

\* The panel at the front, or the strip at the back, for who has looked at r.
TakesPanel(e, f, r, which) ==
    /\ e.front \in Nat /\ e.back \in Nat /\ r.front = e.front /\ r.back = e.back /\ f.front = e.front + 1 /\ f.back = e.back
    /\ which = e.front * StripsPerPanel .. (e.front + 1) * StripsPerPanel - 1
TakesStrip(e, f, r, which) ==
    /\ e.front \in Nat /\ e.back \in Nat /\ r.front = e.front /\ r.back = e.back /\ f.front = e.front /\ f.back = e.back - 1
    /\ which = {e.back - 1}

\* The caller takes the panel at the front.
LEMMA PanelTaken ==
  ASSUME NEW o \in Operation, NEW at, NEW bt, NEW s, NEW t, NEW e, NEW f, NEW a, Work(o, at, s, e, a), 0 \in PartsIn(o),
         \A j \in PartsIn(o) \ {0} : StaysAt(at, bt, s, t, j), o.kind = "split", at[0] = "swap", bt[0] = "claim",
         NEW which, TakesPanel(e, f, s[0], which)
  PROVE  Work(o, bt, t, f, Added(a, which)) /\ \A x \in DOMAIN a : Added(a, which)[x] \in {0, 1}
<1> USE DEF TakesPanel
<1> DEFINE b == Added(a, which)
           S == StripsPerPanel
<1>0. o.items \in Nat /\ S \in Nat /\ S > 0
  BY OperationFields, ExecBounds DEF JobType
<1>1. SplitWork(o, at, s, e, a) /\ DOMAIN a = 0 .. o.items * S - 1 /\ DOMAIN b = DOMAIN a
  BY ItemsAre DEF Work, Added
<1>2. \A x \in DOMAIN a : b[x] = a[x] + (IF x \in which THEN 1 ELSE 0)
  BY DEF Added
<1> HIDE DEF b
<1>3. PICK m \in Nat, n \in Nat : m = e.front * S /\ n = (e.front + 1) * S /\ n = m + S
  <2>1. e.front * S \in Nat /\ (e.front + 1) * S \in Nat /\ (e.front + 1) * S = e.front * S + S
    BY <1>0
  <2> QED BY <2>1
<1>4. m <= e.back /\ e.back <= o.items * S /\ e.front < o.items /\ n <= e.back
  BY <1>1, <1>3 DEF SplitWork
<1>5. o.items * S \in Nat /\ which = m .. n - 1 /\ f.front * S = n
  <2>1. o.items * S \in Nat
    BY <1>0
  <2>2. which = m .. n - 1
    BY <1>3
  <2>3. f.front * S = n
    BY <1>3
  <2> QED BY <2>1, <2>2, <2>3
<1> HIDE DEF S
<1>6. ASSUME NEW x \in DOMAIN a PROVE b[x] = IF x < f.front * StripsPerPanel \/ f.back <= x THEN 1 ELSE 0
  <2>1. x \in Nat
    BY <1>1, <1>5
  <2>2. a[x] = IF x < m \/ e.back <= x THEN 1 ELSE 0
    BY <1>1, <1>3 DEF SplitWork, S
  <2>3. x \in which <=> m <= x /\ x < n
    <3>1. which = m .. n - 1
      BY <1>5
    <3>2. x \in m .. n - 1 <=> m <= x /\ x < n
      BY <2>1
    <3> QED BY <3>1, <3>2
  <2>4. b[x] = IF x < n \/ e.back <= x THEN 1 ELSE 0
    <3>1. m <= n /\ n <= e.back
      BY <1>0, <1>3, <1>4
    <3>2. b[x] = a[x] + (IF x \in which THEN 1 ELSE 0)
      BY <1>2
    <3>3. b[x] = (IF x < m \/ e.back <= x THEN 1 ELSE 0) + (IF m <= x /\ x < n THEN 1 ELSE 0)
      BY <2>2, <2>3, <3>2
    <3> QED BY <2>1, <3>1, <3>3
  <2> QED BY <1>5, <2>4 DEF S
<1>7. ASSUME NEW j \in PartsIn(o)
      PROVE  /\ bt[j] \in {"todo", "claim", "swap", "through"}
             /\ bt[j] = "swap" => IF j = 0 THEN t[j].front < o.items /\ (t[j].front + 1) * StripsPerPanel <= t[j].back
                                  ELSE t[j].back > 0 /\ t[j].front * StripsPerPanel <= t[j].back - 1
             /\ bt[j] = "through" => IF j = 0 THEN o.items <= f.front \/ f.back < (f.front + 1) * StripsPerPanel
                                     ELSE f.back <= f.front * StripsPerPanel
  <2>1. CASE j = 0
    BY <2>1
  <2>2. CASE j # 0
    <3>1. at[j] = "through" => e.back <= m
      BY <1>1, <1>3, <2>2 DEF SplitWork, S
    <3>2. at[j] = "through" => f.back <= f.front * StripsPerPanel
      BY <1>0, <1>3, <1>5, <3>1, SMTT(30) DEF S
    <3> QED BY <1>1, <2>2, <3>2 DEF SplitWork, StaysAt
  <2> QED BY <2>1, <2>2
<1>8. SplitWork(o, bt, t, f, b)
  <2>1. f.front * StripsPerPanel <= f.back /\ f.back <= o.items * StripsPerPanel
    BY <1>4, <1>5 DEF S
  <2>2. PartsOf(o) = 1 => f.back = o.items * StripsPerPanel
    BY <1>1 DEF SplitWork
  <2> QED BY <1>1, <1>6, <1>7, <2>1, <2>2 DEF SplitWork, S
<1>9. Work(o, bt, t, f, b)
  BY <1>1, <1>8, ItemsAre DEF Work, S
<1>10. \A x \in DOMAIN a : b[x] \in {0, 1}
  BY <1>6
<1> QED BY <1>9, <1>10 DEF b

\* A worker takes the strip at the back.
LEMMA StripTaken ==
  ASSUME NEW o \in Operation, NEW at, NEW bt, NEW s, NEW t, NEW e, NEW f, NEW a, Work(o, at, s, e, a), NEW i \in PartsIn(o), ~Panels(i),
         \A j \in PartsIn(o) \ {i} : StaysAt(at, bt, s, t, j), o.kind = "split", at[i] = "swap", bt[i] = "claim",
         NEW which, TakesStrip(e, f, s[i], which)
  PROVE  Work(o, bt, t, f, Added(a, which))
<1> USE DEF TakesStrip, Panels
<1> DEFINE b == Added(a, which)
           S == StripsPerPanel
<1>0. o.items \in Nat /\ S \in Nat /\ S > 0
  BY OperationFields, ExecBounds DEF JobType
<1>1. SplitWork(o, at, s, e, a) /\ DOMAIN a = 0 .. o.items * S - 1 /\ DOMAIN b = DOMAIN a
  BY ItemsAre DEF Work, Added
<1>2. \A x \in DOMAIN a : b[x] = a[x] + (IF x = e.back - 1 THEN 1 ELSE 0)
  BY DEF Added
<1> HIDE DEF b
<1>3. PICK m \in Nat, n \in Nat : m = e.front * S /\ n = (e.front + 1) * S
  <2>1. e.front * S \in Nat /\ (e.front + 1) * S \in Nat
    BY <1>0
  <2> QED BY <2>1
<1>4. e.back <= o.items * S /\ e.back > 0 /\ m <= e.back - 1
  BY <1>1, <1>3 DEF SplitWork
<1>5. o.items * S \in Nat
  BY <1>0
<1> HIDE DEF S
<1>6. ASSUME NEW x \in DOMAIN a PROVE b[x] = IF x < f.front * StripsPerPanel \/ f.back <= x THEN 1 ELSE 0
  <2>1. x \in Nat
    BY <1>1, <1>5
  <2>2. a[x] = IF x < m \/ e.back <= x THEN 1 ELSE 0
    BY <1>1, <1>3 DEF SplitWork, S
  <2>3. b[x] = IF x < m \/ e.back - 1 <= x THEN 1 ELSE 0
    BY <1>2, <1>3, <1>4, <2>1, <2>2
  <2> QED BY <1>3, <2>3 DEF S
<1>7. ASSUME NEW j \in PartsIn(o)
      PROVE  /\ bt[j] \in {"todo", "claim", "swap", "through"}
             /\ bt[j] = "swap" => IF j = 0 THEN t[j].front < o.items /\ (t[j].front + 1) * StripsPerPanel <= t[j].back
                                  ELSE t[j].back > 0 /\ t[j].front * StripsPerPanel <= t[j].back - 1
             /\ bt[j] = "through" => IF j = 0 THEN o.items <= f.front \/ f.back < (f.front + 1) * StripsPerPanel
                                     ELSE f.back <= f.front * StripsPerPanel
  <2>1. CASE j = i
    BY <2>1
  <2>2. CASE j # i
    <3>1. at[j] = "through" => IF j = 0 THEN o.items <= e.front \/ e.back < n ELSE e.back <= m
      BY <1>1, <1>3, <2>2 DEF SplitWork, S
    <3>2. at[j] = "through" => IF j = 0 THEN o.items <= f.front \/ f.back < n ELSE f.back <= m
      BY <1>0, <1>3, <1>4, <3>1
    <3>3. at[j] = "through" => IF j = 0 THEN o.items <= f.front \/ f.back < (f.front + 1) * StripsPerPanel ELSE f.back <= f.front * StripsPerPanel
      BY <1>3, <3>2 DEF S
    <3> QED BY <1>1, <2>2, <3>3 DEF SplitWork, StaysAt
  <2> QED BY <2>1, <2>2
<1>8. SplitWork(o, bt, t, f, b)
  <2>1. f.front * StripsPerPanel <= f.back /\ f.back <= o.items * StripsPerPanel
    BY <1>3, <1>4, <1>5 DEF S
  <2>2. PartsOf(o) # 1
    <3>1. PartsOf(o) = 1 => PartsIn(o) = {0}
      BY DEF PartsIn
    <3> QED BY <3>1
  <2> QED BY <1>1, <1>6, <1>7, <2>1, <2>2 DEF SplitWork, S
<1>9. Work(o, bt, t, f, b)
  BY <1>1, <1>8, ItemsAre DEF Work, S
<1> QED BY <1>9 DEF b

\* A shard has written the phases it is in, arrives where it has written and
\* passes where it has arrived.
LEMMA PhasesFit ==
  ASSUME NEW o \in Operation, o.kind = "lockstep", NEW at, NEW s, NEW e, NEW a, Work(o, at, s, e, a), NEW j \in PartsIn(o), s[j].phase \in Nat
  PROVE  /\ Wrote(at, s, j) \in Nat /\ Arrived(at, s, j) \in Nat /\ Passed(at, s, j) \in Nat
         /\ Passed(at, s, j) <= Arrived(at, s, j) /\ Arrived(at, s, j) <= Wrote(at, s, j) /\ Arrived(at, s, j) <= Passed(at, s, j) + 1
         /\ Wrote(at, s, j) <= Phases
<1>1. /\ at[j] \in {"todo", "write", "arrive", "spin", "through"} /\ (at[j] = "write" => s[j].phase < Phases)
      /\ at[j] \in {"arrive", "spin"} => s[j].phase \in 1 .. Phases
  BY DEF Work, LockWork
<1> QED BY <1>1, ExecBounds DEF Wrote, Arrived, Passed

\* A shard writes a phase.
LEMMA PhaseWritten ==
  ASSUME NEW o \in Operation, NEW at, NEW bt, NEW s, NEW t, NEW e, NEW a, Work(o, at, s, e, a), NEW i \in PartsIn(o),
         \A j \in PartsIn(o) \ {i} : StaysAt(at, bt, s, t, j), \A j \in PartsIn(o) : s[j].phase \in Nat, o.kind = "lockstep",
         at[i] = "write", t[i].phase = s[i].phase + 1,
         bt[i] = IF PartsOf(o) > 1 THEN "arrive" ELSE IF s[i].phase + 1 = Phases THEN "through" ELSE "write",
         NEW x0, x0 = <<i, s[i].phase + 1>>
  PROVE  Work(o, bt, t, e, Added(a, {x0})) /\ \A x \in DOMAIN a : Added(a, {x0})[x] \in {0, 1}
<1> DEFINE b == Added(a, {x0})
           p == s[i].phase
<1>0. PartsOf(o) \in Int /\ 1 <= PartsOf(o) /\ PartsIn(o) = 0 .. PartsOf(o) - 1
  BY PartsBound DEF JobType, PartsIn
<1>1. LockWork(o, at, s, e, a) /\ DOMAIN a = PartsIn(o) \X (1 .. Phases) /\ DOMAIN b = DOMAIN a
  BY ItemsAre DEF Work, Added
<1>2. \A x \in DOMAIN a : b[x] = a[x] + (IF x = x0 THEN 1 ELSE 0)
  BY DEF Added
<1> HIDE DEF b
<1>3. p \in Nat /\ p < Phases
  BY <1>1 DEF LockWork
<1>4. Wrote(at, s, i) = p /\ Arrived(at, s, i) = p /\ Passed(at, s, i) = p
  BY DEF Wrote, Arrived, Passed
<1>5. Wrote(bt, t, i) = p + 1
  BY <1>3 DEF Wrote
<1>6. PartsOf(o) > 1 => Arrived(bt, t, i) = p /\ Passed(bt, t, i) = p
  BY <1>3 DEF Arrived, Passed
<1>7. ~(PartsOf(o) > 1) => Arrived(bt, t, i) = p + 1 /\ Passed(bt, t, i) = p + 1 /\ PartsIn(o) = {i}
  <2>1. ASSUME ~(PartsOf(o) > 1) PROVE PartsIn(o) = {i}
    <3>1. PartsOf(o) = 1
      BY <1>0, <2>1
    <3> QED BY <1>0, <3>1
  <2>2. ASSUME ~(PartsOf(o) > 1) PROVE bt[i] \in {"through", "write"}
    BY <2>2
  <2> QED BY <1>5, <2>1, <2>2 DEF Arrived, Passed
<1> HIDE DEF p
<1>8. \A j \in PartsIn(o) \ {i} : Wrote(bt, t, j) = Wrote(at, s, j) /\ Arrived(bt, t, j) = Arrived(at, s, j) /\ Passed(bt, t, j) = Passed(at, s, j)
  BY StaysCounts
<1>9. ASSUME NEW j \in PartsIn(o), NEW k \in 1 .. Phases PROVE b[<<j, k>>] = IF k <= Wrote(bt, t, j) THEN 1 ELSE 0
  <2>1. <<j, k>> \in DOMAIN a /\ a[<<j, k>>] = IF k <= Wrote(at, s, j) THEN 1 ELSE 0
    BY <1>1 DEF LockWork
  <2>2. b[<<j, k>>] = a[<<j, k>>] + (IF <<j, k>> = x0 THEN 1 ELSE 0)
    BY <1>2, <2>1
  <2>3. CASE j # i
    <3>1. <<j, k>> # x0
      BY <2>3
    <3> QED BY <1>8, <2>1, <2>2, <2>3, <3>1
  <2>4. CASE j = i
    <3>1. <<j, k>> = x0 <=> k = p + 1
      BY <2>4 DEF p
    <3>2. b[<<j, k>>] = (IF k <= p THEN 1 ELSE 0) + (IF k = p + 1 THEN 1 ELSE 0)
      BY <1>4, <2>1, <2>2, <2>4, <3>1
    <3>3. k \in Int
      BY ExecBounds
    <3> QED BY <1>3, <1>5, <2>4, <3>2, <3>3
  <2> QED BY <2>3, <2>4
<1>10. ASSUME NEW j \in PartsIn(o), NEW k \in PartsIn(o) PROVE Passed(bt, t, j) <= Arrived(bt, t, k)
  <2>1. CASE PartsOf(o) > 1
    <3>1. Passed(bt, t, j) = Passed(at, s, j) /\ Arrived(bt, t, k) = Arrived(at, s, k)
      BY <1>4, <1>6, <1>8, <2>1
    <3> QED BY <1>1, <3>1 DEF LockWork
  <2>2. CASE ~(PartsOf(o) > 1)
    <3>1. j = i /\ k = i
      BY <1>7, <2>2
    <3> QED BY <1>3, <1>7, <2>2, <3>1
  <2> QED BY <2>1, <2>2
<1>11. ASSUME PartsOf(o) > 1 PROVE e.arrive = Cardinality(Arrivals(o, bt, t))
  <2>1. \A j \in PartsIn(o) : Arrived(bt, t, j) = Arrived(at, s, j)
    BY <1>4, <1>6, <1>8, <1>11
  <2>2. Arrivals(o, bt, t) = Arrivals(o, at, s)
    BY <2>1 DEF Arrivals
  <2> QED BY <1>1, <1>11, <2>2 DEF LockWork
<1>12. ASSUME NEW j \in PartsIn(o)
       PROVE  /\ bt[j] \in {"todo", "write", "arrive", "spin", "through"} /\ (bt[j] = "write" => t[j].phase < Phases)
              /\ bt[j] \in {"arrive", "spin"} => t[j].phase \in 1 .. Phases /\ PartsOf(o) > 1
  <2>1. CASE j = i
    BY <1>3, <2>1, ExecBounds DEF p
  <2>2. CASE j # i
    BY <1>1, <2>2 DEF LockWork, StaysAt
  <2> QED BY <2>1, <2>2
<1>13. LockWork(o, bt, t, e, b)
  BY <1>9, <1>10, <1>11, <1>12 DEF LockWork
<1>14. Work(o, bt, t, e, b)
  BY <1>1, <1>13, ItemsAre DEF Work
<1>15. ASSUME NEW x \in DOMAIN a PROVE b[x] \in {0, 1}
  <2>1. PICK j \in PartsIn(o), k \in 1 .. Phases : x = <<j, k>>
    BY <1>1, <1>15
  <2> QED BY <1>9, <2>1
<1> QED BY <1>14, <1>15 DEF b

LEMMA ArrivalsFinite == ASSUME NEW o \in Operation, NEW at, NEW s PROVE IsFiniteSet(Arrivals(o, at, s))
<1>1. IsFiniteSet(PartsIn(o)) /\ IsFiniteSet(1 .. Phases)
  BY PartsBound, ExecBounds, FS_Interval DEF JobType, PartsIn
<1>2. IsFiniteSet(PartsIn(o) \X (1 .. Phases))
  BY <1>1, FS_Product
<1>3. Arrivals(o, at, s) \in SUBSET (PartsIn(o) \X (1 .. Phases))
  BY DEF Arrivals
<1> QED BY <1>2, <1>3, FS_Subset

\* A shard arrives at the barrier.
LEMMA BarrierReached ==
  ASSUME NEW o \in Operation, NEW at, NEW bt, NEW s, NEW t, NEW e, NEW f, NEW a, Work(o, at, s, e, a), NEW i \in PartsIn(o),
         \A j \in PartsIn(o) \ {i} : StaysAt(at, bt, s, t, j), \A j \in PartsIn(o) : s[j].phase \in Nat, o.kind = "lockstep",
         at[i] = "arrive", bt[i] = "spin", t[i].phase = s[i].phase, f.arrive = e.arrive + 1
  PROVE  Work(o, bt, t, f, a)
<1> DEFINE p == s[i].phase
<1>1. LockWork(o, at, s, e, a) /\ DOMAIN a = ItemsOf(o)
  BY DEF Work
<1>2. p \in 1 .. Phases /\ p \in Nat /\ p >= 1 /\ PartsOf(o) > 1
  BY <1>1, ExecBounds DEF LockWork
<1>3. /\ Wrote(bt, t, i) = p /\ Wrote(at, s, i) = p /\ Arrived(bt, t, i) = p /\ Arrived(at, s, i) = p - 1
      /\ Passed(bt, t, i) = p - 1 /\ Passed(at, s, i) = p - 1
  BY DEF Wrote, Arrived, Passed
<1> HIDE DEF p
<1>4. \A j \in PartsIn(o) \ {i} : Wrote(bt, t, j) = Wrote(at, s, j) /\ Arrived(bt, t, j) = Arrived(at, s, j) /\ Passed(bt, t, j) = Passed(at, s, j)
  BY StaysCounts
<1>5. \A j \in PartsIn(o) : Wrote(bt, t, j) = Wrote(at, s, j) /\ Passed(bt, t, j) = Passed(at, s, j)
  BY <1>3, <1>4
<1>6. ASSUME NEW j \in PartsIn(o), NEW k \in PartsIn(o) PROVE Passed(bt, t, j) <= Arrived(bt, t, k)
  <2>1. Passed(at, s, j) <= Arrived(at, s, k) /\ Passed(at, s, j) \in Nat
    BY <1>1, PhasesFit DEF LockWork
  <2>2. CASE k = i
    BY <1>2, <1>3, <1>5, <2>1, <2>2
  <2>3. CASE k # i
    BY <1>4, <1>5, <2>1, <2>3
  <2> QED BY <2>2, <2>3
<1>7. f.arrive = Cardinality(Arrivals(o, bt, t))
  <2>1. Arrivals(o, bt, t) = Arrivals(o, at, s) \cup {<<i, p>>}
    <3>1. ASSUME NEW j \in PartsIn(o), NEW k \in 1 .. Phases
          PROVE  <<j, k>> \in Arrivals(o, bt, t) <=> <<j, k>> \in Arrivals(o, at, s) \/ (j = i /\ k = p)
      <4>1. <<j, k>> \in Arrivals(o, bt, t) <=> k <= Arrived(bt, t, j)
        BY DEF Arrivals
      <4>2. <<j, k>> \in Arrivals(o, at, s) <=> k <= Arrived(at, s, j)
        BY DEF Arrivals
      <4>3. k \in Int
        BY ExecBounds
      <4>4. CASE j = i
        BY <1>2, <1>3, <4>1, <4>2, <4>3, <4>4
      <4>5. CASE j # i
        BY <1>4, <4>1, <4>2, <4>5
      <4> QED BY <4>4, <4>5
    <3>2. \A x \in PartsIn(o) \X (1 .. Phases) : \E j \in PartsIn(o), k \in 1 .. Phases : x = <<j, k>>
      OBVIOUS
    <3>3. Arrivals(o, bt, t) \subseteq PartsIn(o) \X (1 .. Phases) /\ Arrivals(o, at, s) \subseteq PartsIn(o) \X (1 .. Phases)
      BY DEF Arrivals
    <3>4. <<i, p>> \in PartsIn(o) \X (1 .. Phases)
      BY <1>2
    <3>5. \A x \in PartsIn(o) \X (1 .. Phases) : x \in Arrivals(o, bt, t) <=> x \in Arrivals(o, at, s) \/ x = <<i, p>>
      BY <3>1, <3>2
    <3> QED BY <3>3, <3>4, <3>5
  <2>2. <<i, p>> \notin Arrivals(o, at, s)
    BY <1>2, <1>3 DEF Arrivals
  <2>3. e.arrive = Cardinality(Arrivals(o, at, s))
    BY <1>1, <1>2 DEF LockWork
  <2> QED BY <2>1, <2>2, <2>3, ArrivalsFinite, FS_AddElement
<1>8. ASSUME NEW j \in PartsIn(o)
      PROVE  /\ bt[j] \in {"todo", "write", "arrive", "spin", "through"} /\ (bt[j] = "write" => t[j].phase < Phases)
             /\ bt[j] \in {"arrive", "spin"} => t[j].phase \in 1 .. Phases /\ PartsOf(o) > 1
             /\ \A k \in 1 .. Phases : a[<<j, k>>] = IF k <= Wrote(bt, t, j) THEN 1 ELSE 0
  <2>1. \A k \in 1 .. Phases : a[<<j, k>>] = IF k <= Wrote(bt, t, j) THEN 1 ELSE 0
    BY <1>1, <1>5 DEF LockWork
  <2>2. CASE j = i
    BY <1>2, <2>1, <2>2 DEF p
  <2>3. CASE j # i
    BY <1>1, <2>1, <2>3 DEF LockWork, StaysAt
  <2> QED BY <2>2, <2>3
<1>9. LockWork(o, bt, t, f, a)
  BY <1>6, <1>7, <1>8 DEF LockWork
<1> QED BY <1>1, <1>9 DEF Work

\* The barrier opens when every shard has arrived at it: whoever counted
\* enough arrivals counted one of each, as nobody is two phases ahead.
LEMMA BarrierOpens ==
  ASSUME NEW o \in Operation, NEW at, NEW s, NEW e, NEW a, Work(o, at, s, e, a), NEW i \in PartsIn(o),
         \A j \in PartsIn(o) : s[j].phase \in Nat, o.kind = "lockstep", at[i] = "spin", e.arrive >= s[i].phase * PartsOf(o)
  PROVE  \A j \in PartsIn(o) : s[i].phase <= Arrived(at, s, j)
<1> DEFINE p == s[i].phase
<1>1. LockWork(o, at, s, e, a)
  BY DEF Work
<1>2. p \in 1 .. Phases /\ p \in Nat /\ p >= 1 /\ p <= Phases /\ PartsOf(o) > 1 /\ PartsOf(o) \in Nat /\ e.arrive = Cardinality(Arrivals(o, at, s))
  BY <1>1, ExecBounds, PartsBound DEF LockWork, JobType
<1>3. \A j \in PartsIn(o) : Arrived(at, s, j) \in Nat /\ Passed(at, s, j) \in Nat /\ Arrived(at, s, j) <= Passed(at, s, j) + 1
  BY PhasesFit
<1> HIDE DEF p
<1>4. CASE \E k \in PartsIn(o) : Passed(at, s, k) >= p
  <2>1. PICK k \in PartsIn(o) : Passed(at, s, k) >= p
    BY <1>4
  <2> QED BY <1>1, <1>2, <1>3, <2>1 DEF LockWork, p
<1>5. CASE \A k \in PartsIn(o) : ~(Passed(at, s, k) >= p)
  <2> DEFINE All == PartsIn(o) \X (1 .. p)
  <2>1. \A j \in PartsIn(o) : Arrived(at, s, j) <= p
    BY <1>2, <1>3, <1>5
  <2>2. Arrivals(o, at, s) \in SUBSET All
    <3>1. ASSUME NEW j \in PartsIn(o), NEW k \in 1 .. Phases, <<j, k>> \in Arrivals(o, at, s) PROVE <<j, k>> \in All
      <4>1. k <= Arrived(at, s, j) /\ Arrived(at, s, j) \in Nat /\ Arrived(at, s, j) <= p /\ k \in Nat /\ k >= 1
        BY <1>3, <2>1, <3>1, ExecBounds DEF Arrivals
      <4>2. k \in 1 .. p
        BY <1>2, <4>1
      <4> QED BY <4>2
    <3>2. Arrivals(o, at, s) \subseteq PartsIn(o) \X (1 .. Phases)
      BY DEF Arrivals
    <3> QED BY <3>1, <3>2
  <2>3. IsFiniteSet(All) /\ Cardinality(All) = PartsOf(o) * p
    <3>1. IsFiniteSet(PartsIn(o)) /\ Cardinality(PartsIn(o)) = PartsOf(o) /\ IsFiniteSet(1 .. p) /\ Cardinality(1 .. p) = p
      BY <1>2, FS_Interval DEF PartsIn
    <3>2. Cardinality(All) = Cardinality(PartsIn(o)) * Cardinality(1 .. p) /\ IsFiniteSet(All)
      BY <3>1, FS_Product, Zenon
    <3> QED BY <3>1, <3>2
  <2>4. Cardinality(Arrivals(o, at, s)) \in Nat
    BY ArrivalsFinite, FS_CardinalityType
  <2>5. Cardinality(Arrivals(o, at, s)) >= PartsOf(o) * p
    <3>1. p * PartsOf(o) = PartsOf(o) * p
      BY <1>2
    <3> QED BY <1>2, <3>1 DEF p
  <2>6. PartsOf(o) * p \in Nat
    BY <1>2
  <2> HIDE DEF All
  <2>7. Cardinality(All) = Cardinality(Arrivals(o, at, s))
    <3>1. Cardinality(Arrivals(o, at, s)) <= Cardinality(All)
      BY <2>2, <2>3, FS_Subset
    <3> QED BY <2>3, <2>4, <2>5, <2>6, <3>1
  <2>8. All = Arrivals(o, at, s)
    BY <2>2, <2>3, <2>7, FS_Subset
  <2>9. ASSUME NEW j \in PartsIn(o) PROVE p <= Arrived(at, s, j)
    <3>1. <<j, p>> \in All
      BY <1>2 DEF All
    <3> QED BY <2>8, <3>1 DEF Arrivals
  <2> QED BY <2>9 DEF p
<1> QED BY <1>4, <1>5

\* A shard passes the barrier.
LEMMA BarrierPassed ==
  ASSUME NEW o \in Operation, NEW at, NEW bt, NEW s, NEW t, NEW e, NEW a, Work(o, at, s, e, a), NEW i \in PartsIn(o),
         \A j \in PartsIn(o) \ {i} : StaysAt(at, bt, s, t, j), \A j \in PartsIn(o) : s[j].phase \in Nat, o.kind = "lockstep",
         at[i] = "spin", t[i].phase = s[i].phase, e.arrive >= s[i].phase * PartsOf(o), bt[i] = IF s[i].phase = Phases THEN "through" ELSE "write"
  PROVE  Work(o, bt, t, e, a)
<1> DEFINE p == s[i].phase
<1>1. LockWork(o, at, s, e, a) /\ DOMAIN a = ItemsOf(o)
  BY DEF Work
<1>2. p \in 1 .. Phases /\ p \in Nat /\ p <= Phases /\ PartsOf(o) > 1
  BY <1>1, ExecBounds DEF LockWork
<1>3. /\ Wrote(bt, t, i) = p /\ Wrote(at, s, i) = p /\ Arrived(bt, t, i) = p /\ Arrived(at, s, i) = p /\ Passed(bt, t, i) = p
  BY DEF Wrote, Arrived, Passed
<1>4. \A j \in PartsIn(o) : p <= Arrived(at, s, j)
  BY BarrierOpens
<1> HIDE DEF p
<1>5. \A j \in PartsIn(o) \ {i} : Wrote(bt, t, j) = Wrote(at, s, j) /\ Arrived(bt, t, j) = Arrived(at, s, j) /\ Passed(bt, t, j) = Passed(at, s, j)
  BY StaysCounts
<1>6. \A j \in PartsIn(o) : Wrote(bt, t, j) = Wrote(at, s, j) /\ Arrived(bt, t, j) = Arrived(at, s, j)
  BY <1>3, <1>5
<1>7. ASSUME NEW j \in PartsIn(o), NEW k \in PartsIn(o) PROVE Passed(bt, t, j) <= Arrived(bt, t, k)
  <2>1. CASE j = i
    BY <1>3, <1>4, <1>6, <2>1
  <2>2. CASE j # i
    BY <1>1, <1>5, <1>6, <2>2 DEF LockWork
  <2> QED BY <2>1, <2>2
<1>8. Arrivals(o, bt, t) = Arrivals(o, at, s)
  BY <1>6 DEF Arrivals
<1>9. ASSUME NEW j \in PartsIn(o)
      PROVE  /\ bt[j] \in {"todo", "write", "arrive", "spin", "through"} /\ (bt[j] = "write" => t[j].phase < Phases)
             /\ bt[j] \in {"arrive", "spin"} => t[j].phase \in 1 .. Phases /\ PartsOf(o) > 1
             /\ \A k \in 1 .. Phases : a[<<j, k>>] = IF k <= Wrote(bt, t, j) THEN 1 ELSE 0
  <2>1. \A k \in 1 .. Phases : a[<<j, k>>] = IF k <= Wrote(bt, t, j) THEN 1 ELSE 0
    BY <1>1, <1>6 DEF LockWork
  <2>2. CASE j = i
    BY <1>2, <2>1, <2>2, ExecBounds DEF p
  <2>3. CASE j # i
    BY <1>1, <2>1, <2>3 DEF LockWork, StaysAt
  <2> QED BY <2>2, <2>3
<1>10. LockWork(o, bt, t, e, a)
  BY <1>1, <1>7, <1>8, <1>9 DEF LockWork
<1> QED BY <1>1, <1>10 DEF Work

\* Nothing is computed when an operation begins.
LEMMA WorkBegins ==
  ASSUME NEW o \in Operation, NEW at, NEW s, NEW e, NEW a, a = [x \in ItemsOf(o) |-> 0], \A j \in PartsIn(o) : at[j] = "todo",
         e.next = 0, e.front = 0, e.back = o.items * StripsPerPanel, e.arrive = 0
  PROVE  Work(o, at, s, e, a)
<1>0. o \in JobType /\ o.items \in Nat /\ StripsPerPanel \in Nat /\ o.items * StripsPerPanel \in Nat
  BY OperationFields, ExecBounds DEF JobType
<1>1. DOMAIN a = ItemsOf(o) /\ \A x \in ItemsOf(o) : a[x] = 0
  OBVIOUS
<1>2. ASSUME o.kind \in {"rows", "mul"} PROVE RowsWork(o, at, a)
  <2>1. \A j \in PartsIn(o) : RangeOf(o, j) \subseteq ItemsOf(o)
    BY <1>0, <1>2, ItemsAre, RangesIn
  <2> QED BY <1>1, <2>1 DEF RowsWork
<1>3. ASSUME o.kind = "claims" PROVE ClaimsWork(o, at, s, e, a)
  <2>1. \A x \in 0 .. o.items - 1 : a[x] = 0 /\ ~(x < e.next)
    BY <1>0, <1>1, <1>3, ItemsAre
  <2> QED BY <2>1 DEF ClaimsWork
<1>4. ASSUME o.kind = "split" PROVE SplitWork(o, at, s, e, a)
  <2>1. e.front * StripsPerPanel = 0
    BY <1>0
  <2>2. \A x \in 0 .. o.items * StripsPerPanel - 1 : a[x] = 0 /\ ~(x < 0) /\ ~(e.back <= x)
    BY <1>0, <1>1, <1>4, ItemsAre
  <2> QED BY <1>0, <2>1, <2>2 DEF SplitWork
<1>5. ASSUME o.kind = "lockstep" PROVE LockWork(o, at, s, e, a)
  <2>1. \A j \in PartsIn(o) : Wrote(at, s, j) = 0 /\ Arrived(at, s, j) = 0 /\ Passed(at, s, j) = 0
    BY DEF Wrote, Arrived, Passed
  <2>2. \A j \in PartsIn(o), k \in 1 .. Phases : a[<<j, k>>] = 0 /\ ~(k <= 0)
    BY <1>1, <1>5, ItemsAre, ExecBounds
  <2>3. Arrivals(o, at, s) = {}
    <3>1. \A x \in PartsIn(o) \X (1 .. Phases) : x[1] \in PartsIn(o) /\ ~(x[2] <= 0)
      BY ExecBounds
    <3> QED BY <2>1, <3>1 DEF Arrivals
  <2> QED BY <2>1, <2>2, <2>3, FS_EmptySet DEF LockWork
<1> QED BY <1>1, <1>2, <1>3, <1>4, <1>5 DEF Work

\* All is computed when every shard is through.
LEMMA WorkEnds ==
  ASSUME NEW o \in Operation, NEW at, NEW s, NEW e, NEW a, Work(o, at, s, e, a), \A j \in PartsIn(o) : at[j] = "through",
         e.front \in Nat, e.back \in Nat, e.next \in Nat
  PROVE  \A x \in DOMAIN a : a[x] = 1
<1>0. /\ o \in JobType /\ o.items \in Nat /\ StripsPerPanel \in Nat /\ StripsPerPanel > 0 /\ 0 \in PartsIn(o) /\ DOMAIN a = ItemsOf(o)
      /\ o.kind \in {"rows", "mul", "claims", "split", "lockstep"} /\ PartsOf(o) \in Nat /\ PartsOf(o) >= 1
  BY OperationFields, ExecBounds, PartsBound DEF JobType, PartsIn, Work
<1>1. CASE o.kind \in {"rows", "mul"}
  <2>1. DOMAIN a = 0 .. o.rows - 1 /\ RowsWork(o, at, a)
    BY <1>0, <1>1, ItemsAre DEF Work
  <2>2. ASSUME NEW x \in 0 .. o.rows - 1 PROVE a[x] = 1
    <3>1. PICK j \in PartsIn(o) : x \in RangeOf(o, j)
      BY <1>0, Ranges
    <3> QED BY <2>1, <3>1 DEF RowsWork
  <2> QED BY <2>1, <2>2
<1>2. CASE o.kind = "claims"
  <2>1. \A x : ~InHand(o, at, s, x)
    BY DEF InHand
  <2>2. o.items <= e.next
    BY <1>0, <1>2 DEF Work, ClaimsWork
  <2>3. ASSUME NEW x \in 0 .. o.items - 1 PROVE a[x] = 1
    <3>1. x < e.next
      BY <1>0, <2>2
    <3> QED BY <1>2, <2>1, <3>1 DEF Work, ClaimsWork
  <2> QED BY <1>0, <1>2, <2>3, ItemsAre
<1>3. CASE o.kind = "split"
  <2>1. SplitWork(o, at, s, e, a)
    BY <1>3 DEF Work
  <2>2. e.front * StripsPerPanel \in Nat /\ o.items * StripsPerPanel \in Nat
    BY <1>0
  <2>3. o.items * StripsPerPanel <= e.front * StripsPerPanel \/ e.back <= e.front * StripsPerPanel
    <3>1. CASE PartsOf(o) = 1
      <4>1. (o.items <= e.front \/ e.back < (e.front + 1) * StripsPerPanel) /\ e.back = o.items * StripsPerPanel
        BY <1>0, <2>1, <3>1 DEF SplitWork
      <4>2. ASSUME ~(o.items <= e.front) PROVE FALSE
        <5>1. e.front + 1 \in Nat /\ e.front + 1 <= o.items
          BY <1>0, <4>2
        <5>2. (e.front + 1) * StripsPerPanel <= o.items * StripsPerPanel /\ (e.front + 1) * StripsPerPanel \in Nat
          BY <1>0, <5>1, Times
        <5> QED BY <2>2, <4>1, <4>2, <5>2
      <4> QED BY <1>0, <4>2, Times
    <3>2. CASE PartsOf(o) # 1
      <4>1. 1 \in PartsIn(o)
        BY <1>0, <3>2 DEF PartsIn
      <4> QED BY <2>1, <4>1 DEF SplitWork
    <3> QED BY <3>1, <3>2
  <2>4. ASSUME NEW x \in 0 .. o.items * StripsPerPanel - 1 PROVE a[x] = 1
    <3>1. x < e.front * StripsPerPanel \/ e.back <= x
      BY <2>2, <2>3
    <3> QED BY <2>1, <3>1 DEF SplitWork
  <2> QED BY <1>0, <1>3, <2>4, ItemsAre
<1>4. CASE o.kind = "lockstep"
  <2>1. \A j \in PartsIn(o) : Wrote(at, s, j) = Phases
    BY DEF Wrote
  <2>2. ASSUME NEW j \in PartsIn(o), NEW k \in 1 .. Phases PROVE a[<<j, k>>] = 1
    <3>1. k <= Phases
      BY ExecBounds
    <3> QED BY <1>4, <2>1, <3>1 DEF Work, LockWork
  <2> QED BY <1>0, <1>4, <2>2, ItemsAre
<1> QED BY <1>0, <1>1, <1>2, <1>3, <1>4

-----------------------------------------------------------------------------
(* The caller and the workers.                                             *)

LEMMA Zero == 0 \in Shard /\ \A o \in JobType : PartsIn(o) \subseteq Shard
<1>1. 0 \in Shard
  BY ExecBounds DEF Shard
<1>2. ASSUME NEW o \in JobType, NEW j \in PartsIn(o) PROVE j \in Shard
  BY ExecBounds, PartsBound DEF PartsIn, Shard
<1> QED BY <1>1, <1>2

\* What a free or stopping executor is like.
LEMMA AtRest ==
  ASSUME ExecInv, ~Busy
  PROVE  \A i \in Shard : shards[i].pc \in {"idle", "exit"} /\ (i # 0 => shards[i].gen = shards[i].prev)
BY DEF ExecInv, ShardInv, Active

\* Who holds mu.
LEMMA HolderIs ==
  ASSUME ExecInv, NEW u \in ExecUser, users[u].pc \in {"tell", "shard", "wait"}
  PROVE  exec.mu = u /\ Busy /\ Told = users[u].told /\ u # "free"
<1>1. exec.mu = u /\ u # "free"
  BY ExecBounds DEF ExecInv, CallerInv
<1> QED BY <1>1 DEF Busy, Told

\* A goroutine outside an operation calls or returns at once.
LEMMA CallerAway ==
  ASSUME ExecInv, UNCHANGED <<exec, shards, applied>>, NEW u \in ExecUser, users[u].pc \in {"idle", "lock"}, NEW r \in UserType,
         users' = [users EXCEPT ![u] = r], r.pc \in {"idle", "lock"}, r.pc = "lock" => r.op \in Operation /\ r.told = 0, execCalls' \in 0 .. MaxExecCalls
  PROVE  ExecInv'
<1>1. ExecTypes /\ CallerInv /\ ShardInv /\ CountInv /\ WorkInv /\ users \in [ExecUser -> UserType]
  BY DEF ExecInv, ExecTypes
<1>2. users'[u] = r /\ \A w \in ExecUser : w # u => users'[w] = users[w]
  BY <1>1
<1>3. exec.mu # u
  BY <1>1 DEF CallerInv
<1>4. exec.mu \in ExecUser \cup {"free"}
  BY <1>1 DEF ExecTypes, ExecType
<1>5. exec.mu # "free" => users'[exec.mu] = users[exec.mu]
  BY <1>2, <1>3, <1>4
<1>6. ExecTypes'
  <2>1. users' \in [ExecUser -> UserType]
    BY <1>1
  <2> QED BY <1>1, <2>1 DEF ExecTypes
<1>7. Busy' <=> Busy
  BY <1>5 DEF Busy
<1>8. Busy => users'[exec.mu] = users[exec.mu]
  BY <1>5 DEF Busy
<1>9. CallerInv'
  <2>1. \A w \in ExecUser : users'[w].pc \in {"tell", "shard", "wait", "stopping"} <=> exec.mu = w
    BY <1>1, <1>2, <1>3 DEF CallerInv
  <2>2. \A w \in ExecUser : users'[w].pc = "lock" => users'[w].op \in Operation /\ users'[w].told = 0
    BY <1>1, <1>2 DEF CallerInv
  <2> QED BY <1>1, <1>7, <1>8, <2>1, <2>2 DEF CallerInv, Told, Parts
<1>10. ShardInv'
  BY <1>1, <1>7, <1>8 DEF ShardInv, Active, Parts, Told
<1>11. CountInv'
  BY <1>1, <1>7, <1>8 DEF CountInv, Unfinished, Parts, Told, Active
<1>12. WorkInv'
  BY <1>1, <1>7, <1>8 DEF WorkInv, Places
<1> QED BY <1>6, <1>9, <1>10, <1>11, <1>12 DEF ExecInv

\* A caller takes mu and begins.
LEMMA CallerBegins ==
  ASSUME ExecInv, NEW u \in ExecUser, Enter(u), ~(exec.closed \/ users[u].op.rows = 0)
  PROVE  ExecInv'
<1> DEFINE o == users[u].op
           n == PartsOf(o)
<1>1. ExecTypes /\ CallerInv /\ ShardInv /\ exec \in ExecType /\ users \in [ExecUser -> UserType] /\ shards \in [Shard -> ShardType]
  BY DEF ExecInv, ExecTypes
<1>2. /\ exec.mu = "free" /\ users[u].pc = "lock" /\ UNCHANGED <<shards, execCalls>> /\ users' = [users EXCEPT ![u].pc = "tell"]
      /\ applied' = [x \in ItemsOf(o) |-> 0] /\ ~exec.closed
      /\ exec' = [exec EXCEPT !.mu = u, !.job = o, !.arena = Arena(o).arena, !.size = Arena(o).size, !.pending = n - 1,
                              !.next = 0, !.front = 0, !.back = o.items * StripsPerPanel, !.arrive = 0]
  BY DEF Enter, UserAt, UserTo, Pending
<1>3. ~Busy /\ u # "free"
  BY <1>2, ExecBounds DEF Busy
<1>4. o \in Operation /\ users[u].told = 0 /\ o \in JobType
  BY <1>1, <1>2 DEF CallerInv, JobType
<1>5. users'[u].pc = "tell" /\ users'[u].told = 0 /\ users'[u].op = o /\ \A w \in ExecUser : w # u => users'[w] = users[w]
  BY <1>1, <1>2, <1>4 DEF UserType
<1>6. /\ exec'.mu = u /\ exec'.job = o /\ exec'.pending = n - 1 /\ exec'.next = 0 /\ exec'.front = 0 /\ exec'.back = o.items * StripsPerPanel /\ exec'.arrive = 0
      /\ exec'.closed = exec.closed /\ exec'.stop = exec.stop
  BY <1>1, <1>2 DEF ExecType
<1>7. n \in Int /\ 1 <= n /\ n <= ExecWorkers
  BY <1>4, PartsBound
<1> HIDE DEF o, n
<1>8. ExecTypes'
  <2>1. n - 1 \in 0 .. ExecWorkers - 1
    BY <1>7, ExecBounds
  <2>2. o.items * StripsPerPanel \in Nat
    BY <1>4, OperationFields, ExecBounds, Times
  <2>3. Arena(o).arena \in Int /\ Arena(o).size \in Nat
    BY <1>1, <1>4, OperationFields DEF Arena, ExecType
  <2>4. exec' \in ExecType
    BY <1>1, <1>2, <1>4, <2>1, <2>2, <2>3 DEF ExecType
  <2>5. users' \in [ExecUser -> UserType]
    BY <1>1, <1>2 DEF UserType
  <2>6. \A x \in DOMAIN applied' : applied'[x] \in {0, 1}
    BY <1>2
  <2> QED BY <1>1, <1>2, <2>4, <2>5, <2>6 DEF ExecTypes
<1>9. Busy' /\ Told' = 0 /\ Parts' = n
  BY <1>3, <1>5, <1>6 DEF Busy, Told, Parts, n
<1>10. CallerInv'
  <2>1. \A w \in ExecUser : users'[w].pc \in {"tell", "shard", "wait", "stopping"} <=> exec'.mu = w
    BY <1>1, <1>2, <1>3, <1>5, <1>6, ExecBounds DEF CallerInv
  <2>2. \A w \in ExecUser : users'[w].pc = "lock" => users'[w].op \in Operation /\ users'[w].told = 0
    BY <1>1, <1>5 DEF CallerInv
  <2>3. exec'.stop => exec'.closed
    BY <1>1, <1>6 DEF CallerInv
  <2>4. Told' \in 0 .. Parts' - 1
    BY <1>7, <1>9
  <2>5. users'[exec'.mu].pc = "tell"
    BY <1>5, <1>6
  <2> QED BY <1>2, <1>4, <1>6, <1>9, <2>1, <2>2, <2>3, <2>4, <2>5 DEF CallerInv
<1>11. \A i \in Shard : shards'[i] = shards[i] /\ shards[i].pc \in {"idle", "exit"} /\ (i # 0 => shards[i].gen = shards[i].prev)
  BY <1>2, <1>3, AtRest
<1>12. ShardInv'
  <2>1. \A i \in Shard : shards'[i].pc = "exit" => exec'.stop /\ i # 0
    BY <1>1, <1>6, <1>11 DEF ShardInv
  <2>2. users'[exec'.mu].pc # "shard"
    BY <1>5, <1>6
  <2> QED BY <1>11, <2>1, <2>2, Zero DEF ShardInv, Active
<1>13. CountInv'
  <2>1. Unfinished' = 1 .. n - 1
    BY <1>7, <1>9 DEF Unfinished
  <2>2. Cardinality(1 .. n - 1) = n - 1
    BY <1>7, FS_Interval
  <2> QED BY <1>6, <2>1, <2>2 DEF CountInv
<1>14. WorkInv'
  <2>1. users'[exec'.mu].pc = "tell" /\ users'[exec'.mu].told = 0
    BY <1>5, <1>6
  <2>2. ASSUME NEW j \in PartsIn(o) PROVE Places'[j] = "todo"
    <3>1. j \in Shard
      BY <1>4, Zero
    <3>2. j # 0 => ~(j <= 0)
      BY <1>7 DEF PartsIn, n
    <3>3. Places'[j] = PlaceOf(j, shards'[j], "tell", 0)
      BY <2>1, <3>1 DEF Places
    <3> QED BY <1>11, <3>1, <3>2, <3>3 DEF PlaceOf, ThroughOf
  <2>3. Work(o, Places', shards', exec', applied')
    BY <1>2, <1>4, <1>6, <2>2, WorkBegins
  <2> QED BY <1>6, <2>3 DEF WorkInv
<1> QED BY <1>8, <1>10, <1>12, <1>13, <1>14 DEF ExecInv

\* Callers come and go while the executor rests.
LEMMA RestGoesOn ==
  ASSUME ExecInv, NEW u \in ExecUser, UNCHANGED <<shards, applied, execCalls>>, \/ CloseExec(u) \/ Stopped(u)
  PROVE  ExecInv'
<1>1. ExecTypes /\ CallerInv /\ ShardInv /\ exec \in ExecType /\ users \in [ExecUser -> UserType]
  BY DEF ExecInv, ExecTypes
<1>2. /\ exec.mu \in {u, "free"} /\ users[u].pc \in {"idle", "stopping"} /\ users'[u].pc \in {"idle", "stopping"}
      /\ \A w \in ExecUser : w # u => users'[w] = users[w]
      /\ users' \in [ExecUser -> UserType]
      /\ users'[u].pc = "stopping" <=> exec'.mu = u
      /\ exec'.mu \in {u, "free"}
  <2>1. CASE CloseExec(u)
    BY <1>1, <2>1, ExecBounds DEF CloseExec, UserAt, UserTo, UserType, ExecType
  <2>2. CASE Stopped(u)
    <3>1. exec.mu = u
      BY <1>1, <2>2 DEF Stopped, UserAt, CallerInv
    <3> QED BY <1>1, <2>2, <3>1, ExecBounds DEF Stopped, UserAt, UserTo, UserType, ExecType
  <2> QED BY <2>1, <2>2
<1>3. /\ exec' \in ExecType /\ exec'.job = exec.job /\ (exec.stop => exec'.stop) /\ (exec'.stop => exec'.closed)
  <2>1. CASE CloseExec(u)
    BY <1>1, <2>1 DEF CloseExec, ExecType
  <2>2. CASE Stopped(u)
    <3>1. -1 \in Int /\ "free" \in ExecUser \cup {"free"}
      OBVIOUS
    <3> QED BY <1>1, <2>2, <3>1 DEF Stopped, ExecType, CallerInv
  <2> QED BY <2>1, <2>2
<1>4. ~Busy /\ ~Busy'
  BY <1>2 DEF Busy
<1>5. ExecTypes'
  BY <1>1, <1>2, <1>3 DEF ExecTypes
<1>6. CallerInv'
  <2>1. \A w \in ExecUser : users'[w].pc \in {"tell", "shard", "wait", "stopping"} <=> exec'.mu = w
    BY <1>1, <1>2, ExecBounds DEF CallerInv
  <2>2. \A w \in ExecUser : users'[w].pc = "lock" => users'[w].op \in Operation /\ users'[w].told = 0
    BY <1>1, <1>2 DEF CallerInv
  <2> QED BY <1>1, <1>3, <1>4, <2>1, <2>2 DEF CallerInv
<1>7. \A i \in Shard : /\ shards'[i].pc \in {"idle", "exit"} /\ (i # 0 => shards'[i].gen = shards'[i].prev)
                       /\ (shards'[i].pc = "exit" => exec'.stop /\ i # 0)
  BY <1>1, <1>3, <1>4, AtRest DEF ShardInv
<1>8. ShardInv'
  BY <1>4, <1>7, Zero DEF ShardInv, Active
<1> QED BY <1>4, <1>5, <1>6, <1>8 DEF ExecInv, CountInv, WorkInv

\* A caller tells the next worker of its generation.
LEMMA WorkerTold ==
  ASSUME ExecInv, NEW u \in ExecUser, Tell(u), users[u].told < Parts - 1
  PROVE  ExecInv'
<1> DEFINE n == users[u].told
           k == n + 1
<1>1. ExecTypes /\ CallerInv /\ ShardInv /\ CountInv /\ WorkInv /\ exec \in ExecType /\ users \in [ExecUser -> UserType] /\ shards \in [Shard -> ShardType]
  BY DEF ExecInv, ExecTypes
<1>2. users[u].pc = "tell" /\ users' = [users EXCEPT ![u].told = k] /\ shards' = [shards EXCEPT ![k].gen = @ + 1] /\ UNCHANGED <<exec, applied, execCalls>>
  BY DEF Tell, UserAt, Parts
<1>3. exec.mu = u /\ Busy /\ Told = n /\ u # "free"
  BY <1>2, HolderIs
<1>4. exec.job \in Operation /\ exec.job \in JobType /\ ~exec.closed
  BY <1>1, <1>3 DEF CallerInv, JobType
<1>5. n \in Nat /\ k \in Nat /\ k < Parts /\ k # 0 /\ k \in Shard /\ Parts \in Int /\ Parts <= ExecWorkers
  BY <1>1, <1>4, PartsBound, ExecBounds DEF UserType, Parts, Shard
<1> HIDE DEF n, k
<1>6. shards[k].pc = "idle" /\ shards[k].gen = shards[k].prev /\ shards[k].gen \in Nat
  <2>1. ~(k <= Told)
    BY <1>3, <1>5 DEF k
  <2>2. shards[k] \in ShardType
    BY <1>1, <1>5
  <2> QED BY <1>1, <1>4, <1>5, <2>1, <2>2 DEF ShardInv, CallerInv, Active, ShardType
<1>7. /\ shards'[k].gen # shards'[k].prev /\ shards'[k].pc = "idle"
      /\ \A j \in Shard : /\ j # k => shards'[j] = shards[j]
                          /\ shards'[j].pc = shards[j].pc /\ shards'[j].item = shards[j].item /\ shards'[j].front = shards[j].front
                          /\ shards'[j].back = shards[j].back /\ shards'[j].phase = shards[j].phase /\ shards'[j].arena = shards[j].arena
  BY <1>1, <1>2, <1>5, <1>6 DEF ShardType
<1>8. users'[u].pc = "tell" /\ users'[u].told = k /\ \A w \in ExecUser : w # u => users'[w] = users[w]
  BY <1>1, <1>2 DEF UserType
<1>9. ExecTypes'
  <2>1. users' \in [ExecUser -> UserType]
    BY <1>1, <1>2, <1>5 DEF UserType
  <2>2. shards[k].gen + 1 \in Nat
    BY <1>6
  <2>3. shards' \in [Shard -> ShardType]
    BY <1>1, <1>2, <1>5, <2>2 DEF ShardType
  <2> QED BY <1>1, <1>2, <2>1, <2>3 DEF ExecTypes
<1>10. Busy' /\ Told' = k /\ Parts' = Parts /\ users'[exec'.mu].pc = "tell" /\ users[exec.mu].pc = "tell"
  BY <1>2, <1>3, <1>8 DEF Busy, Told, Parts
<1>11. CallerInv'
  <2>1. \A w \in ExecUser : users'[w].pc \in {"tell", "shard", "wait", "stopping"} <=> exec'.mu = w
    BY <1>1, <1>2, <1>3, <1>8 DEF CallerInv
  <2>2. \A w \in ExecUser : users'[w].pc = "lock" => users'[w].op \in Operation /\ users'[w].told = 0
    BY <1>1, <1>8 DEF CallerInv
  <2>3. k \in 0 .. Parts - 1
    BY <1>5
  <2> QED BY <1>1, <1>2, <1>4, <1>10, <2>1, <2>2, <2>3 DEF CallerInv
<1>12. \A j \in Shard : j # k /\ j # 0 => (j <= Told' <=> j <= Told)
  BY <1>3, <1>5, <1>10 DEF Shard, k
<1>13. ShardInv'
  <2>1. \A i \in Shard : Active(i)' <=> Active(i)
    BY <1>7 DEF Active
  <2>2. \A i \in Shard : Active(i)' => Busy' /\ i < Parts' /\ shards'[i].arena = exec'.arena
    BY <1>1, <1>2, <1>7, <1>10, <2>1 DEF ShardInv
  <2>3. ~Active(k)
    BY <1>6 DEF Active
  <2>4. \A i \in Shard \ {0} : Active(i)' => i <= Told' /\ shards'[i].gen = shards'[i].prev
    BY <1>1, <1>7, <1>12, <2>1, <2>3 DEF ShardInv
  <2>5. \A i \in Shard \ {0} : shards'[i].gen # shards'[i].prev => Busy' /\ i <= Told'
    <3>1. k <= Told'
      BY <1>5, <1>10
    <3> QED BY <1>1, <1>7, <1>10, <1>12, <3>1 DEF ShardInv
  <2>6. Active(0)' <=> Busy' /\ users'[exec'.mu].pc = "shard"
    BY <1>1, <1>10, <2>1, Zero DEF ShardInv
  <2>7. \A i \in Shard : shards'[i].pc = "exit" => exec'.stop /\ i # 0
    BY <1>1, <1>2, <1>7 DEF ShardInv
  <2> QED BY <2>2, <2>4, <2>5, <2>6, <2>7 DEF ShardInv
<1>14. CountInv'
  <2>1. ASSUME NEW i \in 1 .. Parts - 1
        PROVE  (i > Told \/ shards[i].gen # shards[i].prev \/ Active(i)) <=> (i > Told' \/ shards'[i].gen # shards'[i].prev \/ Active(i)')
    <3>1. i \in Shard /\ i # 0 /\ i \in Nat
      BY <1>5, ExecBounds DEF Shard
    <3>2. CASE i = k
      BY <1>3, <1>5, <1>7, <3>2 DEF k
    <3>3. CASE i # k
      <4>1. i > Told <=> i > Told'
        BY <1>3, <1>5, <1>10, <3>1, <3>3 DEF k
      <4> QED BY <1>7, <3>1, <3>3, <4>1 DEF Active
    <3> QED BY <3>2, <3>3
  <2>2. Unfinished' = Unfinished
    BY <1>10, <2>1 DEF Unfinished
  <2> QED BY <1>1, <1>2, <1>3, <2>2 DEF CountInv
<1>15. WorkInv'
  <2>1. ASSUME NEW j \in PartsIn(exec.job) PROVE StaysAt(Places, Places', shards, shards', j)
    <3>1. j \in Shard
      BY <1>4, Zero
    <3>2. Places[j] = PlaceOf(j, shards[j], "tell", Told) /\ Places'[j] = PlaceOf(j, shards'[j], "tell", Told')
      BY <1>10, <3>1 DEF Places, Told
    <3>3. CASE j = k
      <4>1. ~(k <= Told)
        BY <1>3, <1>5 DEF k
      <4> QED BY <1>5, <1>6, <1>7, <3>1, <3>2, <3>3, <4>1 DEF PlaceOf, ThroughOf, StaysAt
    <3>4. CASE j # k
      BY <1>7, <1>12, <3>1, <3>2, <3>4 DEF PlaceOf, ThroughOf, StaysAt
    <3> QED BY <3>3, <3>4
  <2>2. SameCounters(exec, exec')
    BY <1>2 DEF SameCounters
  <2>3. Work(exec.job, Places, shards, exec, applied)
    BY <1>1, <1>3 DEF WorkInv
  <2>4. Work(exec.job, Places', shards', exec', applied)
    BY <1>4, <2>1, <2>2, <2>3, WorkStays
  <2> QED BY <1>2, <2>4 DEF WorkInv
<1> QED BY <1>9, <1>11, <1>13, <1>14, <1>15 DEF ExecInv

\* A worker that was told has its part to do, and so has a shard at work.
LEMMA HasPart ==
  ASSUME ExecInv, NEW i \in Shard, Active(i) \/ (i # 0 /\ shards[i].gen # shards[i].prev)
  PROVE  /\ Busy /\ exec.mu \in ExecUser /\ exec.mu # "free" /\ exec.job \in Operation /\ exec.job \in JobType /\ ~exec.closed /\ ~exec.stop
         /\ i \in PartsIn(exec.job) /\ (i # 0 => i <= Told) /\ (~Active(i) => shards[i].pc = "idle") /\ (i = 0 => users[exec.mu].pc = "shard")
         /\ Work(exec.job, Places, shards, exec, applied)
<1>1. ExecTypes /\ CallerInv /\ ShardInv /\ WorkInv /\ exec \in ExecType
  BY DEF ExecInv, ExecTypes
<1>2. Busy /\ (i # 0 => i <= Told)
  BY <1>1 DEF ShardInv
<1>3. exec.mu \in ExecUser /\ exec.mu # "free" /\ exec.job \in Operation /\ ~exec.closed /\ ~exec.stop /\ Told \in 0 .. Parts - 1
  BY <1>1, <1>2, ExecBounds DEF CallerInv, Busy, ExecType
<1>4. exec.job \in JobType
  BY <1>3 DEF JobType
<1>5. i \in PartsIn(exec.job)
  BY <1>2, <1>3, <1>4, PartsBound DEF PartsIn, Parts, Shard
<1>6. ~Active(i) => shards[i].pc = "idle"
  BY <1>1, <1>3 DEF ShardInv, Active
<1>7. i = 0 => users[exec.mu].pc = "shard"
  BY <1>1 DEF ShardInv
<1> QED BY <1>1, <1>2, <1>3, <1>4, <1>5, <1>6, <1>7 DEF WorkInv

\* The places after a step of shard i.
LEMMA MovesPlaces ==
  ASSUME ExecInv, NEW i \in Shard, Active(i) \/ (i # 0 /\ shards[i].gen # shards[i].prev),
         NEW r \in ShardType, shards' = [shards EXCEPT ![i] = r], r.pc \notin {"idle", "exit"}, users' = users, exec'.mu = exec.mu
  PROVE  /\ \A j \in PartsIn(exec.job) \ {i} : StaysAt(Places, Places', shards, shards', j)
         /\ shards'[i] = r /\ shards[i] \in ShardType /\ Places'[i] = IF r.pc = "finish" THEN "through" ELSE r.pc
         /\ Active(i) => Places[i] = IF shards[i].pc = "finish" THEN "through" ELSE shards[i].pc
         /\ ~Active(i) => Places[i] = "todo"
         /\ \A j \in PartsIn(exec.job) : shards[j].item \in Nat /\ shards[j].phase \in Nat
<1>1. shards \in [Shard -> ShardType]
  BY DEF ExecInv, ExecTypes
<1>2. shards'[i] = r /\ shards[i] \in ShardType /\ \A j \in Shard : j # i => shards'[j] = shards[j]
  BY <1>1
<1>3. /\ exec.job \in JobType /\ (~Active(i) => shards[i].pc = "idle") /\ (i = 0 => users[exec.mu].pc = "shard")
  BY HasPart
<1>4. \A j \in Shard : /\ Places[j] = PlaceOf(j, shards[j], users[exec.mu].pc, users[exec.mu].told)
                       /\ Places'[j] = PlaceOf(j, shards'[j], users[exec.mu].pc, users[exec.mu].told)
  BY DEF Places
<1>5. \A j \in PartsIn(exec.job) \ {i} : StaysAt(Places, Places', shards, shards', j)
  BY <1>2, <1>3, <1>4, Zero DEF StaysAt
<1>6. Places'[i] = IF r.pc = "finish" THEN "through" ELSE r.pc
  BY <1>2, <1>3, <1>4 DEF PlaceOf, ThroughOf
<1>7. Active(i) => Places[i] = IF shards[i].pc = "finish" THEN "through" ELSE shards[i].pc
  BY <1>3, <1>4 DEF PlaceOf, ThroughOf, Active
<1>8. ~Active(i) => Places[i] = "todo"
  BY <1>3, <1>4 DEF PlaceOf, ThroughOf, Active
<1>9. \A j \in PartsIn(exec.job) : shards[j].item \in Nat /\ shards[j].phase \in Nat
  <2> SUFFICES ASSUME NEW j \in PartsIn(exec.job) PROVE shards[j].item \in Nat /\ shards[j].phase \in Nat
    OBVIOUS
  <2>1. shards[j] \in ShardType
    BY <1>1, <1>3, Zero
  <2> QED BY <2>1 DEF ShardType
<1> QED BY <1>2, <1>5, <1>6, <1>7, <1>8, <1>9

\* A shard takes a step in its operation.
LEMMA ShardMoves ==
  ASSUME ExecInv, NEW i \in Shard, Active(i) \/ (i # 0 /\ shards[i].gen # shards[i].prev),
         NEW r \in ShardType, shards' = [shards EXCEPT ![i] = r], r.pc \notin {"idle", "exit"}, i # 0 => r.gen = r.prev, r.arena = exec.arena,
         UNCHANGED <<users, execCalls>>, exec' \in ExecType, exec'.mu = exec.mu, exec'.closed = exec.closed, exec'.stop = exec.stop,
         exec'.pending = exec.pending, exec'.job = exec.job, exec'.arena = exec.arena, \A x \in DOMAIN applied' : applied'[x] \in {0, 1},
         Work(exec.job, Places', shards', exec', applied')
  PROVE  ExecInv'
<1>1. ExecTypes /\ CallerInv /\ ShardInv /\ CountInv /\ WorkInv /\ shards \in [Shard -> ShardType]
  BY DEF ExecInv, ExecTypes
<1>2. shards'[i] = r /\ \A j \in Shard : j # i => shards'[j] = shards[j]
  BY <1>1
<1>3. Busy /\ i \in PartsIn(exec.job) /\ (i # 0 => i <= Told) /\ (i = 0 => users[exec.mu].pc = "shard") /\ exec.job \in JobType
  BY HasPart
<1>4. Busy' /\ Told' = Told /\ Parts' = Parts
  BY <1>3 DEF Busy, Told, Parts
<1>5. ExecTypes'
  BY <1>1 DEF ExecTypes
<1>6. CallerInv'
  BY <1>1, <1>3, <1>4 DEF CallerInv
<1>7. Active(i)' /\ \A j \in Shard : j # i => (Active(j)' <=> Active(j))
  BY <1>2 DEF Active
<1>8. ShardInv'
  <2>1. \A j \in Shard : Active(j)' => Busy' /\ j < Parts' /\ shards'[j].arena = exec'.arena
    <3>1. i < Parts
      BY <1>3, PartsBound DEF PartsIn, Parts
    <3> QED BY <1>1, <1>2, <1>4, <1>7, <3>1 DEF ShardInv
  <2>2. \A j \in Shard \ {0} : Active(j)' => j <= Told' /\ shards'[j].gen = shards'[j].prev
    BY <1>1, <1>2, <1>3, <1>4, <1>7 DEF ShardInv
  <2>3. \A j \in Shard \ {0} : shards'[j].gen # shards'[j].prev => Busy' /\ j <= Told'
    BY <1>1, <1>2, <1>3, <1>4 DEF ShardInv
  <2>4. Active(0)' <=> Busy' /\ users'[exec'.mu].pc = "shard"
    BY <1>1, <1>3, <1>4, <1>7, Zero DEF ShardInv
  <2>5. \A j \in Shard : shards'[j].pc = "exit" => exec'.stop /\ j # 0
    BY <1>1, <1>2 DEF ShardInv
  <2> QED BY <2>1, <2>2, <2>3, <2>4, <2>5 DEF ShardInv
<1>9. CountInv'
  <2>1. \A j \in 1 .. Parts - 1 : j \in Shard
    BY <1>3, PartsBound, ExecBounds DEF Parts, Shard
  <2>2. \A j \in 1 .. Parts - 1 : (j > Told \/ shards[j].gen # shards[j].prev \/ Active(j)) <=> (j > Told' \/ shards'[j].gen # shards'[j].prev \/ Active(j)')
    BY <1>2, <1>4, <1>7, <2>1
  <2>3. Unfinished' = Unfinished
    BY <1>4, <2>2 DEF Unfinished
  <2> QED BY <1>1, <1>3, <2>3 DEF CountInv
<1>10. WorkInv'
  BY DEF WorkInv
<1> QED BY <1>5, <1>6, <1>8, <1>9, <1>10 DEF ExecInv

-----------------------------------------------------------------------------
(* The steps of the shards.                                                *)

\* A step of shard i in state r, with its fields.
LEMMA ShardFields ==
  ASSUME ExecInv, NEW i \in Shard
  PROVE  /\ shards \in [Shard -> ShardType] /\ shards[i] \in ShardType /\ exec \in ExecType
         /\ shards[i].gen \in Nat /\ shards[i].item \in Nat /\ shards[i].front \in Nat /\ shards[i].back \in Nat /\ shards[i].phase \in Nat
         /\ exec.next \in Nat /\ exec.front \in Nat /\ exec.back \in Nat /\ exec.arrive \in Nat /\ exec.arena \in Int /\ exec.pending \in Nat
         /\ \A x \in DOMAIN applied : applied[x] \in {0, 1}
         /\ Active(i) => shards[i].arena = exec.arena /\ (i # 0 => shards[i].gen = shards[i].prev)
<1>1. shards \in [Shard -> ShardType] /\ exec \in ExecType /\ \A x \in DOMAIN applied : applied[x] \in {0, 1}
  BY DEF ExecInv, ExecTypes
<1>2. shards[i] \in ShardType
  BY <1>1
<1>3. shards[i].gen \in Nat /\ shards[i].item \in Nat /\ shards[i].front \in Nat /\ shards[i].back \in Nat /\ shards[i].phase \in Nat
  BY <1>2 DEF ShardType
<1>4. exec.next \in Nat /\ exec.front \in Nat /\ exec.back \in Nat /\ exec.arrive \in Nat /\ exec.arena \in Int /\ exec.pending \in Nat
  BY <1>1, ExecBounds DEF ExecType
<1>5. Active(i) => shards[i].arena = exec.arena /\ (i # 0 => shards[i].gen = shards[i].prev)
  BY DEF ExecInv, ShardInv
<1> QED BY <1>1, <1>2, <1>3, <1>4, <1>5

\* A worker sees its generation.
LEMMA WorkerBegins ==
  ASSUME ExecInv, NEW i \in Shard, i # 0, shards[i].pc = "idle", shards[i].gen # shards[i].prev,
         shards' = [shards EXCEPT ![i] = [Started(i) EXCEPT !.prev = shards[i].gen]], UNCHANGED <<exec, users, applied, execCalls>>
  PROVE  ExecInv'
<1> DEFINE r == [Started(i) EXCEPT !.prev = shards[i].gen]
<1>1. StartPc(exec.job) \in {"claim", "write", "apply"}
  BY DEF StartPc
<1>2. /\ r \in ShardType /\ r.pc = StartPc(exec.job) /\ r.phase = 0 /\ r.arena = exec.arena /\ r.gen = r.prev
  <2>1. 0 \in Nat
    OBVIOUS
  <2> QED BY <1>1, <2>1, ShardFields DEF Started, ShardType, ShardPcs
<1> HIDE DEF r
<1>3. shards' = [shards EXCEPT ![i] = r] /\ r.pc \notin {"idle", "exit", "finish"}
  BY <1>1, <1>2 DEF r
<1>4. exec.job \in Operation /\ i \in PartsIn(exec.job) /\ Work(exec.job, Places, shards, exec, applied)
  BY HasPart
<1>5. ~Active(i)
  BY DEF Active
<1>6. /\ \A j \in PartsIn(exec.job) \ {i} : StaysAt(Places, Places', shards, shards', j)
      /\ Places[i] = "todo" /\ Places'[i] = r.pc /\ shards'[i].phase = 0
  <2>1. /\ \A j \in PartsIn(exec.job) \ {i} : StaysAt(Places, Places', shards, shards', j)
        /\ shards'[i] = r /\ Places'[i] = (IF r.pc = "finish" THEN "through" ELSE r.pc)
        /\ ~Active(i) => Places[i] = "todo"
    <3>1. r \in ShardType /\ r.pc \notin {"idle", "exit"} /\ users' = users /\ exec'.mu = exec.mu
      BY <1>2, <1>3
    <3>2. Active(i) \/ (i # 0 /\ shards[i].gen # shards[i].prev)
      OBVIOUS
    <3>3. shards' = [shards EXCEPT ![i] = r]
      BY <1>3
    <3> QED BY <3>1, <3>2, <3>3, MovesPlaces
  <2> QED BY <1>2, <1>3, <1>5, <2>1
<1>7. Work(exec.job, Places', shards', exec, applied)
  BY <1>2, <1>4, <1>6, WorkStarts
<1> QED BY <1>2, <1>3, <1>7, ShardMoves, ShardFields

\* A shard computes its range or its item.
LEMMA ApplyHolds ==
  ASSUME ExecInv, NEW i \in Shard, Apply(i)
  PROVE  ExecInv'
<1> DEFINE o == exec.job
           r == [shards[i] EXCEPT !.pc = IF o.kind = "claims" THEN "claim" ELSE "finish"]
           which == IF o.kind = "claims" THEN {shards[i].item} ELSE RangeOf(o, i)
<1>1. /\ shards[i].pc = "apply" /\ applied' = Added(applied, which) /\ UNCHANGED <<exec, users, execCalls>> /\ shards' = [shards EXCEPT ![i] = r]
  BY DEF Apply, ShardAt, To, Plus, Added
<1>2. Active(i)
  BY <1>1 DEF Active
<1>3. /\ r \in ShardType /\ r.pc = (IF o.kind = "claims" THEN "claim" ELSE "finish") /\ r.arena = exec.arena /\ (i # 0 => r.gen = r.prev)
  BY <1>2, ShardFields DEF ShardType, ShardPcs
<1> HIDE DEF r, which
<1>4. o \in Operation /\ o \in JobType /\ i \in PartsIn(o) /\ Work(o, Places, shards, exec, applied)
  BY <1>2, HasPart
<1>5. /\ \A j \in PartsIn(o) \ {i} : StaysAt(Places, Places', shards, shards', j)
      /\ Places[i] = "apply" /\ Places'[i] = (IF o.kind = "claims" THEN "claim" ELSE "through")
  BY <1>1, <1>2, <1>3, MovesPlaces
<1>6. o.kind \in {"rows", "mul", "claims"}
  <2>1. o.kind \in {"rows", "mul", "claims", "split", "lockstep"}
    BY <1>4, OperationFields
  <2> QED BY <1>4, <1>5, <2>1 DEF Work, SplitWork, LockWork
<1> HIDE DEF o
<1>7. Work(o, Places', shards', exec, applied') /\ \A x \in DOMAIN applied : applied'[x] \in {0, 1}
  <2>1. CASE o.kind = "claims"
    <3>1. applied' = Added(applied, {shards[i].item})
      BY <1>1, <2>1 DEF which
    <3>2. Places'[i] = "claim"
      BY <1>5, <2>1
    <3> QED BY <1>4, <1>5, <2>1, <3>1, <3>2, ItemApplied, SMTT(30)
  <2>2. CASE o.kind \in {"rows", "mul"}
    <3>1. applied' = Added(applied, RangeOf(o, i)) /\ Places'[i] = "through"
      BY <1>1, <1>5, <2>2 DEF which
    <3> QED BY <1>4, <1>5, <2>2, <3>1, RowsApplied
  <2> QED BY <1>6, <2>1, <2>2
<1>8. \A x \in DOMAIN applied' : applied'[x] \in {0, 1}
  BY <1>1, <1>7 DEF Added
<1>9. r.pc \notin {"idle", "exit"}
  BY <1>3
<1>10. exec' \in ExecType
  BY <1>1, ShardFields
<1> QED BY <1>1, <1>2, <1>3, <1>7, <1>8, <1>9, <1>10, ShardMoves DEF o

\* A shard takes the counter.
LEMMA ClaimItemHolds ==
  ASSUME ExecInv, NEW i \in Shard, ClaimItem(i)
  PROVE  ExecInv'
<1> DEFINE o == exec.job
           pc == IF exec.next >= o.items THEN "finish" ELSE "apply"
           r == [shards[i] EXCEPT !.item = exec.next, !.pc = pc]
<1>1. /\ shards[i].pc = "claim" /\ o.kind = "claims" /\ exec' = [exec EXCEPT !.next = exec.next + 1] /\ UNCHANGED <<users, applied, execCalls>>
      /\ shards' = [shards EXCEPT ![i] = r]
  BY ShardFields DEF ClaimItem, ShardAt
<1>2. Active(i)
  BY <1>1 DEF Active
<1>3. /\ r \in ShardType /\ r.pc = pc /\ r.item = exec.next /\ r.arena = exec.arena /\ (i # 0 => r.gen = r.prev)
  BY <1>2, ShardFields DEF ShardType, ShardPcs
<1>4. pc \notin {"idle", "exit"}
  OBVIOUS
<1> HIDE DEF r
<1>5. /\ exec' \in ExecType /\ exec'.next = exec.next + 1 /\ exec'.mu = exec.mu /\ exec'.closed = exec.closed /\ exec'.stop = exec.stop
      /\ exec'.pending = exec.pending /\ exec'.job = exec.job /\ exec'.arena = exec.arena
  BY <1>1, ShardFields DEF ExecType
<1>6. o \in Operation /\ i \in PartsIn(o) /\ Work(o, Places, shards, exec, applied)
  BY <1>2, HasPart
<1>7. /\ \A j \in PartsIn(o) \ {i} : StaysAt(Places, Places', shards, shards', j)
      /\ Places[i] = "claim" /\ shards'[i].item = exec.next /\ \A j \in PartsIn(o) : shards[j].item \in Nat
      /\ Places'[i] = IF exec.next >= o.items THEN "through" ELSE "apply"
  BY <1>1, <1>2, <1>3, <1>5, MovesPlaces
<1>8. Work(o, Places', shards', exec', applied)
  BY <1>1, <1>5, <1>6, <1>7, ItemClaimed, ShardFields
<1> QED BY <1>1, <1>2, <1>3, <1>4, <1>5, <1>8, ShardMoves, ShardFields

\* A shard looks at both ends.
LEMMA LoadClaimsHolds ==
  ASSUME ExecInv, NEW i \in Shard, LoadClaims(i)
  PROVE  ExecInv'
<1> DEFINE o == exec.job
           pc == IF NothingLeft(i, exec.front, exec.back) THEN "finish" ELSE "swap"
           r == [shards[i] EXCEPT !.front = exec.front, !.back = exec.back, !.pc = pc]
<1>1. /\ shards[i].pc = "claim" /\ o.kind = "split" /\ UNCHANGED <<exec, users, applied, execCalls>> /\ shards' = [shards EXCEPT ![i] = r]
  BY ShardFields DEF LoadClaims, ShardAt
<1>2. Active(i)
  BY <1>1 DEF Active
<1>3. /\ r \in ShardType /\ r.pc = pc /\ r.front = exec.front /\ r.back = exec.back /\ r.arena = exec.arena /\ (i # 0 => r.gen = r.prev)
  BY <1>2, ShardFields DEF ShardType, ShardPcs
<1>4. pc \in {"finish", "swap"}
  OBVIOUS
<1> HIDE DEF r
<1>5. o \in Operation /\ o \in JobType /\ i \in PartsIn(o) /\ Work(o, Places, shards, exec, applied)
  BY <1>2, HasPart
<1>6. o.items \in Nat /\ exec.front \in Nat /\ exec.back \in Nat
  BY <1>5, OperationFields, ShardFields
<1>7. exec.front * StripsPerPanel \in Nat /\ (exec.front + 1) * StripsPerPanel \in Nat
  BY <1>6, Times, ExecBounds
<1>8. /\ \A j \in PartsIn(o) \ {i} : StaysAt(Places, Places', shards, shards', j)
      /\ shards'[i].front = exec.front /\ shards'[i].back = exec.back
      /\ Places'[i] = IF NothingLeft(i, exec.front, exec.back) THEN "through" ELSE "swap"
  <2>1. /\ \A j \in PartsIn(o) \ {i} : StaysAt(Places, Places', shards, shards', j)
        /\ shards'[i] = r /\ Places'[i] = (IF r.pc = "finish" THEN "through" ELSE r.pc)
    <3>1. r.pc \notin {"idle", "exit"} /\ users' = users /\ exec'.mu = exec.mu
      BY <1>1, <1>3, <1>4
    <3> QED BY <1>1, <1>2, <1>3, <3>1, MovesPlaces
  <2> QED BY <1>3, <2>1
<1>9. Places'[i] = "swap" => IF i = 0 THEN shards'[i].front < o.items /\ (shards'[i].front + 1) * StripsPerPanel <= shards'[i].back
                             ELSE shards'[i].back > 0 /\ shards'[i].front * StripsPerPanel <= shards'[i].back - 1
  BY <1>6, <1>7, <1>8 DEF NothingLeft, Panels
<1>10. Places'[i] = "through" => IF i = 0 THEN o.items <= exec.front \/ exec.back < (exec.front + 1) * StripsPerPanel ELSE exec.back <= exec.front * StripsPerPanel
  BY <1>6, <1>7, <1>8 DEF NothingLeft, Panels
<1>11. Work(o, Places', shards', exec, applied)
  BY <1>1, <1>5, <1>8, <1>9, <1>10, ClaimsLooked
<1>12. r.pc \notin {"idle", "exit"}
  BY <1>3, <1>4
<1> QED BY <1>1, <1>2, <1>3, <1>11, <1>12, ShardMoves, ShardFields

\* A shard takes what it looked at, or finds that another was faster.
LEMMA SwapClaimsHolds ==
  ASSUME ExecInv, NEW i \in Shard, SwapClaims(i)
  PROVE  ExecInv'
<1> DEFINE o == exec.job
           r == [shards[i] EXCEPT !.pc = "claim"]
           f == exec.front
           b == exec.back
<1>1. shards[i].pc = "swap" /\ UNCHANGED <<users, execCalls>> /\ shards' = [shards EXCEPT ![i] = r]
  BY DEF SwapClaims, ShardAt, To
<1>2. Active(i)
  BY <1>1 DEF Active
<1>3. /\ r \in ShardType /\ r.pc = "claim" /\ r.arena = exec.arena /\ (i # 0 => r.gen = r.prev)
  BY <1>2, ShardFields DEF ShardType, ShardPcs
<1> HIDE DEF r
<1>4. o \in Operation /\ o \in JobType /\ i \in PartsIn(o) /\ Work(o, Places, shards, exec, applied)
  BY <1>2, HasPart
<1>5. Places[i] = "swap"
  BY <1>1, <1>2, HasPart DEF Places, PlaceOf, ThroughOf
<1>6. o.kind = "split"
  <2>1. o.kind \in {"rows", "mul", "claims", "split", "lockstep"}
    BY <1>4, OperationFields
  <2> QED BY <1>4, <1>5, <2>1 DEF Work, RowsWork, ClaimsWork, LockWork
<1>7. f \in Nat /\ b \in Nat /\ exec \in ExecType /\ \A x \in DOMAIN applied : applied[x] \in {0, 1}
  BY ShardFields
<1>8. CASE ~Swaps(i)
  <2>1. UNCHANGED <<exec, applied>>
    BY <1>8 DEF SwapClaims
  <2>2. (\A j \in PartsIn(o) \ {i} : StaysAt(Places, Places', shards, shards', j)) /\ Places'[i] = "claim"
    BY <1>1, <1>2, <1>3, <2>1, MovesPlaces
  <2>3. Work(o, Places', shards', exec, applied)
    BY <1>4, <1>6, <2>2, ClaimsLooked
  <2> QED BY <1>1, <1>2, <1>3, <1>7, <2>1, <2>3, ShardMoves
<1>9. CASE Swaps(i) /\ i = 0
  <2> DEFINE which == f * StripsPerPanel .. (f + 1) * StripsPerPanel - 1
  <2>1. exec' = [exec EXCEPT !.front = f + 1] /\ applied' = Added(applied, which) /\ shards[0].front = f /\ shards[0].back = b
    BY <1>9 DEF SwapClaims, Swaps, Panels, Plus, Added
  <2>2. f + 1 \in Nat
    BY <1>7
  <2>3. /\ exec' \in ExecType /\ exec'.front = f + 1 /\ exec'.back = b /\ exec'.mu = exec.mu /\ exec'.closed = exec.closed /\ exec'.stop = exec.stop
        /\ exec'.pending = exec.pending /\ exec'.job = exec.job /\ exec'.arena = exec.arena
    BY <1>7, <2>1, <2>2 DEF ExecType
  <2>4. (\A j \in PartsIn(o) \ {0} : StaysAt(Places, Places', shards, shards', j)) /\ Places'[0] = "claim"
    BY <1>1, <1>2, <1>3, <1>9, <2>3, MovesPlaces
  <2> HIDE DEF which
  <2>5. Work(o, Places', shards', exec', Added(applied, which)) /\ \A x \in DOMAIN applied : Added(applied, which)[x] \in {0, 1}
    <3>1. 0 \in PartsIn(o) /\ Places[0] = "swap"
      BY <1>4, <1>5, <1>9
    <3>2. TakesPanel(exec, exec', shards[0], which)
      BY <1>7, <2>1, <2>3 DEF TakesPanel, which
    <3> HIDE DEF o
    <3> QED BY <1>4, <1>6, <2>4, <3>1, <3>2, PanelTaken
  <2>6. \A x \in DOMAIN applied' : applied'[x] \in {0, 1}
    BY <2>1, <2>5 DEF Added
  <2> QED BY <1>1, <1>2, <1>3, <2>1, <2>3, <2>5, <2>6, ShardMoves
<1>10. CASE Swaps(i) /\ i # 0
  <2> DEFINE which == {b - 1}
  <2>1. exec' = [exec EXCEPT !.back = b - 1] /\ applied' = Added(applied, which) /\ shards[i].front = f /\ shards[i].back = b
    BY <1>10 DEF SwapClaims, Swaps, Panels, Plus, Added
  <2>2. b - 1 \in Nat
    BY <1>4, <1>5, <1>6, <1>7, <1>10, <2>1 DEF Work, SplitWork
  <2>3. /\ exec' \in ExecType /\ exec'.front = f /\ exec'.back = b - 1 /\ exec'.mu = exec.mu /\ exec'.closed = exec.closed /\ exec'.stop = exec.stop
        /\ exec'.pending = exec.pending /\ exec'.job = exec.job /\ exec'.arena = exec.arena
    BY <1>7, <2>1, <2>2 DEF ExecType
  <2>4. (\A j \in PartsIn(o) \ {i} : StaysAt(Places, Places', shards, shards', j)) /\ Places'[i] = "claim"
    BY <1>1, <1>2, <1>3, <2>3, MovesPlaces
  <2> HIDE DEF which
  <2>5. Work(o, Places', shards', exec', Added(applied, which)) /\ \A x \in DOMAIN Added(applied, which) : Added(applied, which)[x] \in {0, 1}
    <3>1. ~Panels(i) /\ TakesStrip(exec, exec', shards[i], which)
      BY <1>7, <1>10, <2>1, <2>3 DEF TakesStrip, which, Panels
    <3> HIDE DEF o
    <3>2. Work(o, Places', shards', exec', Added(applied, which))
      BY <1>4, <1>5, <1>6, <2>4, <3>1, StripTaken
    <3>3. \A x \in DOMAIN Added(applied, which) : Added(applied, which)[x] \in {0, 1}
      BY <1>6, <3>2, ItemsAre DEF Work, SplitWork
    <3> QED BY <3>2, <3>3
  <2>6. \A x \in DOMAIN applied' : applied'[x] \in {0, 1}
    BY <2>1, <2>5
  <2> QED BY <1>1, <1>2, <1>3, <2>1, <2>3, <2>5, <2>6, ShardMoves
<1> QED BY <1>8, <1>9, <1>10

\* A shard writes a phase.
LEMMA WritePhaseHolds ==
  ASSUME ExecInv, NEW i \in Shard, WritePhase(i)
  PROVE  ExecInv'
<1> DEFINE o == exec.job
           k == shards[i].phase + 1
           pc == IF PartsOf(o) > 1 THEN "arrive" ELSE IF k = Phases THEN "finish" ELSE "write"
           r == [shards[i] EXCEPT !.phase = k, !.pc = pc]
           x0 == <<i, k>>
<1>1. /\ shards[i].pc = "write" /\ applied' = Added(applied, {x0}) /\ UNCHANGED <<exec, users, execCalls>> /\ shards' = [shards EXCEPT ![i] = r]
  BY ShardFields DEF WritePhase, ShardAt, Plus, Added
<1>2. Active(i)
  BY <1>1 DEF Active
<1>3. k \in Nat /\ pc \in {"arrive", "finish", "write"}
  BY ShardFields
<1>4. /\ r \in ShardType /\ r.pc = pc /\ r.phase = k /\ r.arena = exec.arena /\ (i # 0 => r.gen = r.prev)
  BY <1>2, <1>3, ShardFields DEF ShardType, ShardPcs
<1>5. r.pc \notin {"idle", "exit"}
  BY <1>3, <1>4
<1> HIDE DEF r
<1>6. o \in Operation /\ o \in JobType /\ i \in PartsIn(o) /\ Work(o, Places, shards, exec, applied)
  BY <1>2, HasPart
<1>7. /\ \A j \in PartsIn(o) \ {i} : StaysAt(Places, Places', shards, shards', j)
      /\ Places[i] = "write" /\ shards'[i].phase = k /\ \A j \in PartsIn(o) : shards[j].phase \in Nat
      /\ Places'[i] = IF PartsOf(o) > 1 THEN "arrive" ELSE IF k = Phases THEN "through" ELSE "write"
  BY <1>1, <1>2, <1>4, <1>5, MovesPlaces
<1>8. o.kind = "lockstep"
  <2>1. o.kind \in {"rows", "mul", "claims", "split", "lockstep"}
    BY <1>6, OperationFields
  <2> QED BY <1>6, <1>7, <2>1 DEF Work, RowsWork, ClaimsWork, SplitWork
<1>9. Work(o, Places', shards', exec, Added(applied, {x0})) /\ \A x \in DOMAIN applied : Added(applied, {x0})[x] \in {0, 1}
  BY <1>6, <1>7, <1>8, PhaseWritten, ZenonT(40)
<1>10. \A x \in DOMAIN applied' : applied'[x] \in {0, 1}
  BY <1>1, <1>9 DEF Added
<1> QED BY <1>1, <1>2, <1>4, <1>5, <1>9, <1>10, ShardMoves, ShardFields

\* A shard arrives at the barrier.
LEMMA ArriveHolds ==
  ASSUME ExecInv, NEW i \in Shard, Arrive(i)
  PROVE  ExecInv'
<1> DEFINE o == exec.job
           r == [shards[i] EXCEPT !.pc = "spin"]
<1>1. /\ shards[i].pc = "arrive" /\ exec' = [exec EXCEPT !.arrive = exec.arrive + 1] /\ UNCHANGED <<users, applied, execCalls>>
      /\ shards' = [shards EXCEPT ![i] = r]
  BY ShardFields DEF Arrive, ShardAt, To
<1>2. Active(i)
  BY <1>1 DEF Active
<1>3. /\ r \in ShardType /\ r.pc = "spin" /\ r.phase = shards[i].phase /\ r.arena = exec.arena /\ (i # 0 => r.gen = r.prev)
  BY <1>2, ShardFields DEF ShardType, ShardPcs
<1> HIDE DEF r
<1>4. /\ exec' \in ExecType /\ exec'.arrive = exec.arrive + 1 /\ exec'.mu = exec.mu /\ exec'.closed = exec.closed /\ exec'.stop = exec.stop
      /\ exec'.pending = exec.pending /\ exec'.job = exec.job /\ exec'.arena = exec.arena
  BY <1>1, ShardFields DEF ExecType
<1>5. o \in Operation /\ o \in JobType /\ i \in PartsIn(o) /\ Work(o, Places, shards, exec, applied)
  BY <1>2, HasPart
<1>6. /\ \A j \in PartsIn(o) \ {i} : StaysAt(Places, Places', shards, shards', j)
      /\ Places[i] = "arrive" /\ shards'[i].phase = shards[i].phase /\ \A j \in PartsIn(o) : shards[j].phase \in Nat
      /\ Places'[i] = "spin"
  BY <1>1, <1>2, <1>3, <1>4, MovesPlaces
<1>7. o.kind = "lockstep"
  <2>1. o.kind \in {"rows", "mul", "claims", "split", "lockstep"}
    BY <1>5, OperationFields
  <2> QED BY <1>5, <1>6, <2>1 DEF Work, RowsWork, ClaimsWork, SplitWork
<1>8. Work(o, Places', shards', exec', applied)
  BY <1>4, <1>5, <1>6, <1>7, BarrierReached
<1> QED BY <1>1, <1>2, <1>3, <1>4, <1>8, ShardMoves, ShardFields

\* A shard sees the barrier open.
LEMMA SpinHolds ==
  ASSUME ExecInv, NEW i \in Shard, Spin(i)
  PROVE  ExecInv'
<1> DEFINE o == exec.job
           pc == IF shards[i].phase = Phases THEN "finish" ELSE "write"
           r == [shards[i] EXCEPT !.pc = pc]
<1>1. /\ shards[i].pc = "spin" /\ exec.arrive >= shards[i].phase * PartsOf(o) /\ UNCHANGED <<exec, users, applied, execCalls>>
      /\ shards' = [shards EXCEPT ![i] = r]
  BY DEF Spin, ShardAt, To, Target
<1>2. Active(i)
  BY <1>1 DEF Active
<1>3. /\ r \in ShardType /\ r.pc = pc /\ r.phase = shards[i].phase /\ r.arena = exec.arena /\ (i # 0 => r.gen = r.prev)
  BY <1>2, ShardFields DEF ShardType, ShardPcs
<1>4. r.pc \notin {"idle", "exit"}
  BY <1>3
<1> HIDE DEF r
<1>5. o \in Operation /\ o \in JobType /\ i \in PartsIn(o) /\ Work(o, Places, shards, exec, applied)
  BY <1>2, HasPart
<1>6. /\ \A j \in PartsIn(o) \ {i} : StaysAt(Places, Places', shards, shards', j)
      /\ Places[i] = "spin" /\ shards'[i].phase = shards[i].phase /\ \A j \in PartsIn(o) : shards[j].phase \in Nat
      /\ Places'[i] = IF shards[i].phase = Phases THEN "through" ELSE "write"
  BY <1>1, <1>2, <1>3, <1>4, MovesPlaces
<1>7. o.kind = "lockstep"
  <2>1. o.kind \in {"rows", "mul", "claims", "split", "lockstep"}
    BY <1>5, OperationFields
  <2> QED BY <1>5, <1>6, <2>1 DEF Work, RowsWork, ClaimsWork, SplitWork
<1>8. Work(o, Places', shards', exec, applied)
  BY <1>1, <1>5, <1>6, <1>7, BarrierPassed
<1> QED BY <1>1, <1>2, <1>3, <1>4, <1>8, ShardMoves, ShardFields

\* All are told: the caller begins its own shard.
LEMMA CallerComputes ==
  ASSUME ExecInv, NEW u \in ExecUser, Tell(u), ~(users[u].told < Parts - 1)
  PROVE  ExecInv'
<1> DEFINE o == exec.job
           r == Started(0)
<1>1. ExecTypes /\ CallerInv /\ ShardInv /\ CountInv /\ WorkInv /\ users \in [ExecUser -> UserType] /\ shards \in [Shard -> ShardType]
  BY DEF ExecInv, ExecTypes
<1>2. users[u].pc = "tell" /\ users' = [users EXCEPT ![u].pc = "shard"] /\ shards' = [shards EXCEPT ![0] = r] /\ UNCHANGED <<exec, applied, execCalls>>
  BY DEF Tell, UserAt, UserTo, Parts
<1>3. exec.mu = u /\ Busy /\ Told = users[u].told /\ u # "free"
  BY <1>2, HolderIs
<1>4. o \in Operation /\ o \in JobType /\ ~exec.closed /\ Told \in 0 .. Parts - 1
  BY <1>1, <1>3 DEF CallerInv, JobType
<1>5. Parts \in Int /\ 1 <= Parts /\ Parts <= ExecWorkers /\ Told = Parts - 1 /\ 0 \in PartsIn(o)
  <2>1. Parts \in Int /\ 1 <= Parts /\ Parts <= ExecWorkers
    BY <1>4, PartsBound DEF Parts
  <2> QED BY <1>3, <1>4, <2>1 DEF PartsIn, Parts
<1>6. StartPc(o) \in {"claim", "write", "apply"}
  BY DEF StartPc
<1>7. r \in ShardType /\ r.pc = StartPc(o) /\ r.phase = 0 /\ r.arena = exec.arena
  <2>1. 0 \in Nat
    OBVIOUS
  <2> QED BY <1>6, <2>1, Zero, ShardFields DEF Started, ShardType, ShardPcs
<1> HIDE DEF r
<1>8. shards'[0] = r /\ \A j \in Shard : j # 0 => shards'[j] = shards[j]
  BY <1>1, <1>2, Zero
<1>9. users'[u].pc = "shard" /\ users'[u].told = users[u].told /\ \A w \in ExecUser : w # u => users'[w] = users[w]
  BY <1>1, <1>2 DEF UserType
<1>10. Busy' /\ Told' = Told /\ Parts' = Parts /\ users'[exec'.mu].pc = "shard" /\ users[exec.mu].pc = "tell"
  BY <1>2, <1>3, <1>9 DEF Busy, Told, Parts
<1>11. ExecTypes'
  <2>1. users' \in [ExecUser -> UserType]
    BY <1>1, <1>2 DEF UserType
  <2>2. shards' \in [Shard -> ShardType]
    BY <1>1, <1>2, <1>7
  <2> QED BY <1>1, <1>2, <2>1, <2>2 DEF ExecTypes
<1>12. CallerInv'
  <2>1. \A w \in ExecUser : users'[w].pc \in {"tell", "shard", "wait", "stopping"} <=> exec'.mu = w
    BY <1>1, <1>2, <1>3, <1>9 DEF CallerInv
  <2>2. \A w \in ExecUser : users'[w].pc = "lock" => users'[w].op \in Operation /\ users'[w].told = 0
    BY <1>1, <1>9 DEF CallerInv
  <2> QED BY <1>1, <1>2, <1>4, <1>5, <1>10, <2>1, <2>2 DEF CallerInv
<1>13. Active(0)' /\ ~Active(0) /\ (\A j \in Shard : j # 0 => (Active(j)' <=> Active(j))) /\ shards[0].pc = "idle"
  <2>1. Active(0)'
    BY <1>6, <1>7, <1>8 DEF Active
  <2>2. ~Active(0)
    BY <1>1, <1>10 DEF ShardInv
  <2>3. shards[0].pc = "idle"
    BY <1>1, <2>2, Zero DEF ShardInv, Active
  <2> QED BY <1>8, <2>1, <2>2, <2>3 DEF Active
<1>14. ShardInv'
  <2>1. \A j \in Shard : Active(j)' => Busy' /\ j < Parts' /\ shards'[j].arena = exec'.arena
    BY <1>1, <1>2, <1>5, <1>7, <1>8, <1>10, <1>13 DEF ShardInv
  <2>2. \A j \in Shard \ {0} : Active(j)' => j <= Told' /\ shards'[j].gen = shards'[j].prev
    BY <1>1, <1>8, <1>10, <1>13 DEF ShardInv
  <2>3. \A j \in Shard \ {0} : shards'[j].gen # shards'[j].prev => Busy' /\ j <= Told'
    BY <1>1, <1>8, <1>10 DEF ShardInv
  <2>4. \A j \in Shard : shards'[j].pc = "exit" => exec'.stop /\ j # 0
    BY <1>1, <1>2, <1>6, <1>7, <1>8 DEF ShardInv
  <2> QED BY <1>10, <1>13, <2>1, <2>2, <2>3, <2>4 DEF ShardInv
<1>15. CountInv'
  <2>1. \A j \in 1 .. Parts - 1 : j \in Shard /\ j # 0
    BY <1>5, ExecBounds DEF Shard
  <2>2. \A j \in 1 .. Parts - 1 : (j > Told \/ shards[j].gen # shards[j].prev \/ Active(j)) <=> (j > Told' \/ shards'[j].gen # shards'[j].prev \/ Active(j)')
    BY <1>8, <1>10, <1>13, <2>1
  <2>3. Unfinished' = Unfinished
    BY <1>10, <2>2 DEF Unfinished
  <2> QED BY <1>1, <1>2, <1>3, <2>3 DEF CountInv
<1>16. WorkInv'
  <2>1. ASSUME NEW j \in PartsIn(o) \ {0} PROVE StaysAt(Places, Places', shards, shards', j)
    <3>1. j \in Shard /\ j # 0
      BY <1>4, Zero
    <3>2. Places[j] = PlaceOf(j, shards[j], "tell", Told) /\ Places'[j] = PlaceOf(j, shards[j], "shard", Told)
      BY <1>8, <1>10, <3>1 DEF Places, Told
    <3> QED BY <1>8, <3>1, <3>2 DEF PlaceOf, ThroughOf, StaysAt
  <2>2. Places[0] = "todo"
    BY <1>10, <1>13, Zero DEF Places, PlaceOf, ThroughOf
  <2>3. Places'[0] = StartPc(o)
    <3>1. Places'[0] = PlaceOf(0, r, "shard", Told')
      BY <1>8, <1>10, Zero DEF Places, Told
    <3> QED BY <1>6, <1>7, <3>1 DEF PlaceOf, ThroughOf
  <2>4. Work(o, Places, shards, exec, applied)
    BY <1>1, <1>3 DEF WorkInv
  <2>5. shards'[0].phase = 0
    BY <1>7, <1>8
  <2>6. Work(o, Places', shards', exec, applied)
    BY <1>4, <1>5, <2>1, <2>2, <2>3, <2>4, <2>5, WorkStarts
  <2> QED BY <1>2, <2>6 DEF WorkInv
<1> QED BY <1>11, <1>12, <1>14, <1>15, <1>16 DEF ExecInv

\* The caller is through with its shard.
LEMMA CallerFinishes ==
  ASSUME ExecInv, FinishShard(0)
  PROVE  ExecInv'
<1> DEFINE o == exec.job
           u == exec.mu
<1>1. ExecTypes /\ CallerInv /\ ShardInv /\ CountInv /\ WorkInv /\ users \in [ExecUser -> UserType] /\ shards \in [Shard -> ShardType]
  BY DEF ExecInv, ExecTypes
<1>2. shards[0].pc = "finish" /\ shards' = [shards EXCEPT ![0].pc = "idle"] /\ users' = [users EXCEPT ![u].pc = "wait"] /\ UNCHANGED <<exec, applied, execCalls>>
  BY DEF FinishShard, ShardAt, To, UserTo
<1>3. Active(0)
  BY <1>2 DEF Active
<1>4. /\ Busy /\ u \in ExecUser /\ u # "free" /\ o \in Operation /\ o \in JobType /\ users[u].pc = "shard"
      /\ Work(o, Places, shards, exec, applied)
  BY <1>3, Zero, HasPart
<1>5. Parts \in Int /\ 1 <= Parts /\ Parts <= ExecWorkers
  BY <1>4, PartsBound DEF Parts
<1>6. \A j \in Shard : /\ j # 0 => shards'[j] = shards[j]
                       /\ shards'[j].item = shards[j].item /\ shards'[j].front = shards[j].front /\ shards'[j].back = shards[j].back
                       /\ shards'[j].phase = shards[j].phase
  BY <1>1, <1>2, Zero DEF ShardType
<1>7. shards'[0].pc = "idle"
  BY <1>1, <1>2, Zero DEF ShardType
<1>8. users'[u].pc = "wait" /\ users'[u].told = users[u].told /\ \A w \in ExecUser : w # u => users'[w] = users[w]
  BY <1>1, <1>2, <1>4 DEF UserType
<1>9. Busy' /\ Told' = Told /\ Parts' = Parts /\ users'[exec'.mu].pc = "wait" /\ exec'.mu = u
  BY <1>2, <1>4, <1>8 DEF Busy, Told, Parts
<1> HIDE DEF u
<1>10. ExecTypes'
  <2>1. users' \in [ExecUser -> UserType]
    BY <1>1, <1>2, <1>4 DEF UserType
  <2>2. shards' \in [Shard -> ShardType]
    BY <1>1, <1>2, Zero DEF ShardType, ShardPcs
  <2> QED BY <1>1, <1>2, <2>1, <2>2 DEF ExecTypes
<1>11. CallerInv'
  <2>1. \A w \in ExecUser : users'[w].pc \in {"tell", "shard", "wait", "stopping"} <=> exec'.mu = w
    BY <1>1, <1>2, <1>4, <1>8, <1>9 DEF CallerInv, u
  <2>2. \A w \in ExecUser : users'[w].pc = "lock" => users'[w].op \in Operation /\ users'[w].told = 0
    BY <1>1, <1>8 DEF CallerInv
  <2>3. Told = Parts - 1 /\ Told \in 0 .. Parts - 1 /\ ~exec.closed
    BY <1>1, <1>4 DEF CallerInv, u
  <2> QED BY <1>1, <1>2, <1>4, <1>9, <2>1, <2>2, <2>3 DEF CallerInv
<1>12. ~Active(0)' /\ \A j \in Shard : j # 0 => (Active(j)' <=> Active(j))
  BY <1>6, <1>7 DEF Active
<1>13. ShardInv'
  <2>1. \A j \in Shard : Active(j)' => Busy' /\ j < Parts' /\ shards'[j].arena = exec'.arena
    BY <1>1, <1>2, <1>6, <1>9, <1>12 DEF ShardInv
  <2>2. \A j \in Shard \ {0} : Active(j)' => j <= Told' /\ shards'[j].gen = shards'[j].prev
    BY <1>1, <1>6, <1>9, <1>12 DEF ShardInv
  <2>3. \A j \in Shard \ {0} : shards'[j].gen # shards'[j].prev => Busy' /\ j <= Told'
    BY <1>1, <1>6, <1>9 DEF ShardInv
  <2>4. \A j \in Shard : shards'[j].pc = "exit" => exec'.stop /\ j # 0
    BY <1>1, <1>2, <1>6, <1>7 DEF ShardInv
  <2> QED BY <1>9, <1>12, <2>1, <2>2, <2>3, <2>4 DEF ShardInv
<1>14. CountInv'
  <2>1. \A j \in 1 .. Parts - 1 : j \in Shard /\ j # 0
    BY <1>5, ExecBounds DEF Shard
  <2>2. \A j \in 1 .. Parts - 1 : (j > Told \/ shards[j].gen # shards[j].prev \/ Active(j)) <=> (j > Told' \/ shards'[j].gen # shards'[j].prev \/ Active(j)')
    BY <1>6, <1>9, <1>12, <2>1
  <2>3. Unfinished' = Unfinished
    BY <1>9, <2>2 DEF Unfinished
  <2> QED BY <1>1, <1>2, <1>4, <2>3 DEF CountInv
<1>15. WorkInv'
  <2>1. ASSUME NEW j \in PartsIn(o) PROVE StaysAt(Places, Places', shards, shards', j)
    <3>1. j \in Shard
      BY <1>4, Zero
    <3>2. Places[j] = PlaceOf(j, shards[j], "shard", Told) /\ Places'[j] = PlaceOf(j, shards'[j], "wait", Told)
      BY <1>4, <1>9, <3>1 DEF Places, Told, u
    <3>3. CASE j = 0
      BY <1>2, <1>6, <1>7, <3>1, <3>2, <3>3 DEF PlaceOf, ThroughOf, StaysAt
    <3>4. CASE j # 0
      BY <1>6, <3>1, <3>2, <3>4 DEF PlaceOf, ThroughOf, StaysAt
    <3> QED BY <3>3, <3>4
  <2>2. SameCounters(exec, exec')
    BY <1>2 DEF SameCounters
  <2>3. Work(o, Places', shards', exec', applied)
    BY <1>4, <2>1, <2>2, WorkStays
  <2> QED BY <1>2, <2>3 DEF WorkInv
<1> QED BY <1>10, <1>11, <1>13, <1>14, <1>15 DEF ExecInv

\* The workers that pending counts are finitely many.
LEMMA UnfinishedFinite ==
  ASSUME ExecInv, Busy
  PROVE  IsFiniteSet(Unfinished) /\ exec.pending = Cardinality(Unfinished) /\ Parts \in Int /\ 1 <= Parts /\ Parts <= ExecWorkers /\ Told \in 0 .. Parts - 1
<1>1. CallerInv /\ CountInv
  BY DEF ExecInv
<1>2. exec.job \in JobType /\ Told \in 0 .. Parts - 1
  BY <1>1 DEF CallerInv, JobType
<1>3. Parts \in Int /\ 1 <= Parts /\ Parts <= ExecWorkers
  BY <1>2, PartsBound DEF Parts
<1>4. IsFiniteSet(1 .. Parts - 1) /\ Unfinished \subseteq 1 .. Parts - 1
  BY <1>3, FS_Interval DEF Unfinished
<1> QED BY <1>1, <1>2, <1>3, <1>4, FS_Subset DEF CountInv

\* A worker is through: its last access counts pending down.
LEMMA WorkerFinishes ==
  ASSUME ExecInv, NEW i \in Shard, i # 0, FinishShard(i)
  PROVE  ExecInv'
<1> DEFINE o == exec.job
<1>1. ExecTypes /\ CallerInv /\ ShardInv /\ CountInv /\ WorkInv /\ shards \in [Shard -> ShardType] /\ exec \in ExecType
  BY DEF ExecInv, ExecTypes
<1>2. shards[i].pc = "finish" /\ shards' = [shards EXCEPT ![i].pc = "idle"] /\ exec' = [exec EXCEPT !.pending = exec.pending - 1] /\ UNCHANGED <<users, applied, execCalls>>
  BY <1>1 DEF FinishShard, ShardAt, To, ExecType
<1>3. Active(i)
  BY <1>2 DEF Active
<1>4. /\ Busy /\ exec.mu \in ExecUser /\ exec.mu # "free" /\ o \in Operation /\ o \in JobType /\ i \in PartsIn(o) /\ i <= Told
      /\ Work(o, Places, shards, exec, applied)
  BY <1>3, HasPart
<1>5. /\ IsFiniteSet(Unfinished) /\ exec.pending = Cardinality(Unfinished) /\ Parts \in Int /\ 1 <= Parts /\ Parts <= ExecWorkers /\ Told \in 0 .. Parts - 1
  BY <1>4, UnfinishedFinite
<1>6. i \in Unfinished
  BY <1>3, <1>4, <1>5 DEF Unfinished, PartsIn, Parts
<1>7. IsFiniteSet(Unfinished \ {i}) /\ Cardinality(Unfinished \ {i}) = Cardinality(Unfinished) - 1
  BY <1>5, <1>6, FS_RemoveElement
<1>8. exec.pending - 1 \in 0 .. ExecWorkers - 1
  <2>1. Cardinality(Unfinished \ {i}) \in Nat
    BY <1>7, FS_CardinalityType
  <2>2. exec.pending \in 0 .. ExecWorkers - 1
    BY <1>1 DEF ExecType
  <2> QED BY <1>5, <1>7, <2>1, <2>2, ExecBounds
<1>9. \A j \in Shard : /\ j # i => shards'[j] = shards[j]
                       /\ shards'[j].item = shards[j].item /\ shards'[j].front = shards[j].front /\ shards'[j].back = shards[j].back
                       /\ shards'[j].phase = shards[j].phase /\ shards'[j].gen = shards[j].gen /\ shards'[j].prev = shards[j].prev
  BY <1>1, <1>2 DEF ShardType
<1>10. shards'[i].pc = "idle" /\ shards'[i].gen = shards'[i].prev
  <2>1. shards'[i].pc = "idle"
    BY <1>1, <1>2 DEF ShardType
  <2> QED BY <1>1, <1>3, <1>9, <2>1 DEF ShardInv
<1>11. /\ exec' \in ExecType /\ exec'.pending = exec.pending - 1 /\ exec'.mu = exec.mu /\ exec'.closed = exec.closed /\ exec'.stop = exec.stop
       /\ exec'.job = exec.job /\ exec'.arena = exec.arena /\ SameCounters(exec, exec')
  BY <1>1, <1>2, <1>8 DEF ExecType, SameCounters
<1>12. Busy' /\ Told' = Told /\ Parts' = Parts
  BY <1>2, <1>4, <1>11 DEF Busy, Told, Parts
<1>13. ExecTypes'
  <2>1. shards' \in [Shard -> ShardType]
    BY <1>1, <1>2 DEF ShardType, ShardPcs
  <2> QED BY <1>1, <1>2, <1>11, <2>1 DEF ExecTypes
<1>14. CallerInv'
  BY <1>1, <1>2, <1>4, <1>11, <1>12 DEF CallerInv
<1>15. ~Active(i)' /\ \A j \in Shard : j # i => (Active(j)' <=> Active(j))
  BY <1>9, <1>10 DEF Active
<1>16. ShardInv'
  <2>1. \A j \in Shard : Active(j)' => Busy' /\ j < Parts' /\ shards'[j].arena = exec'.arena
    BY <1>1, <1>9, <1>11, <1>12, <1>15 DEF ShardInv
  <2>2. \A j \in Shard \ {0} : Active(j)' => j <= Told' /\ shards'[j].gen = shards'[j].prev
    BY <1>1, <1>9, <1>12, <1>15 DEF ShardInv
  <2>3. \A j \in Shard \ {0} : shards'[j].gen # shards'[j].prev => Busy' /\ j <= Told'
    BY <1>1, <1>9, <1>12 DEF ShardInv
  <2>4. \A j \in Shard : shards'[j].pc = "exit" => exec'.stop /\ j # 0
    BY <1>1, <1>9, <1>10, <1>11 DEF ShardInv
  <2>5. Active(0)' <=> Busy' /\ users'[exec'.mu].pc = "shard"
    BY <1>1, <1>2, <1>4, <1>11, <1>12, <1>15, Zero DEF ShardInv
  <2> QED BY <2>1, <2>2, <2>3, <2>4, <2>5 DEF ShardInv
<1>17. CountInv'
  <2>1. \A j \in 1 .. Parts - 1 : j \in Shard
    BY <1>5, ExecBounds DEF Shard
  <2>2. ASSUME NEW j \in 1 .. Parts - 1
        PROVE  (j > Told' \/ shards'[j].gen # shards'[j].prev \/ Active(j)') <=> (j > Told \/ shards[j].gen # shards[j].prev \/ Active(j)) /\ j # i
    <3>1. CASE j = i
      <4>1. ~(i > Told')
        BY <1>4, <1>5, <1>12, <3>1
      <4> QED BY <1>10, <1>15, <3>1, <4>1
    <3>2. CASE j # i
      BY <1>9, <1>12, <1>15, <2>1, <3>2
    <3> QED BY <3>1, <3>2
  <2>3. Unfinished' = Unfinished \ {i}
    BY <1>12, <2>2 DEF Unfinished
  <2> QED BY <1>5, <1>7, <1>11, <2>3 DEF CountInv
<1>18. WorkInv'
  <2>1. ASSUME NEW j \in PartsIn(o) PROVE StaysAt(Places, Places', shards, shards', j)
    <3>1. j \in Shard
      BY <1>4, Zero
    <3>2. Places[j] = PlaceOf(j, shards[j], users[exec.mu].pc, Told) /\ Places'[j] = PlaceOf(j, shards'[j], users[exec.mu].pc, Told)
      BY <1>2, <1>11, <3>1 DEF Places, Told
    <3>3. CASE j = i
      BY <1>2, <1>4, <1>9, <1>10, <3>1, <3>2, <3>3 DEF PlaceOf, ThroughOf, StaysAt
    <3>4. CASE j # i
      BY <1>9, <3>1, <3>2, <3>4 DEF StaysAt
    <3> QED BY <3>3, <3>4
  <2>2. Work(o, Places', shards', exec', applied)
    BY <1>4, <1>11, <2>1, WorkStays
  <2> QED BY <1>2, <1>11, <2>2 DEF WorkInv
<1> QED BY <1>13, <1>14, <1>16, <1>17, <1>18 DEF ExecInv

\* When pending is zero every shard is through.
LEMMA AllThrough ==
  ASSUME ExecInv, NEW u \in ExecUser, Waits(u)
  PROVE  /\ exec.mu = u /\ Busy /\ exec.job \in Operation
         /\ \A i \in Shard : shards[i].pc = "idle" /\ (i # 0 => shards[i].gen = shards[i].prev)
         /\ \A i \in PartsIn(exec.job) : Places[i] = "through"
<1>1. ExecTypes /\ CallerInv /\ ShardInv /\ shards \in [Shard -> ShardType]
  BY DEF ExecInv, ExecTypes
<1>2. users[u].pc = "wait" /\ exec.pending = 0
  BY DEF Waits, UserAt
<1>3. exec.mu = u /\ Busy
  BY <1>2, HolderIs
<1>4. exec.job \in Operation /\ exec.job \in JobType /\ ~exec.closed /\ ~exec.stop /\ Told = Parts - 1
  BY <1>1, <1>2, <1>3 DEF CallerInv, JobType
<1>5. /\ IsFiniteSet(Unfinished) /\ exec.pending = Cardinality(Unfinished) /\ Parts \in Int /\ 1 <= Parts /\ Parts <= ExecWorkers
  BY <1>3, UnfinishedFinite
<1>6. Unfinished = {}
  BY <1>2, <1>5, FS_EmptySet
<1>7. ~Active(0)
  BY <1>1, <1>2, <1>3 DEF ShardInv
<1>8. ASSUME NEW i \in Shard, i # 0 PROVE ~Active(i) /\ shards[i].gen = shards[i].prev
  <2>1. CASE i \in 1 .. Parts - 1
    BY <1>6, <2>1 DEF Unfinished
  <2>2. CASE i \notin 1 .. Parts - 1
    <3>1. ~(i <= Told)
      BY <1>4, <1>5, <1>8, <2>2 DEF Shard
    <3> QED BY <1>1, <1>8, <3>1 DEF ShardInv
  <2> QED BY <2>1, <2>2
<1>9. \A i \in Shard : shards[i].pc = "idle" /\ (i # 0 => shards[i].gen = shards[i].prev)
  BY <1>1, <1>4, <1>7, <1>8, Zero DEF ShardInv, Active
<1>10. ASSUME NEW i \in PartsIn(exec.job) PROVE Places[i] = "through"
  <2>1. i \in Shard
    BY <1>4, Zero
  <2>2. Places[i] = PlaceOf(i, shards[i], "wait", Told)
    BY <1>2, <1>3, <2>1 DEF Places, Told
  <2>3. i # 0 => i <= Told
    BY <1>4, <1>5 DEF PartsIn, Parts
  <2> QED BY <1>9, <2>1, <2>2, <2>3 DEF PlaceOf, ThroughOf
<1> QED BY <1>3, <1>4, <1>9, <1>10

\* The caller returns.
LEMMA CallerReturns ==
  ASSUME ExecInv, NEW u \in ExecUser, Return(u)
  PROVE  ExecInv'
<1>1. ExecTypes /\ CallerInv /\ ShardInv /\ exec \in ExecType /\ users \in [ExecUser -> UserType]
  BY DEF ExecInv, ExecTypes
<1>2. Waits(u) /\ users' = [users EXCEPT ![u].pc = "idle"] /\ exec' = [exec EXCEPT !.job = NoOperation, !.mu = "free"] /\ UNCHANGED <<shards, applied, execCalls>>
  BY DEF Return, UserTo
<1>3. exec.mu = u /\ \A i \in Shard : shards'[i].pc = "idle" /\ (i # 0 => shards'[i].gen = shards'[i].prev)
  BY <1>2, AllThrough
<1>4. exec'.mu = "free" /\ exec'.job = NoOperation /\ exec'.closed = exec.closed /\ exec'.stop = exec.stop /\ exec' \in ExecType
  <2>1. NoOperation \in JobType /\ "free" \in ExecUser \cup {"free"}
    BY DEF JobType
  <2> QED BY <1>1, <1>2, <2>1 DEF ExecType
<1>5. users' \in [ExecUser -> UserType] /\ users'[u].pc = "idle" /\ \A w \in ExecUser : w # u => users'[w] = users[w]
  BY <1>1, <1>2 DEF UserType
<1>6. ExecTypes'
  BY <1>1, <1>2, <1>4, <1>5 DEF ExecTypes
<1>7. ~Busy'
  BY <1>4 DEF Busy
<1>8. CallerInv'
  <2>1. \A w \in ExecUser : users'[w].pc \in {"tell", "shard", "wait", "stopping"} <=> exec'.mu = w
    BY <1>1, <1>3, <1>4, <1>5, ExecBounds DEF CallerInv
  <2>2. \A w \in ExecUser : users'[w].pc = "lock" => users'[w].op \in Operation /\ users'[w].told = 0
    BY <1>1, <1>5 DEF CallerInv
  <2> QED BY <1>1, <1>4, <1>7, <2>1, <2>2 DEF CallerInv
<1>9. ShardInv'
  BY <1>3, <1>7, Zero DEF ShardInv, Active
<1> QED BY <1>6, <1>7, <1>8, <1>9 DEF ExecInv, CountInv, WorkInv

\* A worker leaves once the executor is closed.
LEMMA WorkerExits ==
  ASSUME ExecInv, NEW i \in Shard, i # 0, shards[i].pc = "idle", exec.stop, shards' = [shards EXCEPT ![i].pc = "exit"],
         UNCHANGED <<exec, users, applied, execCalls>>
  PROVE  ExecInv'
<1>1. ExecTypes /\ CallerInv /\ ShardInv /\ shards \in [Shard -> ShardType]
  BY DEF ExecInv, ExecTypes
<1>2. ~Busy
  BY <1>1 DEF CallerInv
<1>3. ~Busy'
  BY <1>2 DEF Busy
<1>4. \A j \in Shard : /\ shards'[j].pc \in {"idle", "exit"} /\ (j # 0 => shards'[j].gen = shards'[j].prev)
                       /\ (shards'[j].pc = "exit" => exec'.stop /\ j # 0)
  <2> SUFFICES ASSUME NEW j \in Shard
               PROVE  /\ shards'[j].pc \in {"idle", "exit"} /\ (j # 0 => shards'[j].gen = shards'[j].prev)
                      /\ (shards'[j].pc = "exit" => exec'.stop /\ j # 0)
    OBVIOUS
  <2>1. shards[j].pc \in {"idle", "exit"} /\ (j # 0 => shards[j].gen = shards[j].prev) /\ (shards[j].pc = "exit" => exec.stop /\ j # 0)
    BY <1>1, <1>2, AtRest DEF ShardInv
  <2>2. j # i => shards'[j] = shards[j]
    BY <1>1
  <2>3. j = i => shards'[j].pc = "exit" /\ shards'[j].gen = shards[j].gen /\ shards'[j].prev = shards[j].prev
    BY <1>1 DEF ShardType
  <2> QED BY <2>1, <2>2, <2>3
<1>5. ExecTypes'
  <2>1. shards' \in [Shard -> ShardType]
    BY <1>1 DEF ShardType, ShardPcs
  <2> QED BY <1>1, <2>1 DEF ExecTypes
<1>6. CallerInv'
  BY <1>1, <1>2, <1>3 DEF CallerInv
<1>7. ShardInv'
  BY <1>3, <1>4, Zero DEF ShardInv, Active
<1> QED BY <1>3, <1>5, <1>6, <1>7 DEF ExecInv, CountInv, WorkInv

-----------------------------------------------------------------------------
(* The invariant, and what it says.                                        *)

LEMMA ExecInitHolds == ExecInit => ExecInv
<1> SUFFICES ASSUME ExecInit PROVE ExecInv
  OBVIOUS
<1>1. NoOperation \in JobType /\ 0 \in Nat /\ 0 \in Int /\ 0 \in 0 .. ExecWorkers - 1 /\ 0 \in 0 .. MaxExecCalls
  BY ExecBounds DEF JobType
<1>2. exec \in ExecType
  BY <1>1 DEF ExecInit, ExecType
<1>3. shards \in [Shard -> ShardType]
  BY <1>1 DEF ExecInit, ShardType, ShardPcs
<1>4. users \in [ExecUser -> UserType]
  BY <1>1 DEF ExecInit, UserType
<1>5. ExecTypes
  <2>1. DOMAIN applied = {}
    BY DEF ExecInit
  <2> QED BY <1>1, <1>2, <1>3, <1>4, <2>1 DEF ExecTypes, ExecInit
<1>6. ~Busy /\ \A i \in Shard : shards[i].pc = "idle" /\ shards[i].gen = shards[i].prev
  BY DEF ExecInit, Busy
<1>7. CallerInv
  BY <1>6, ExecBounds DEF CallerInv, ExecInit
<1>8. ShardInv
  BY <1>6, Zero DEF ShardInv, Active
<1> QED BY <1>5, <1>6, <1>7, <1>8 DEF ExecInv, CountInv, WorkInv

LEMMA EnterHolds ==
  ASSUME ExecInv, NEW u \in ExecUser, Enter(u)
  PROVE  ExecInv'
<1>1. CASE ~(exec.closed \/ users[u].op.rows = 0)
  BY <1>1, CallerBegins
<1>2. CASE exec.closed \/ users[u].op.rows = 0
  <2> DEFINE r == [users[u] EXCEPT !.pc = "idle"]
  <2>1. users[u].pc = "lock" /\ users' = [users EXCEPT ![u] = r] /\ UNCHANGED <<exec, shards, applied, execCalls>>
    BY <1>2 DEF Enter, UserAt, UserTo
  <2>2. r \in UserType /\ r.pc = "idle" /\ execCalls \in 0 .. MaxExecCalls
    BY DEF ExecInv, ExecTypes, UserType
  <2> HIDE DEF r
  <2> QED BY <2>1, <2>2, CallerAway
<1> QED BY <1>1, <1>2

LEMMA CallHolds ==
  ASSUME ExecInv, NEW u \in ExecUser, NEW o \in Operation, Call(u, o)
  PROVE  ExecInv'
<1> DEFINE r == [pc |-> "lock", op |-> o, told |-> 0]
<1>1. users[u].pc = "idle" /\ users' = [users EXCEPT ![u] = r] /\ UNCHANGED <<exec, shards, applied>> /\ execCalls < MaxExecCalls /\ execCalls' = execCalls + 1
  BY DEF Call, UserAt
<1>2. execCalls' \in 0 .. MaxExecCalls
  BY <1>1, ExecBounds DEF ExecInv, ExecTypes
<1>3. o \in JobType /\ 0 \in Nat
  BY DEF JobType
<1>4. r \in UserType /\ r.pc = "lock" /\ r.op = o /\ r.told = 0
  BY <1>3 DEF UserType
<1> HIDE DEF r
<1> QED BY <1>1, <1>2, <1>4, CallerAway

LEMMA ExecNextHolds == ExecInv /\ [ExecNext]_execVars => ExecInv'
<1> SUFFICES ASSUME ExecInv, [ExecNext]_execVars PROVE ExecInv'
  OBVIOUS
<1>1. ASSUME NEW u \in ExecUser, UserStep(u) PROVE ExecInv'
  <2>1. CASE Tell(u)
    BY <2>1, WorkerTold, CallerComputes
  <2>2. CASE Stopped(u)
    <3>1. UNCHANGED <<shards, applied, execCalls>>
      BY <2>2 DEF Stopped
    <3> QED BY <2>2, <3>1, RestGoesOn
  <2> QED BY <1>1, <2>1, <2>2, EnterHolds, CallerReturns DEF UserStep
<1>2. ASSUME NEW u \in ExecUser, CloseExec(u) PROVE ExecInv'
  <2>1. UNCHANGED <<shards, applied, execCalls>>
    BY <1>2 DEF CloseExec
  <2> QED BY <1>2, <2>1, RestGoesOn
<1>3. ASSUME NEW i \in Shard, ShardStep(i) PROVE ExecInv'
  <2>1. CASE Poll(i)
    <3>1. i # 0 /\ shards[i].pc = "idle" /\ UNCHANGED <<exec, users, applied, execCalls>>
      BY <2>1 DEF Poll, ShardAt
    <3>2. CASE exec.stop /\ shards' = To(i, "exit")
      BY <3>1, <3>2, WorkerExits DEF To
    <3>3. CASE shards[i].gen # shards[i].prev /\ shards' = [shards EXCEPT ![i] = [Started(i) EXCEPT !.prev = shards[i].gen]]
      BY <3>1, <3>3, WorkerBegins
    <3> QED BY <2>1, <3>2, <3>3 DEF Poll
  <2>2. CASE FinishShard(i)
    BY <2>2, CallerFinishes, WorkerFinishes
  <2> QED BY <1>3, <2>1, <2>2, ApplyHolds, ClaimItemHolds, LoadClaimsHolds, SwapClaimsHolds, WritePhaseHolds, ArriveHolds, SpinHolds DEF ShardStep
<1>4. ASSUME UNCHANGED execVars PROVE ExecInv'
  <2>1. Busy' <=> Busy
    BY <1>4 DEF execVars, Busy
  <2>2. Told' = Told /\ Parts' = Parts /\ Unfinished' = Unfinished /\ Places' = Places
    BY <1>4 DEF execVars, Told, Parts, Unfinished, Active, Places
  <2> QED BY <1>4, <2>1, <2>2 DEF execVars, ExecInv, ExecTypes, CallerInv, ShardInv, CountInv, WorkInv, Active
<1> QED BY <1>1, <1>2, <1>3, <1>4, CallHolds DEF ExecNext

\* Every part is computed once when the caller returns.
LEMMA InvComputes == ExecInv => ComputedOnce
<1> SUFFICES ASSUME ExecInv PROVE ComputedOnce
  OBVIOUS
<1>1. \A x \in DOMAIN applied : applied[x] \in {0, 1}
  BY DEF ExecInv, ExecTypes
<1>2. ASSUME NEW u \in ExecUser, Waits(u) PROVE \A x \in DOMAIN applied : applied[x] = 1
  <2>1. Busy /\ exec.job \in Operation /\ \A i \in PartsIn(exec.job) : Places[i] = "through"
    BY <1>2, AllThrough
  <2>2. Work(exec.job, Places, shards, exec, applied)
    BY <2>1 DEF ExecInv, WorkInv
  <2>3. exec.front \in Nat /\ exec.back \in Nat /\ exec.next \in Nat
    BY DEF ExecInv, ExecTypes, ExecType
  <2> QED BY <2>1, <2>2, <2>3, WorkEnds
<1> QED BY <1>1, <1>2 DEF ComputedOnce

LEMMA InvInOperation == ExecInv => InOperation
<1> SUFFICES ASSUME ExecInv, NEW i \in Shard, shards[i].pc \notin {"idle", "exit"}
             PROVE  exec.mu # "free" /\ exec.job # NoOperation /\ i < PartsOf(exec.job) /\ shards[i].arena = exec.arena
  BY DEF InOperation
<1>1. Active(i)
  BY DEF Active
<1>2. exec.mu # "free" /\ exec.job \in Operation /\ exec.job \in JobType
  BY <1>1, HasPart
<1> QED BY <1>1, <1>2, OperationFields DEF ExecInv, ShardInv, Parts

LEMMA InvLockstep == ExecInv => Lockstep
<1> SUFFICES ASSUME ExecInv, exec.job.kind = "lockstep", NEW i \in PartsIn(exec.job), NEW j \in PartsIn(exec.job),
                    shards[i].pc = "write", shards[i].phase > 0
             PROVE  applied[<<j, shards[i].phase>>] = 1
  BY DEF Lockstep, ShardAt, PartsIn
<1> DEFINE o == exec.job
           k == shards[i].phase
<1>0. exec.job \in JobType
  BY DEF ExecInv, ExecTypes, ExecType
<1>1. i \in Shard /\ j \in Shard
  BY <1>0, Zero
<1>2. Active(i)
  BY DEF Active
<1>3. o \in Operation /\ (i = 0 => users[exec.mu].pc = "shard") /\ Work(o, Places, shards, exec, applied)
  BY <1>1, <1>2, HasPart
<1>4. Places[i] = "write"
  BY <1>1, <1>3 DEF Places, PlaceOf, ThroughOf
<1>5. k \in Nat /\ shards[j].phase \in Nat
  BY <1>1, ShardFields
<1> HIDE DEF o, k
<1>6. o.kind = "lockstep" /\ i \in PartsIn(o) /\ j \in PartsIn(o)
  BY DEF o
<1>7. Passed(Places, shards, i) = k
  BY <1>4 DEF Passed, Wrote, k
<1>8. LockWork(o, Places, shards, exec, applied)
  BY <1>3, <1>6 DEF Work
<1>9. k <= Arrived(Places, shards, j) /\ k < Phases
  BY <1>4, <1>6, <1>7, <1>8 DEF LockWork, k
<1>10. Arrived(Places, shards, j) \in Nat /\ Wrote(Places, shards, j) \in Nat /\ Arrived(Places, shards, j) <= Wrote(Places, shards, j)
  BY <1>3, <1>5, <1>6, PhasesFit
<1>11. k \in 1 .. Phases /\ k <= Wrote(Places, shards, j)
  BY <1>5, <1>9, <1>10, ExecBounds DEF k
<1> QED BY <1>6, <1>8, <1>11 DEF LockWork, k

LEMMA InvSafe == ExecInv => ExecutorSafe
<1> SUFFICES ASSUME ExecInv PROVE ExecutorSafe
  OBVIOUS
<1>1. exec \in ExecType /\ shards \in [Shard -> ShardType] /\ users \in [ExecUser -> UserType] /\ execCalls \in 0 .. MaxExecCalls
  BY DEF ExecInv, ExecTypes
<1>2. ExecTypeOK
  BY <1>1 DEF ExecTypeOK, ExecType, ShardType, ShardPcs, UserType, JobType
<1> QED BY <1>2, InvComputes, InvInOperation, InvLockstep DEF ExecutorSafe

\* However an executor's callers, its workers and Close interleave: when an
\* operation returns, each of its rows, items, strips or phases has been
\* computed once, by a shard of that operation with the arena it was given,
\* and no shard is a phase ahead of what it reads (execute, runShard,
\* projectClaims, and the barrier of the codec's layers).
THEOREM ExecutorIsSafe == ExecSpec => []ExecutorSafe
<1>1. ExecInit => ExecInv
  BY ExecInitHolds
<1>2. ExecInv /\ [ExecNext]_execVars => ExecInv'
  BY ExecNextHolds
<1>3. ExecInv => ExecutorSafe
  BY InvSafe
<1> QED BY <1>1, <1>2, <1>3, PTL DEF ExecSpec
=============================================================================
