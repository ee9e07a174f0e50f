------------------------------- MODULE Loader -------------------------------
(***************************************************************************)
(* Loading the weights of a model: qwen3lm.Load with its CPU and GPU       *)
(* formats, LoadHead later by whoever generates first, Release, and the    *)
(* encoder loaders of qwen3asr.  Up to eight goroutines take jobs, each of *)
(* which reads tensors of the checkpoint and writes rows of the matrices   *)
(* in a region: a layer's buffer of a cache entry, or a packed matrix.     *)
(*                                                                         *)
(* A job is the rows it writes and the region; a row is <<matrix, row>>.   *)
(***************************************************************************)
EXTENDS Integers, Sequences, FiniteSets, SequencesExt

CONSTANTS LoadWorker,   \* goroutines of a loader
          LoadAsker,    \* goroutines that have the loaded model
          Formats,      \* formats loaded: subset of the keys of JobsOf
          Geometry,     \* hidden, qdim, kv, inter, experts, vocab, dn (in, gate and decay rows), chunk
          Fallible,     \* jobs (regions) whose tensors may fail to read
          MaxHeadLoads  \* bound: calls of LoadHead, and of Release

VARIABLES
    weights,   \* the Weights: format, phase, headMu, headName, released, what is held outside the heap
    batch,     \* the jobs being run: what for, jobs, next, first error, jobs left per region
    crew,      \* each goroutine of the loader: pc and job
    cells,     \* how often each row of each region was written
    filled,    \* how often each region was declared filled
    askers,    \* callers of LoadHead and Release
    asked      \* how many calls they made

loadVars == <<weights, batch, crew, cells, filled, askers, asked>>

-----------------------------------------------------------------------------
(* Jobs.                                                                   *)

Hidden == Geometry.hidden
Inter == Geometry.inter
Experts == Geometry.experts

\* Row r of a tensor, in the matrix.
RowAt(row0, r, step) == row0 + r * step

Job(region, matrix, src, row0, step) == [region |-> region, rows |-> {<<matrix, RowAt(row0, r, step)>> : r \in src}]
N(n) == 0 .. n - 1
Layer(i) == <<"layer", i>>
HeadRegion == <<"head", 0>>

denseJobs(i) ==
    <<Job(Layer(i), "qkv", N(Geometry.qdim), 0, 1), Job(Layer(i), "qkv", N(Geometry.kv), Geometry.qdim, 1), Job(Layer(i), "qkv", N(Geometry.kv), Geometry.qdim + Geometry.kv, 1),
      Job(Layer(i), "o", N(Hidden), 0, 1)>>

mlpJobs(i) == <<Job(Layer(i), "gu", N(Inter), 0, 2), Job(Layer(i), "gu", N(Inter), 1, 2), Job(Layer(i), "d", N(Hidden), 0, 1)>>

\* Each expert's gate and up rows alternate, expert after expert.
expertJobs(i) ==
    <<Job(Layer(i), "router", N(Experts), 0, 1)>>
    \o FlattenSeq([k \in 1 .. Experts |->
        LET e == k - 1 IN
        <<Job(Layer(i), "gu", N(Inter), e * 2 * Inter, 2), Job(Layer(i), "gu", N(Inter), e * 2 * Inter + 1, 2), Job(Layer(i), "d", N(Hidden), e * Hidden, 1)>>])

\* The routed experts are stacked in one tensor, gate rows then up rows.
StackedJobs(i, e) ==
    LET g0 == e * 2 * Inter IN
    <<Job(Layer(i), "gu", g0 .. g0 + Inter - 1, -g0, 2), Job(Layer(i), "gu", g0 + Inter .. g0 + 2 * Inter - 1, 1 - g0 - 2 * Inter, 2), Job(Layer(i), "d", e * Hidden .. (e + 1) * Hidden - 1, 0, 1)>>

\* hybridJobs: odd layers are DeltaNet's; the shared expert is the last one.
hybridJobs(i) ==
    LET dn == Geometry.dn IN
    (IF i % 2 = 1
     THEN <<Job(Layer(i), "qkv", N(dn[1]), 0, 1), Job(Layer(i), "qkv", N(dn[2]), dn[1], 1), Job(Layer(i), "qkv", N(dn[3]), dn[1] + dn[2], 1),
            Job(Layer(i), "qkv", N(dn[3]), dn[1] + dn[2] + dn[3], 1), Job(Layer(i), "o", N(Hidden), 0, 1)>>
     ELSE <<Job(Layer(i), "qkv", N(2 * Geometry.qdim), 0, 1), Job(Layer(i), "qkv", N(Geometry.kv), 2 * Geometry.qdim, 1),
            Job(Layer(i), "qkv", N(Geometry.kv), 2 * Geometry.qdim + Geometry.kv, 1), Job(Layer(i), "o", N(Hidden), 0, 1)>>)
    \o <<Job(Layer(i), "router", N(Experts), 0, 1), Job(Layer(i), "router", N(1), Experts, 1), Job(Layer(i), "gu", N(Inter), Experts * 2 * Inter, 2),
         Job(Layer(i), "gu", N(Inter), Experts * 2 * Inter + 1, 2), Job(Layer(i), "d", N(Hidden), Experts * Hidden, 1)>>
    \o FlattenSeq([k \in 1 .. Experts |-> StackedJobs(i, k - 1)])

\* The head in chunks: by prepareGPU, and by loadCPUHead.
headJobs ==
    [c \in 1 .. (Geometry.vocab + Geometry.chunk - 1) \div Geometry.chunk |->
        Job(HeadRegion, "lm", {r \in N(Geometry.vocab) : r \div Geometry.chunk = c - 1}, 0, 1)]

\* loadEncoder and loadGPUEncoder: a matrix may stack tensors; on the GPU
\* each is a job, on the CPU one job packs them all.
encoderJobs(gpu) ==
    <<Job(<<"norm", 0>>, "v", N(1), 0, 1), Job(<<"conv1", 0>>, "w", N(Hidden), 0, 1), Job(<<"out", 0>>, "w", N(Hidden), 0, 1)>>
    \o (IF gpu THEN [j \in 1 .. 3 |-> Job(<<"qkv", 0>>, "w", N(Hidden), (j - 1) * Hidden, 1)] ELSE <<Job(<<"qkv", 0>>, "w", N(3 * Hidden), 0, 1)>>)

LayersOf(f(_)) == f(1) \o f(2)
JobsOf(format) ==
    CASE format \in {"f16", "int8"} -> LayersOf(LAMBDA i : <<Job(<<"q", i>>, "w", N(Hidden), 0, 1), Job(<<"gate", i>>, "w", N(Inter), 0, 1)>>)
      [] format = "gpu" -> LayersOf(LAMBDA i : denseJobs(i) \o mlpJobs(i))
      [] format = "moe" -> denseJobs(1) \o expertJobs(1)
      [] format = "hybrid" -> LayersOf(hybridJobs)
      [] format = "encoder" -> encoderJobs(FALSE)
      [] format = "encoderGPU" -> encoderJobs(TRUE)
      [] format = "head" -> headJobs

\* place: the rows that each matrix of a region has, as they were laid out.
Shape(format, region) ==
    LET matrix(name, n) == {name} \X N(n)
        all == Experts + (IF format = "hybrid" THEN 1 ELSE 0)
        mlp == IF format = "gpu" THEN matrix("gu", 2 * Inter) \cup matrix("d", Hidden)
               ELSE matrix("router", all) \cup matrix("gu", all * 2 * Inter) \cup matrix("d", all * Hidden)
        qkv == IF format # "hybrid" THEN Geometry.qdim + 2 * Geometry.kv
               ELSE IF region[2] % 2 = 1 THEN Geometry.dn[1] + Geometry.dn[2] + 2 * Geometry.dn[3]
               ELSE 2 * Geometry.qdim + 2 * Geometry.kv
    IN CASE format \in {"gpu", "moe", "hybrid"} -> matrix("qkv", qkv) \cup matrix("o", Hidden) \cup mlp
         [] format = "head" -> matrix("lm", Geometry.vocab)
         [] format \in {"f16", "int8"} -> matrix("w", IF region[1] = "q" THEN Hidden ELSE Inter)
         [] OTHER -> IF region[1] = "norm" THEN matrix("v", 1) ELSE matrix("w", IF region[1] = "qkv" THEN 3 * Hidden ELSE Hidden)

Encoder(format) == format \in {"encoder", "encoderGPU"}
OnGPU(format) == format \in {"gpu", "moe", "hybrid", "encoderGPU"}
RegionsOf(format) == {j.region : j \in ToSet(JobsOf(format))}

-----------------------------------------------------------------------------
NoBatch == [what |-> "none", owner |-> "load", jobs |-> <<>>, next |-> 1, err |-> FALSE, left |-> <<>>]

\* The goroutines start: a region is filled when its last job finishes.
JobBatch(what, owner) ==
    LET jobs == JobsOf(what) IN
    [what |-> what, owner |-> owner, jobs |-> jobs, next |-> 1, err |-> FALSE,
     left |-> [r \in RegionsOf(what) |-> Cardinality({k \in DOMAIN jobs : jobs[k].region = r})]]
Starting == [w \in LoadWorker |-> [pc |-> "take", job |-> 0]]

\* What is held before the jobs run: the mapped table, the device, its
\* buffers and the entry, or the arena.
Opened(format) == IF OnGPU(format) THEN {"map", "device", "cache"} ELSE {"map", "arena"}

LoadInit ==
    /\ weights \in {[format |-> f, phase |-> "layers", mu |-> "free", head |-> "", wants |-> h, released |-> FALSE,
                     held |-> Opened(f), committed |-> {}, crashed |-> FALSE] :
                       f \in Formats, h \in {"", "lm_head"}}
    /\ batch = JobBatch(weights.format, "load")
    /\ crew = Starting
    /\ cells = <<>> /\ filled = <<>>
    /\ askers = [a \in LoadAsker |-> [pc |-> "idle", name |-> ""]] /\ asked = 0

Written(region, row) == IF <<region, row>> \in DOMAIN cells THEN cells[<<region, row>>] ELSE 0
Plus1(f, keys) == [k \in DOMAIN f \cup keys |-> (IF k \in DOMAIN f THEN f[k] ELSE 0) + (IF k \in keys THEN 1 ELSE 0)]

LoadTypeOK ==
    /\ weights.phase \in {"layers", "head", "ready", "failed"}
    /\ weights.mu \in LoadAsker \cup {"free", "load"}
    /\ weights.held \subseteq {"map", "device", "cache", "arena", "headCache", "headArena"}
    /\ batch.next \in 1 .. Len(batch.jobs) + 1
    /\ \A w \in LoadWorker : crew[w].pc \in {"take", "work", "finish", "exit"}
    /\ asked \in 0 .. MaxHeadLoads

Exhausted == batch.next > Len(batch.jobs)

\* Under mu: the next job, unless one failed; the encoders' jobs come
\* through a channel that is fed to its end whatever fails.
TakeJob(w) ==
    /\ crew[w].pc = "take" /\ batch.what # "none"
    /\ IF Exhausted \/ (batch.err /\ ~Encoder(batch.what))
       THEN crew' = [crew EXCEPT ![w].pc = "exit"] /\ UNCHANGED batch
       ELSE crew' = [crew EXCEPT ![w] = [pc |-> "work", job |-> batch.next]] /\ batch' = [batch EXCEPT !.next = @ + 1]
    /\ UNCHANGED <<weights, cells, filled, askers, asked>>

\* What a job writes: it reads, rotates, quantizes (or places rows of a GPTQ
\* file) and stores.
Stored(j) == {j.region} \X j.rows

DoJob(w) ==
    LET j == batch.jobs[crew[w].job] IN
    /\ crew[w].pc = "work"
    /\ cells' = Plus1(cells, Stored(j))
    /\ crew' = [crew EXCEPT ![w].pc = "finish"]
    /\ UNCHANGED <<weights, batch, filled, askers, asked>>

\* Done tells the entry that a region can be written out.
FinishJob(w) ==
    LET r == batch.jobs[crew[w].job].region IN
    /\ crew[w].pc = "finish"
    /\ batch' = [batch EXCEPT !.left[r] = @ - 1]
    /\ filled' = IF batch.left[r] = 1 THEN Plus1(filled, {r}) ELSE filled
    /\ crew' = [crew EXCEPT ![w].pc = "take"]
    /\ UNCHANGED <<weights, cells, askers, asked>>

\* A tensor is missing or of another type.  The loader of a GPU's encoder
\* reorders the first convolution before it looks at the error.
JobFails(w) ==
    LET j == batch.jobs[crew[w].job] IN
    /\ crew[w].pc = "work" /\ j.region \in Fallible
    /\ batch' = [batch EXCEPT !.err = TRUE]
    /\ crew' = [crew EXCEPT ![w].pc = IF OnGPU(batch.what) /\ ~Encoder(batch.what) THEN "exit" ELSE "take"]
    /\ weights' = [weights EXCEPT !.crashed = batch.what = "encoderGPU" /\ j.region[1] = "conv1"]
    /\ UNCHANGED <<cells, filled, askers, asked>>

AllExited == batch.what # "none" /\ \A w \in LoadWorker : crew[w].pc = "exit"

\* Release, and what a failed load frees.
Freed(x) == [x EXCEPT !.released = TRUE, !.held = {}, !.head = ""]

\* The layers are in: an entry is committed, and a head that Load was asked
\* for is next, under headMu.
LayersLoaded ==
    /\ AllExited /\ batch.what # "head" /\ ~batch.err
    /\ LET more == weights.wants # "" /\ ~Encoder(weights.format) IN
       /\ weights' = [weights EXCEPT !.phase = IF more THEN "head" ELSE "ready", !.mu = IF more THEN "load" ELSE "free",
                                     !.committed = IF OnGPU(weights.format) THEN {"cache"} ELSE {},
                                     !.held = IF more THEN @ \cup {IF OnGPU(weights.format) THEN "headCache" ELSE "headArena"} ELSE @]
       /\ batch' = IF more THEN JobBatch("head", "load") ELSE NoBatch
       /\ crew' = IF more THEN Starting ELSE crew
    /\ UNCHANGED <<cells, filled, askers, asked>>

HeadLoaded ==
    /\ AllExited /\ batch.what = "head" /\ ~batch.err
    /\ weights' = [weights EXCEPT !.mu = "free", !.phase = "ready", !.head = IF batch.owner = "load" THEN weights.wants ELSE askers[batch.owner].name,
                                  !.committed = IF OnGPU(weights.format) THEN @ \cup {"headCache"} ELSE @]
    /\ batch' = NoBatch
    /\ askers' = IF batch.owner = "load" THEN askers ELSE [askers EXCEPT ![batch.owner].pc = "idle"]
    /\ UNCHANGED <<crew, cells, filled, asked>>

\* A failed Load releases everything; a failed LoadHead closes the entry of
\* the head, which may be loaded again, but keeps the CPU's arena.
LoadFails ==
    /\ AllExited /\ batch.err
    /\ LET kept == [weights EXCEPT !.mu = "free", !.held = @ \ {"headCache"}] IN
       /\ weights' = IF batch.owner = "load" THEN [Freed(kept) EXCEPT !.phase = "failed"] ELSE kept
       /\ askers' = IF batch.owner = "load" THEN askers ELSE [askers EXCEPT ![batch.owner].pc = "idle"]
    /\ cells' = [k \in {k \in DOMAIN cells : k[1] # HeadRegion} |-> cells[k]]
    /\ filled' = [r \in DOMAIN filled \ {HeadRegion} |-> filled[r]]
    /\ batch' = NoBatch
    /\ UNCHANGED <<crew, asked>>

-----------------------------------------------------------------------------
AskerTo(a, pc) == [askers EXCEPT ![a].pc = pc]

\* LoadHead looks whether the head is there and gives headMu up to open the
\* checkpoint, then loadHeadFrom looks again.
LoadHead(a, name) ==
    /\ weights.phase = "ready" /\ ~Encoder(weights.format) /\ askers[a].pc = "idle" /\ asked < MaxHeadLoads /\ weights.mu = "free"
    /\ askers' = [askers EXCEPT ![a] = [pc |-> IF weights.released \/ weights.head = name THEN "idle" ELSE "open", name |-> name]]
    /\ asked' = asked + 1
    /\ UNCHANGED <<weights, batch, crew, cells, filled>>

BugMayLoad(a) == weights.head = ""
MayLoad(a) == ~weights.released /\ weights.head = ""

loadHeadFrom(a) ==
    /\ askers[a].pc = "open" /\ weights.mu = "free"
    /\ IF MayLoad(a)
       THEN /\ weights' = [weights EXCEPT !.mu = a, !.held = @ \cup {IF OnGPU(weights.format) THEN "headCache" ELSE "headArena"}]
            /\ batch' = JobBatch("head", a) /\ crew' = Starting
            /\ cells' = [k \in {k \in DOMAIN cells : k[1] # HeadRegion} |-> cells[k]]
            /\ filled' = [r \in DOMAIN filled \ {HeadRegion} |-> filled[r]]
            /\ askers' = AskerTo(a, "loading")
       ELSE askers' = AskerTo(a, "idle") /\ UNCHANGED <<weights, batch, crew, cells, filled>>
    /\ UNCHANGED asked

Release(a) ==
    /\ weights.phase = "ready" /\ askers[a].pc = "idle" /\ asked < MaxHeadLoads /\ weights.mu = "free"
    /\ weights' = Freed(weights)
    /\ asked' = asked + 1
    /\ UNCHANGED <<batch, crew, cells, filled, askers>>

LoaderRuns ==
    \/ \E w \in LoadWorker : TakeJob(w) \/ DoJob(w) \/ FinishJob(w) \/ JobFails(w)
    \/ LayersLoaded \/ HeadLoaded \/ LoadFails
    \/ \E a \in LoadAsker : loadHeadFrom(a)

LoadNext ==
    \/ ~weights.crashed /\ LoaderRuns
    \/ \E a \in LoadAsker : Release(a) \/ \E name \in {"lm_head", "other"} : LoadHead(a, name)

-----------------------------------------------------------------------------
\* A region is declared filled once, when every row that was laid out for it
\* has been written, each by one job, and nothing is written after that;
\* Done may write it out to the entry from then on.
FilledWhole ==
    /\ \A k \in DOMAIN cells : cells[k] <= 1
    /\ \A r \in DOMAIN filled :
        /\ filled[r] = 1
        /\ {k[2] : k \in {k \in DOMAIN cells : k[1] = r}} = Shape(IF r = HeadRegion THEN "head" ELSE weights.format, r)

\* An entry is committed, and a head named, when all regions are filled.
CommittedWhole ==
    /\ "cache" \in weights.committed => RegionsOf(weights.format) \subseteq DOMAIN filled
    /\ weights.head # "" \/ "headCache" \in weights.committed => HeadRegion \in DOMAIN filled

\* Once released, nothing is held outside the heap, and no goroutine still
\* fills memory that is gone: a LoadHead that began before is too late.
ReleasedForGood ==
    weights.released => weights.held = {} /\ weights.head = "" /\ batch.what = "none"

\* A tensor that cannot be read makes the load return its error.
ErrorsReturned == ~weights.crashed

LoadQuiet == batch.what = "none" /\ \A a \in LoadAsker : askers[a].pc = "idle"

\* Only whole weights are published, and none outlive their Release.
LoaderSafe == LoadTypeOK /\ FilledWhole /\ CommittedWhole /\ ReleasedForGood

=============================================================================
