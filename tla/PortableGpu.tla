---------------------------- MODULE PortableGpu ----------------------------
(***************************************************************************)
(* The device layer of the portable GPU backend (internal/gpuportable):    *)
(* an engine over an adapter, the kernels it keeps, a matrix split into    *)
(* chunks that the adapter's limits allow, and lanes that upload a vector, *)
(* submit the matrix's dispatches with a copy of their output, and map     *)
(* that copy.                                                              *)
(*                                                                         *)
(* Sizes and limits are those of the code, small.  A row of a matrix is    *)
(* its number, a vector one value, and an element of the product the pair  *)
(* of both.  The queue, which the device works off in order, and when a    *)
(* mapping succeeds are WebGPU's; whatever creates something may fail.     *)
(* Matrices of BF16 weights have no scales.  A lane's own input and output *)
(* are modelled, not the shared ones that only tests pass.                 *)
(***************************************************************************)
EXTENDS Integers, Sequences, FiniteSets, SequencesExt, FiniteSetsExt

CONSTANTS GpuLane,      \* workspaces of the matrix
          Vectors,      \* inputs; a buffer that was never written holds zeros, the vector 0
          Builds,       \* an adapter's limits and the format, rows and cols of a matrix
          Indexes,      \* how many weights a shader can index (2^32 in the code)
          UploadBytes,  \* uploadChunkBytes
          ParamStride,  \* linearParamStride
          MaxQueued     \* bound: commands in the queue

ASSUME PortableAssumption == {Indexes, MaxQueued, ParamStride} \cup Vectors \subseteq Nat \ {0} /\ UploadBytes \in Nat /\ UploadBytes >= 4

VARIABLES engine,   \* phase, the build, and whether the matrix's kernel is kept
          matrix,   \* Linear: phase and chunks
          lanes,    \* each LinearWorkspace
          queue,    \* commands the device has yet to run
          device,   \* what each lane's buffers hold
          live      \* handles created and not released

gpuVars == <<engine, matrix, lanes, queue, device, live>>

NoResult == <<>>
Handle(kind, of, n) == [kind |-> kind, of |-> of, n |-> n]

-----------------------------------------------------------------------------
(* What a matrix is split into.                                            *)

Limit == engine.build.limits
Dims == engine.build.shape
IsQ8B == Dims.format = "Q8B"
WeightRowBytes == IF IsQ8B THEN Dims.cols ELSE 2 * Dims.cols
ScaleRowBytes == 2 * (Dims.cols \div 32)

\* acceleratedAdapter, and the limits that an adapter must report.
Usable(limits) == limits.accelerated /\ limits.binding > 0 /\ limits.buffer > 0

\* The workgroup halves from 128 until the adapter runs it.
WorkgroupSize == Max({n \in {0, 1, 2, 4, 8, 16, 32, 64, 128} : n <= Limit.workgroup})
RowsPerWorkgroup == IF Dims.cols % 16 # 0 THEN 1 ELSE 2
Vectorized == IsQ8B \/ Dims.cols % 16 = 0
TilesOfGroup == IF Vectorized THEN WorkgroupSize \div 32 ELSE 1
RowsPerGroup == TilesOfGroup * RowsPerWorkgroup

MaxRows ==
    Min({Dims.rows, Limit.groups * RowsPerGroup, Limit.binding \div WeightRowBytes, Indexes \div Dims.cols}
        \cup IF IsQ8B THEN {Limit.binding \div ScaleRowBytes} ELSE {})
Unsupported ==
    \/ WorkgroupSize < 32
    \/ Dims.cols % (IF IsQ8B THEN 32 ELSE 2) # 0
    \/ 4 * Dims.cols > Limit.binding \/ 4 * Dims.rows > Limit.binding
    \/ Limit.groups = 0 \/ MaxRows < 1

\* The rows a chunk's dispatch computes: each tile of each workgroup those
\* that follow its first (gemv).
Groups(chunk) == (chunk.rows + RowsPerGroup - 1) \div RowsPerGroup
ComputedRows(chunk) ==
    {r \in {wg * RowsPerGroup + tile * RowsPerWorkgroup + i : wg \in 0 .. Groups(chunk) - 1, tile \in 0 .. TilesOfGroup - 1, i \in 0 .. RowsPerWorkgroup - 1} :
        r < chunk.rows}

\* UploadBounded: the words that its submissions of chunk bytes, rounded down
\* to words, carry of n bytes.
Rounded(n) == 4 * ((n + 3) \div 4)
UploadStep == 4 * (UploadBytes \div 4)
UploadedBytes(n) == UNION {UploadStep * i .. Min({UploadStep * (i + 1), n}) - 1 : i \in 0 .. (n - 1) \div UploadStep}
\* The rows of n that are whole in a buffer of rows of size bytes.
RowsHeld(n, size) == {r \in 0 .. n - 1 : r * size .. (r + 1) * size - 1 \subseteq UploadedBytes(Rounded(n * size))}

-----------------------------------------------------------------------------
(* The engine and its matrix.                                              *)

EngineHandles == {Handle(k, "engine", 0) : k \in {"instance", "adapter", "device"}}
KernelHandles == {Handle(k, "kernel", 0) : k \in {"module", "bind", "layout", "pipeline"}}
ChunkHandles(chunks) ==
    {Handle("weight", "linear", i) : i \in DOMAIN chunks} \cup {Handle("scale", "linear", i) : i \in {j \in DOMAIN chunks : chunks[j].scaled}}

NoLinear == [phase |-> "none", chunks |-> <<>>]

\* New opens an adapter, or releases what it had opened of it.
OpenEngine ==
    /\ engine.phase = "none"
    /\ \/ Usable(Limit) /\ engine' = [engine EXCEPT !.phase = "open"] /\ live' = EngineHandles
       \/ engine' = [engine EXCEPT !.phase = "failed"] /\ UNCHANGED live
    /\ UNCHANGED <<matrix, lanes, queue, device>>

\* The matrix's kernel is the engine's, made once (linearKernel); NewKernel
\* that fails closes what it made.
BeginLinear ==
    /\ engine.phase = "open" /\ matrix.phase = "none"
    /\ \/ ~Unsupported /\ matrix' = [matrix EXCEPT !.phase = "building"] /\ engine' = [engine EXCEPT !.kernel = TRUE] /\ live' = live \cup KernelHandles
       \/ matrix' = [matrix EXCEPT !.phase = "failed"] /\ UNCHANGED <<engine, live>>
    /\ UNCHANGED <<lanes, queue, device>>

RowsSoFar == FoldLeft(LAMBDA n, chunk : n + chunk.rows, 0, matrix.chunks)
Scaled == matrix.chunks # <<>> /\ IsQ8B => Last(matrix.chunks).scaled

\* The next rows, as many as the limits allow: a buffer and its upload.
AddWeights ==
    LET count == Min({MaxRows, Dims.rows - RowsSoFar})
        chunk == [row0 |-> RowsSoFar, rows |-> count, holds |-> RowsHeld(count, WeightRowBytes), scaled |-> FALSE]
    IN /\ matrix.phase = "building" /\ RowsSoFar < Dims.rows /\ Scaled
       /\ count * WeightRowBytes <= Limit.buffer
       /\ matrix' = [matrix EXCEPT !.chunks = Append(@, chunk)]
       /\ live' = live \cup {Handle("weight", "linear", Len(matrix.chunks) + 1)}
       /\ UNCHANGED <<engine, lanes, queue, device>>

\* The scales of the rows, filled up to words.
AddScales ==
    LET n == Len(matrix.chunks) IN
    /\ matrix.phase = "building" /\ ~Scaled
    /\ Rounded(matrix.chunks[n].rows * ScaleRowBytes) <= Limit.buffer
    /\ matrix' = [matrix EXCEPT !.chunks[n].scaled = TRUE, !.chunks[n].holds = @ \cap RowsHeld(matrix.chunks[n].rows, ScaleRowBytes)]
    /\ live' = live \cup {Handle("scale", "linear", n)}
    /\ UNCHANGED <<engine, lanes, queue, device>>

LinearOpens ==
    /\ matrix.phase = "building" /\ RowsSoFar = Dims.rows /\ Scaled
    /\ matrix' = [matrix EXCEPT !.phase = "open"]
    /\ UNCHANGED <<engine, lanes, queue, device, live>>

\* Linear.Close: of a matrix whose building failed, or whose lanes are closed.
Gone(l) == lanes[l].phase \in {"none", "failed", "closed"}
CloseLinear ==
    /\ matrix.phase = "building" \/ (matrix.phase = "open" /\ \A l \in GpuLane : Gone(l))
    /\ matrix' = [phase |-> IF matrix.phase = "building" THEN "failed" ELSE "closed", chunks |-> <<>>]
    /\ live' = live \ ChunkHandles(matrix.chunks)
    /\ UNCHANGED <<engine, lanes, queue, device>>

\* Engine.Close waits for the queue, and closes the kernels it keeps.
CloseEngine ==
    /\ engine.phase = "open" /\ matrix.phase \in {"none", "failed", "closed"}
    /\ engine' = [engine EXCEPT !.phase = "closed", !.kernel = FALSE]
    /\ queue' = <<>> /\ live' = live \ (EngineHandles \cup IF engine.kernel THEN KernelHandles ELSE {})
    /\ UNCHANGED <<matrix, lanes, device>>

-----------------------------------------------------------------------------
(* Lanes.                                                                  *)

\* parts counts what newWorkspace has made: input, output and params, whose
\* bytes a buffer must be allowed, and then a bind group a chunk.
PartBytes(n) == IF n <= 3 THEN <<4 * Dims.cols, 4 * Dims.rows, ParamStride * Len(matrix.chunks)>>[n] ELSE 0
NewBuffers(rows) == [input |-> 0, staging |-> NoResult, output |-> [row \in 0 .. rows - 1 |-> NoResult]]
NoLane == [phase |-> "none", parts |-> 0, staging |-> FALSE, given |-> 0, got |-> NoResult]
PartOf(l, n) == IF n <= 3 THEN Handle(<<"input", "output", "params">>[n], l, 0) ELSE Handle("group", l, n - 3)
LaneHandles(l) == {PartOf(l, n) : n \in 1 .. lanes[l].parts} \cup IF lanes[l].staging THEN {Handle("staging", l, 0)} ELSE {}

OpenLane(l) ==
    /\ matrix.phase = "open" /\ lanes[l].phase = "none"
    /\ lanes' = [lanes EXCEPT ![l].phase = "building"]
    /\ UNCHANGED <<engine, matrix, queue, device, live>>
AddPart(l) ==
    /\ lanes[l].phase = "building" /\ lanes[l].parts < 3 + Len(matrix.chunks)
    /\ PartBytes(lanes[l].parts + 1) <= Limit.buffer
    /\ lanes' = [lanes EXCEPT ![l].parts = @ + 1]
    /\ live' = live \cup {PartOf(l, lanes[l].parts + 1)}
    /\ UNCHANGED <<engine, matrix, queue, device>>
\* The chunks' parameters are uploaded last; the upload waits for the queue,
\* which other lanes may fill again meanwhile.
LaneOpens(l) ==
    /\ lanes[l].phase = "building" /\ lanes[l].parts = 3 + Len(matrix.chunks)
    /\ lanes' = [lanes EXCEPT ![l].phase = "idle"]
    /\ UNCHANGED <<engine, matrix, queue, device, live>>
\* LinearWorkspace.Close, of a lane whose making failed too.  Nobody reads
\* what its commands still compute.
CloseLane(l) ==
    /\ lanes[l].phase \in {"building", "idle"}
    /\ lanes' = [lanes EXCEPT ![l] = [NoLane EXCEPT !.phase = IF lanes[l].phase = "building" THEN "failed" ELSE "closed"]]
    /\ live' = live \ LaneHandles(l)
    /\ queue' = SelectSeq(queue, LAMBDA c : c.lane # l) /\ device' = [device EXCEPT ![l] = NewBuffers(Dims.rows)]
    /\ UNCHANGED <<engine, matrix>>

UploadInput(l, v) ==
    /\ lanes[l].phase = "idle" /\ Len(queue) < MaxQueued
    /\ queue' = Append(queue, [op |-> "write", lane |-> l, value |-> v, chunks |-> {}])
    /\ lanes' = [lanes EXCEPT ![l].given = v, ![l].got = NoResult]
    /\ UNCHANGED <<engine, matrix, device, live>>

\* SubmitReadback: each dispatch a pass of its own, or all in one pass for
\* SubmitIndependentReadback, then the copy; a submission that fails leaves
\* the staging buffer it made.
Command(op, l, chunks) == [op |-> op, lane |-> l, value |-> 0, chunks |-> chunks]
Recording(l, independent) ==
    LET all == DOMAIN matrix.chunks IN
    (IF independent THEN <<Command("run", l, all)>> ELSE [i \in all |-> Command("run", l, {i})]) \o <<Command("copy", l, {})>>
SubmitReadback(l) ==
    /\ lanes[l].phase = "idle" /\ Len(queue) < MaxQueued
    /\ live' = live \cup {Handle("staging", l, 0)}
    /\ \/ \E independent \in BOOLEAN : queue' = queue \o Recording(l, independent) /\ lanes' = [lanes EXCEPT ![l].staging = TRUE, ![l].phase = "mapping"]
       \/ lanes' = [lanes EXCEPT ![l].staging = TRUE] /\ UNCHANGED queue
    /\ UNCHANGED <<engine, matrix, device>>

\* The mapping waits for what was submitted, and its copy is the result, or
\* times out and is cancelled, with the commands still in the queue.
Awaited(l) == \E i \in DOMAIN queue : queue[i].lane = l
mapReadback(l) ==
    /\ lanes[l].phase = "mapping"
    /\ \/ ~Awaited(l) /\ lanes' = [lanes EXCEPT ![l].phase = "idle", ![l].got = device[l].staging]
       \/ lanes' = [lanes EXCEPT ![l].phase = "idle", ![l].got = NoResult]
    /\ UNCHANGED <<engine, matrix, queue, device, live>>

\* External: the device runs the first command, dispatches of one pass in any
\* order.
Product(d, chunk) ==
    [d EXCEPT !.output = [row \in DOMAIN @ |->
        IF row - chunk.row0 \in ComputedRows(chunk) \cap chunk.holds THEN <<row, d.input>> ELSE @[row]]]
DeviceRuns ==
    /\ queue # <<>>
    /\ LET c == Head(queue)
           d == device[c.lane]
       IN CASE c.op = "write" -> device' = [device EXCEPT ![c.lane].input = c.value] /\ queue' = Tail(queue)
            [] c.op = "copy" -> device' = [device EXCEPT ![c.lane].staging = d.output] /\ queue' = Tail(queue)
            [] OTHER -> \E i \in c.chunks :
                 /\ device' = [device EXCEPT ![c.lane] = Product(d, matrix.chunks[i])]
                 /\ queue' = IF c.chunks = {i} THEN Tail(queue) ELSE [queue EXCEPT ![1].chunks = @ \ {i}]
    /\ UNCHANGED <<engine, matrix, lanes, live>>

-----------------------------------------------------------------------------
PortableInit ==
    \E build \in Builds :
        /\ engine = [phase |-> "none", build |-> build, kernel |-> FALSE]
        /\ matrix = NoLinear /\ lanes = [l \in GpuLane |-> NoLane] /\ queue = <<>> /\ live = {}
        /\ device = [l \in GpuLane |-> NewBuffers(build.shape.rows)]

PortableNext ==
    \/ OpenEngine \/ BeginLinear \/ AddWeights \/ AddScales \/ LinearOpens \/ CloseLinear \/ CloseEngine \/ DeviceRuns
    \/ \E l \in GpuLane :
         \/ OpenLane(l) \/ AddPart(l) \/ LaneOpens(l) \/ CloseLane(l) \/ SubmitReadback(l) \/ mapReadback(l)
         \/ \E v \in Vectors : UploadInput(l, v)

-----------------------------------------------------------------------------
\* A matrix that could be built has every row in one chunk, and no chunk is
\* beyond what the adapter binds, dispatches or indexes (newLinearGeometry
\* 59): a row at the border of two chunks is in one of them.
ChunksTile ==
    matrix.phase = "open" =>
        /\ \A row \in 0 .. Dims.rows - 1 :
             Cardinality({i \in DOMAIN matrix.chunks : row - matrix.chunks[i].row0 \in 0 .. matrix.chunks[i].rows - 1}) = 1
        /\ \A i \in DOMAIN matrix.chunks :
             LET n == matrix.chunks[i].rows
             IN n * WeightRowBytes <= Limit.binding /\ n * Dims.cols <= Indexes /\ Groups(matrix.chunks[i]) <= Limit.groups
                /\ (IsQ8B => n * ScaleRowBytes <= Limit.binding)

\* A lane reads the product of the whole matrix with the vector it last
\* uploaded, whatever other lanes submitted in between, whichever dispatches
\* shared a pass, and after a mapping that timed out while its copy was still
\* to come (SubmitReadback 383, copyMappedReadback 450).
ReadsProduct ==
    \A l \in GpuLane : lanes[l].got # NoResult => lanes[l].got = [row \in 0 .. Dims.rows - 1 |-> <<row, lanes[l].given>>]

\* Nothing is leaked or released under its owner: what is live is what the
\* engine, the matrix and the lanes hold, wherever making one of them failed
\* (New 43, newLinearGeometry 126, newWorkspace 171, the Close methods).
HandlesOwned ==
    live = (IF engine.phase = "open" THEN EngineHandles ELSE {}) \cup (IF engine.kernel THEN KernelHandles ELSE {})
           \cup ChunkHandles(matrix.chunks) \cup UNION {LaneHandles(l) : l \in GpuLane}

PortableSafe == ChunksTile /\ ReadsProduct /\ HandlesOwned
=============================================================================
