------------------------------ MODULE MCModels ------------------------------
(***************************************************************************)
(* The parts of a model, each on an instance of its own: a behaviour is    *)
(* one of the part that focus names.                                       *)
(***************************************************************************)
EXTENDS Evaluator, Executor, Loader, QwenPasses, StreamPasses, PortableGpu

CONSTANTS kva, kvb   \* prefix stores

VARIABLE focus

\* The failures after which a store holds what it reports.
MCFailures ==
    {<<"gpu", "token">>, <<"gpu", "device">>, <<"gpu", "nonfinite">>, <<"cpu", "token">>, <<"hybrid", "token">>, <<"hybrid", "nonfinite">>}

Op(k, rows, min, need, items) == [kind |-> k, rows |-> rows, minRows |-> min, need |-> need, items |-> items]
MCOperations ==
    {Op("rows", 0, 1, 0, 0), Op("rows", 4, 1, 3, 0), Op("mul", 35, 1, 1, 0),
     Op("claims", 3, 1, 0, 3), Op("split", 2, 1, 0, 2), Op("split", 3, 1, 0, 1), Op("lockstep", 2, 1, 0, 0)}

MCGeometry == [hidden |-> 2, qdim |-> 2, kv |-> 1, inter |-> 2, experts |-> 2, vocab |-> 5, chunk |-> 2, dn |-> <<2, 1, 1>>]
MCFallible == {<<"layer", 1>>, <<"q", 1>>, <<"head", 0>>, <<"out", 0>>}

\* Matrices of one chunk and of two, the last of which is smaller, on adapters
\* that bind, dispatch or index too few rows, or that cannot be used.
LimitsOf(binding, buffer, groups, workgroup) ==
    [accelerated |-> TRUE, binding |-> binding, buffer |-> buffer, groups |-> groups, workgroup |-> workgroup]
Build(limits, format, rows, cols) == [limits |-> limits, shape |-> [format |-> format, rows |-> rows, cols |-> cols]]
MCBuilds ==
    {Build(LimitsOf(128, 128, 8, 100), "Q8B", 5, 32), Build(LimitsOf(200, 400, 1, 32), "BF16", 3, 16), Build(LimitsOf(64, 64, 9, 128), "BF16", 1, 6),
     Build(LimitsOf(128, 128, 8, 16), "Q8B", 2, 32), Build([LimitsOf(128, 128, 8, 32) EXCEPT !.accelerated = FALSE], "Q8B", 2, 32),
     Build(LimitsOf(128, 40, 8, 32), "BF16", 4, 8), Build(LimitsOf(128, 128, 8, 32), "BF16", 2, 3)}

\* Every forward pass, with two layers and two or three rows.
Base == [h |-> <<>>, slot |-> <<>>, start |-> <<>>, base |-> 1, prefix |-> 0, split |-> FALSE, rotate |-> TRUE, moe |-> FALSE,
         grouped |-> FALSE, probe |-> <<>>, parts |-> GemvParts(4), layerParts |-> GemvParts(4)]
Of(p, n) == [p EXCEPT !.h = [r \in 0 .. n - 1 |-> r], !.slot = [r \in 0 .. n - 1 |-> r], !.start = [r \in 0 .. n - 1 |-> 0]]
Mm(p) == [p EXCEPT !.parts = MmParts, !.layerParts = IF p.moe THEN MoeParts ELSE MmParts]
Moe(p) == [p EXCEPT !.moe = TRUE, !.parts = GemvParts(8), !.layerParts = MoeParts]

Extend == Of(Base, 2)
Shared == [Of(Mm(Base), 3) EXCEPT !.base = 0, !.prefix = 2, !.start = 0 :> 0 @@ 1 :> 0 @@ 2 :> 2]
Cpu == [slot |-> <<>>, start |-> <<>>, past |-> 0, reuse |-> 0, owned |-> FALSE, rotate |-> FALSE, total |-> 3, asked |-> <<>>]

MCPasses ==
    [tokens |-> Pass([Extend EXCEPT !.probe = <<1, 1>>], encodeTokens([Extend EXCEPT !.probe = <<1, 1>>]), {1}),
     batch |-> Pass(Mm(Extend), encodeBatch(Mm(Extend)), {0, 1}),
     split |-> Pass([Mm(Extend) EXCEPT !.split = TRUE, !.rotate = FALSE], encodeBatch([Mm(Extend) EXCEPT !.split = TRUE, !.rotate = FALSE]), {1}),
     shared |-> [Pass(Shared, encodeBatch(Shared), {1, 2}) EXCEPT !.result = Final({1, 2})],
     experts |-> Pass(Moe(Extend), encodeTokens(Moe(Extend)), {1}),
     grouped |-> Pass(Mm([Moe(Extend) EXCEPT !.grouped = TRUE]), encodeBatch(Mm([Moe(Extend) EXCEPT !.grouped = TRUE])), {1}),
     hybridTokens |-> HybridPass(Moe(Extend), encodeHybridTokens(Moe(Extend)), {1}),
     hybridBatch |-> HybridPass(Mm(Moe(Extend)), encodeHybridBatch(Mm(Moe(Extend))), {1}),
     decode |-> decode(Extend, 3),
     lanes |-> decodeLanes(Extend),
     cpuBatch |-> CpuPass([Cpu EXCEPT !.slot = [r \in 0 .. 2 |-> r], !.start = 0 :> 0 @@ 1 :> 0 @@ 2 :> 2, !.asked = <<1, 2>>]),
     cpuReuse |-> CpuPass([Cpu EXCEPT !.slot = 1 :> 1 @@ 2 :> 2, !.start = [r \in 0 .. 2 |-> 0], !.past = 1, !.reuse = 1, !.owned = TRUE, !.rotate = TRUE, !.asked = <<1, 2>>]),
     asr |-> asrEncode(2, 2, <<0, 1, 2>>),
     asrGpu |-> gpuEncode(2, 2, TRUE, <<0, 1, 2>>),
     asrGpuWide |-> gpuEncode(2, 2, FALSE, <<0, 2>>),
     whisper |-> encodeInto(TRUE),
     whisperScalar |-> encodeInto(FALSE),
     whisperText |-> whisperDecode(TRUE),
     whisperTextScalar |-> whisperDecode(FALSE),
     codec |-> codecDecode,
     smartturn |-> smartturnPredict,
     tinymel |-> tinymelPredict,
     clm |-> ScoreInto(2)]

vars == <<focus, evaluatorVars, execVars, loadVars, forwardVars, gpuVars>>

Init ==
    /\ focus \in {"evaluator", "executor", "loader", "forward", "portable"}
    /\ IF focus = "forward" THEN ForwardInit
       ELSE pass = "none" /\ stages = <<{}>> /\ memory = NoBuffers /\ running = NoBuffers /\ finished = {}
    /\ EvaluatorInit /\ ExecInit /\ LoadInit
    /\ PortableInit /\ (focus # "portable" => engine.build.shape.rows = 1)
    /\ focus # "evaluator" => kind = "cpu"
    /\ focus # "loader" => weights.format = "f16" /\ weights.wants = ""

OfEvaluator(A) == focus = "evaluator" /\ A /\ UNCHANGED <<focus, execVars, loadVars, forwardVars, gpuVars>>
OfExecutor(A) == focus = "executor" /\ A /\ UNCHANGED <<focus, evaluatorVars, loadVars, forwardVars, gpuVars>>
OfLoader(A) == focus = "loader" /\ A /\ UNCHANGED <<focus, evaluatorVars, execVars, forwardVars, gpuVars>>
OfForward(A) == focus = "forward" /\ A /\ UNCHANGED <<focus, evaluatorVars, execVars, loadVars, gpuVars>>
OfPortable(A) == focus = "portable" /\ A /\ UNCHANGED <<focus, evaluatorVars, execVars, loadVars, forwardVars>>

\* The stores are alike: while they hold the same, a call of one is of kva.
AsIfOfA ==
    kv[kva] = kv[kvb] /\ inputs[kva] = inputs[kvb] => kv'[kva] # kv[kva] \/ kv'[kvb] = kv[kvb]

Next == OfEvaluator(EvaluatorNext /\ AsIfOfA) \/ OfExecutor(ExecNext) \/ OfLoader(LoadNext) \/ OfForward(ForwardNext) \/ OfPortable(PortableNext)

\* The goroutines run; calls need not come.
Progress ==
    \/ OfExecutor((\E i \in Shard : ShardStep(i)) \/ \E u \in ExecUser : UserStep(u))
    \/ OfLoader(LoaderRuns)

Spec == Init /\ [][Next]_vars /\ WF_vars(Progress)

\* Weights are loaded whole, committed once and released for good, and those
\* on a portable GPU are split, multiplied and released whole.
WeightsSafe == LoaderSafe /\ PortableSafe

\* Every operation of an executor and every load ends: no worker is waited
\* for that was not told, no barrier waits for one that has left, and jobs
\* that fail leave no goroutine behind.
EveryOperationEnds == []<>((focus = "executor" => ExecQuiet) /\ (focus = "loader" => LoadQuiet))
=============================================================================
