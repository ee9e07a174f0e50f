SPECIFICATION Spec
CONSTANTS
    kva = kva
    kvb = kvb
    Store = {kva, kvb}
    Kinds = {"cpu", "gpu", "hybrid"}
    PlainToken = "plain"
    Pad = "pad"
    Capacity = 3
    PrefixChunk = 2
    AttentionBlock = 2
    GpuPositions = 2
    MaxSnapshots = 2
    MaxIds = 3
    MaxCalls = 3
    Failures <- MCFailures
    ExecUser = {"u1", "u2"}
    ExecWorkers = 3
    Operation <- MCOperations
    StripsPerPanel = 2
    Phases = 3
    MaxExecCalls = 2
    LoadWorker = {"w1", "w2"}
    LoadAsker = {"a1", "a2"}
    Formats = {"f16", "gpu", "moe", "hybrid", "encoder", "encoderGPU"}
    Geometry <- MCGeometry
    Fallible <- MCFallible
    MaxHeadLoads = 2
    Layers = 2
    Blocks = 2
    Passes <- MCPasses
    GpuLane = {"l1", "l2"}
    Vectors = {1, 2}
    Builds <- MCBuilds
    Indexes = 96
    UploadBytes = 22
    ParamStride = 8
    MaxQueued = 2
INVARIANTS
  
  ExecutorSafe
  WeightsSafe
  PassesSafe
PROPERTIES
  EveryOperationEnds
CHECK_DEADLOCK FALSE
