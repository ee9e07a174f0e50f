----------------------------- MODULE QwenPasses -----------------------------
(***************************************************************************)
(* The forward passes of internal/qwen3lm as programs of Forward: the GPU  *)
(* passes of gpu_darwin.go and gpu_hybrid_darwin.go, and the layer loop of *)
(* evaluator.go with the parallel operations of ops.go.                    *)
(*                                                                         *)
(* A result is a triple: what it is, of which row (a token of the pass),   *)
(* of which layer.  A pass p says which rows it has, at which row of h and *)
(* of the other buffers each is, and how the partial sums of squares that  *)
(* a normalization reads are laid out.                                     *)
(***************************************************************************)
EXTENDS Forward

CONSTANT Layers   \* layers of the model

Value(what, r, i) == <<what, r, i>>
Squares(v, parts) == <<"squares", v, parts>>

\* The residual a layer starts from, and rows of a buffer with their values.
Into(r, i) == IF i = 1 THEN Value("embed", r, 0) ELSE Value("mlp", r, i - 1)
At(name, index, f(_)) == [b \in {<<name, index[r]>> : r \in DOMAIN index} |-> f(CHOOSE r \in DOMAIN index : index[r] = b[2])]
One(name, v) == <<name, 0>> :> v

\* Partial sums per row: one of a table's row, one per gpuRows (32, or 16 of
\* the formats with 8 bits) of a GEMV, one per mmColumns of a GEMM, one per
\* 16 of the experts, for a hidden width of 64.
gpuRows(bits) == IF bits \in {8, 9} THEN 16 ELSE 32
GemvParts(bits) == 64 \div gpuRows(bits)
MmParts == 64 \div 64
MoeParts == 64 \div 16

-----------------------------------------------------------------------------
(* Projections.                                                            *)

\* gemv and mmRun: small grids split K over several threadgroups, and a
\* finishing kernel adds their sums.
Project(p, name, i, x, old, writes) ==
    IF ~p.split THEN <<{Kernel(<<name, i>>, x @@ old, writes)}>>
    ELSE LET part == [z \in {1, 2} |-> <<"scratch", z>> :> Value(name, z, i)]
         IN <<{Kernel(<<name, i, z>>, x, part[z]) : z \in {1, 2}},
              {Kernel(<<name, i, "finish">>, part[1] @@ part[2] @@ old, writes)}>>

H(p, what, i) == At("h", p.h, LAMBDA r : IF what = "in" THEN Into(r, i) ELSE Value(what, r, i))
Rows(p, name, what, i) == At(name, p.slot, LAMBDA r : Value(what, r, i))
Sums(p, name, what, i, parts) == At(name, p.slot, LAMBDA r : Squares(Value(what, r, i), parts))

\* The projection into q, k and v (or into the gated form of a hybrid
\* layer): the first layer normalizes by the sum of the embedding's row, the
\* others by the sums of the layer before.
ProjectQKV(p, i) ==
    Project(p, "qkv", i,
            H(p, "in", i) @@ (IF i = 1 THEN At("embedParts", p.h, LAMBDA r : Squares(Into(r, 1), 1))
                              ELSE Sums(p, "attnParts", "mlp", i - 1, p.layerParts)),
            NoBuffers, Rows(p, "qkv", "qkv", i))

ProjectO(p, i) ==
    Project(p, "o", i, Rows(p, "ctx", "ctx", i), H(p, "in", i),
            H(p, "mid", i) @@ Sums(p, "mlpParts", "mid", i, p.parts))

\* The dense MLP: gate and up, the rotation of formats that have one, down.
Mlp(p, i) ==
    Project(p, "gateup", i, H(p, "mid", i) @@ Sums(p, "mlpParts", "mid", i, p.parts), NoBuffers, Rows(p, "act", "act", i))
    \o (IF p.rotate THEN <<{Kernel(<<"rotate", i>>, Rows(p, "act", "act", i), Rows(p, "act", "rotated", i))}>> ELSE <<>>)
    \o Project(p, "down", i, Rows(p, "act", IF p.rotate THEN "rotated" ELSE "act", i), H(p, "mid", i),
               H(p, "mlp", i) @@ Sums(p, "attnParts", "mlp", i, p.parts))

-----------------------------------------------------------------------------
(* Experts.                                                                *)

\* The top experts of each row: the router clears the counts that the choice
\* adds to.
Route(p, i) ==
    <<{Kernel(<<"router", i>>, H(p, "mid", i) @@ Sums(p, "mlpParts", "mid", i, p.parts),
              Rows(p, "route", "route", i) @@ One("counts", Value("zero", 0, i)))},
      {Kernel(<<"route", i>>, Rows(p, "route", "route", i) @@ One("counts", Value("zero", 0, i)),
              Rows(p, "ids", "ids", i) @@ Rows(p, "wts", "wts", i) @@ Rows(p, "rank", "rank", i) @@ One("counts", Value("counts", 0, i)))}>>

FewExperts(p, i) ==
    <<{Kernel(<<"experts gateup", i>>, H(p, "mid", i) @@ Sums(p, "mlpParts", "mid", i, p.parts) @@ Rows(p, "ids", "ids", i), Rows(p, "act", "act", i))},
      {Kernel(<<"experts down", i>>, Rows(p, "act", "act", i) @@ Rows(p, "ids", "ids", i) @@ Rows(p, "wts", "wts", i) @@ H(p, "mid", i),
              H(p, "mlp", i) @@ Sums(p, "attnParts", "mlp", i, MoeParts))}>>

\* encodeGroupedExperts: the rows of each expert in tiles; the down
\* projection keeps the buffers the one before it bound.
GroupedExperts(p, i) ==
    LET grouped == One("list", Value("list", 0, i)) @@ One("tiles", Value("tiles", 0, i))
    IN <<{Kernel(<<"tiles", i>>, Rows(p, "ids", "ids", i) @@ Rows(p, "rank", "rank", i) @@ One("counts", Value("counts", 0, i)), grouped)},
         {Kernel(<<"grouped gateup", i>>, H(p, "mid", i) @@ Sums(p, "mlpParts", "mid", i, p.parts) @@ grouped, Rows(p, "act", "act", i))},
         {Kernel(<<"grouped down", i>>, Rows(p, "act", "act", i) @@ grouped @@ Rows(p, "wts", "wts", i), Rows(p, "moeOut", "moeOut", i))},
         {Kernel(<<"combine", i>>, Rows(p, "moeOut", "moeOut", i) @@ H(p, "mid", i),
                 H(p, "mlp", i) @@ Sums(p, "attnParts", "mlp", i, MoeParts))}>>

encodeMoE(p, i) == Route(p, i) \o (IF p.grouped THEN GroupedExperts(p, i) ELSE FewExperts(p, i))

FeedForward(p, i) == IF p.moe THEN encodeMoE(p, i) ELSE Mlp(p, i)

-----------------------------------------------------------------------------
(* Attention.                                                              *)

\* Rows lo .. hi - 1 of a cache of layer i: the prefix, then the rows of the
\* pass from base on.
Cache(name, i, lo, hi, base) ==
    [b \in {<<name, j, i>> : j \in lo .. hi - 1} |->
        IF b[2] < base THEN Value("kept", b[2], i) ELSE Value("kv", b[2] - base, i)]

\* attend1: one row normalizes and stores its own key and value.
Attend1(p, r, i) ==
    <<{Kernel(<<"attend", r, i>>, Rows(p, "qkv", "qkv", i) @@ Cache("cur", i, 0, p.base + r, p.base),
              Rows(p, "ctx", "ctx", i) @@ Cache("cur", i, p.base + r, p.base + r + 1, p.base))}>>

\* encodeProbe: the weights of one head over the keys, before another layer
\* overwrites the query.
encodeProbe(p, r, i) ==
    <<{Kernel(<<"probe", i>>, Rows(p, "qkv", "qkv", i) @@ Cache("cur", i, 0, p.base + r + 1, p.base), One("probeOut", Value("probs", r, i)))}>>

\* qkRope and attendFlash (attendM): every row stores its key and value, then
\* each attends to the shared prefix and to the rows of its own sequence.
AttendBatch(p, i) ==
    LET row(r) == [p EXCEPT !.slot = r :> p.slot[r]]
    IN <<{Kernel(<<"rope", r, i>>, Rows(row(r), "qkv", "qkv", i) @@ Rows(row(r), "info", "info", 0),
                 Rows(row(r), "qkv", "query", i) @@ Cache("cur", i, p.base + r, p.base + r + 1, p.base)) : r \in DOMAIN p.slot},
         {Kernel(<<"attend", r, i>>, Rows(row(r), "qkv", "query", i) @@ Rows(row(r), "info", "info", 0)
                     @@ Cache("pre", i, 0, p.prefix, p.prefix) @@ Cache("cur", i, p.start[r], p.base + r + 1, p.base),
                 Rows(row(r), "ctx", "ctx", i)) : r \in DOMAIN p.slot}>>

\* encodeDeltaNet: the convolution reads the inputs kept from the rows before
\* and then keeps the last of these; the scan goes on from the memory.
encodeDeltaNet(p, i) ==
    LET first == CHOOSE r \in DOMAIN p.slot : \A q \in DOMAIN p.slot : r <= q
        last == CHOOSE r \in DOMAIN p.slot : \A q \in DOMAIN p.slot : q <= r
        state(name, r) == <<name, i>> :> Value(name, r, i)
        mixed == Rows(p, "dnx", "dnx", i) @@ Rows(p, "gb", "gb", i)
    IN <<{Kernel(<<"prep", i>>, Rows(p, "qkv", "qkv", i) @@ state("conv", first - 1), mixed)},
         {Kernel(<<"conv state", i>>, Rows(p, "qkv", "qkv", i) @@ state("conv", first - 1), state("conv", last))},
         {Kernel(<<"scan", i>>, mixed @@ state("s", first - 1), state("s", last) @@ Rows(p, "dnOut", "dnOut", i))},
         {Kernel(<<"norm", i>>, Rows(p, "dnOut", "dnOut", i) @@ Rows(p, "qkv", "qkv", i), Rows(p, "ctx", "ctx", i))}>>

-----------------------------------------------------------------------------
(* The passes.                                                             *)

EachLayer(f(_)) == FlattenSeq([i \in 1 .. Layers |-> f(i)])

encodeBatch(p) ==
    EachLayer(LAMBDA i : ProjectQKV(p, i) \o AttendBatch(p, i) \o ProjectO(p, i) \o FeedForward(p, i))

\* The layers of one token, whose rows but that of h are the first ones.
Token(p, r, h) == [p EXCEPT !.h = r :> h, !.slot = r :> 0, !.split = FALSE, !.grouped = FALSE]

encodeToken(p, r, h) ==
    LET t == Token(p, r, h) IN
    EachLayer(LAMBDA i : ProjectQKV(t, i) \o Attend1(t, r, i) \o (IF <<r, i>> = p.probe THEN encodeProbe(t, r, i) ELSE <<>>)
                         \o ProjectO(t, i) \o FeedForward(t, i))

encodeTokens(p) == FlattenSeq([t \in 1 .. Cardinality(DOMAIN p.h) |-> encodeToken(p, t - 1, t - 1)])

\* Qwen3.5: odd layers are DeltaNet's, even ones attention, and all have
\* experts.
encodeHybridBatch(p) ==
    EachLayer(LAMBDA i : ProjectQKV(p, i) \o (IF i % 2 = 1 THEN encodeDeltaNet(p, i) ELSE AttendBatch(p, i))
                         \o ProjectO(p, i) \o encodeMoE(p, i))

encodeHybridTokens(p) ==
    FlattenSeq([t \in 1 .. Cardinality(DOMAIN p.h) |->
        LET q == Token(p, t - 1, t - 1) IN
        EachLayer(LAMBDA i : ProjectQKV(q, i) \o (IF i % 2 = 1 THEN encodeDeltaNet(q, i) ELSE Attend1(q, t - 1, i))
                             \o ProjectO(q, i) \o encodeMoE(q, i))])

\* pass: the rows and their sums, the encoder, and the states of the rows
\* that are asked for.
Embed(p) ==
    <<{Kernel("embed", NoBuffers, H(p, "in", 1) @@ At("embedParts", p.h, LAMBDA r : Squares(Into(r, 1), 1)) @@ Rows(p, "info", "info", 0))}>>

States(p, rows) ==
    <<{Kernel("states", At("h", [r \in rows |-> p.h[r]], LAMBDA r : Value("mlp", r, Layers)),
              [b \in {<<"dst", r>> : r \in rows} |-> Value("state", b[2], 0)])}>>

Final(rows) == [b \in {<<"dst", r>> : r \in rows} |-> Value("state", b[2], 0)]
AllCached(p) == [b \in {<<"cur", p.base + r, i>> : r \in DOMAIN p.h, i \in 1 .. Layers} |-> Value("kv", b[2] - p.base, b[3])]
KeptRows(name, n) == [b \in {<<name, j, i>> : j \in 0 .. n - 1, i \in 1 .. Layers} |-> Value("kept", b[2], b[3])]

Pass(p, encoded, rows) ==
    [stages |-> Embed(p) \o encoded \o States(p, rows),
     memory |-> KeptRows("cur", p.base) @@ KeptRows("pre", p.prefix),
     result |-> Final(rows) @@ AllCached(p)]

HybridPass(p, encoded, rows) ==
    LET linear == {i \in 1 .. Layers : i % 2 = 1}
        state(r) == [b \in {<<name, i>> : name \in {"conv", "s"}, i \in linear} |-> Value(b[1], r, b[2])]
        last == Cardinality(DOMAIN p.h) - 1
        attended(f) == [b \in {b \in DOMAIN f : b[3] \notin linear} |-> f[b]]
    IN [stages |-> Embed(p) \o encoded \o States(p, rows),
        memory |-> KeptRows("cur", p.base) @@ state(-1),
        result |-> Final(rows) @@ attended(AllCached(p)) @@ state(last)]

-----------------------------------------------------------------------------
(* Decoding several tokens, and several sequences.                         *)

\* decode: the head over the last state, the draw, and the drawn token's row
\* of the table as the next token, in row 0 of h.
decode(p, steps) ==
    LET n == Cardinality(DOMAIN p.h)
        row(j) == IF j = 1 THEN n - 1 ELSE n + j - 2
        head(j) == Token(p, row(j), IF j = 1 THEN n - 1 ELSE 0)
        logits(j) == <<"decodeLogits", j>> :> Value("logits", row(j), 0)
        token(j) == <<"decodeTokens", j>> :> Value("token", row(j), 0)
        next(j) == Token(p, row(j) + 1, 0)
        step(j) ==
            <<{Kernel(<<"head", j>>, H(head(j), "mlp", Layers) @@ Sums(head(j), "attnParts", "mlp", Layers, p.parts), logits(j))},
              {Kernel(<<"sample", j>>, logits(j), token(j))}>>
            \o (IF j = steps THEN <<>>
                ELSE <<{Kernel(<<"gather", j>>, token(j), H(next(j), "in", 1) @@ One("embedParts", Squares(Into(row(j) + 1, 1), 1)))}>>
                     \o encodeToken(p, row(j) + 1, 0))
    IN [stages |-> Embed(p) \o encodeTokens(p) \o FlattenSeq([j \in 1 .. steps |-> step(j)]),
        memory |-> KeptRows("cur", p.base),
        result |-> [b \in {<<"decodeTokens", j>> : j \in 1 .. steps} |-> Value("token", row(b[2]), 0)] @@ AllCached(p)]

\* decodeModeTileOutputs: lanes, each on a store of its own, share every
\* projection; a concurrent encoder orders kernels only by its barriers.
LaneKernels(p, name, i, x(_), writes(_)) ==
    {Kernel(<<name, i, l>>, x([p EXCEPT !.h = l :> l, !.slot = l :> l]), writes([p EXCEPT !.h = l :> l, !.slot = l :> l])) : l \in DOMAIN p.h}

Lane(p) == CHOOSE l \in DOMAIN p.h : TRUE
LaneCache(p, i, own) ==
    (IF own THEN <<"own", Lane(p), i>> :> Value("kv", Lane(p), i) ELSE <<"lane", Lane(p), i>> :> Value("kept", Lane(p), i))

DecodeLayer(p, i) ==
    <<LaneKernels(p, "qkv", i, LAMBDA q : H(q, "in", i) @@ (IF i = 1 THEN At("embedParts", q.h, LAMBDA r : Squares(Into(r, 1), 1))
                                                            ELSE Sums(q, "attnParts", "mlp", i - 1, GemvParts(9))),
                  LAMBDA q : Rows(q, "qkv", "qkv", i)),
      LaneKernels(p, "attend", i, LAMBDA q : Rows(q, "qkv", "qkv", i) @@ LaneCache(q, i, FALSE),
                  LAMBDA q : Rows(q, "ctx", "ctx", i) @@ LaneCache(q, i, TRUE)),
      LaneKernels(p, "o", i, LAMBDA q : Rows(q, "ctx", "ctx", i) @@ H(q, "in", i),
                  LAMBDA q : H(q, "mid", i) @@ Sums(q, "mlpParts", "mid", i, GemvParts(9))),
      LaneKernels(p, "gateup", i, LAMBDA q : H(q, "mid", i) @@ Sums(q, "mlpParts", "mid", i, GemvParts(9)), LAMBDA q : Rows(q, "act", "act", i)),
      LaneKernels(p, "rotate", i, LAMBDA q : Rows(q, "act", "act", i), LAMBDA q : Rows(q, "act", "rotated", i)),
      LaneKernels(p, "down", i, LAMBDA q : Rows(q, "act", "rotated", i) @@ H(q, "mid", i),
                  LAMBDA q : H(q, "mlp", i) @@ Sums(q, "attnParts", "mlp", i, GemvParts(9)))>>

\* The host normalizes each state into finalHidden and back into h, and a
\* second encoder runs the head and the choice of the greatest logit.
decodeLanes(p) ==
    LET final == At("finalHidden", p.h, LAMBDA l : Value("state", l, 0))
    IN [stages |-> Embed(p) \o EachLayer(LAMBDA i : DecodeLayer(p, i))
            \o <<LaneKernels(p, "states", 0, LAMBDA q : H(q, "mlp", Layers),
                             LAMBDA q : H(q, "state", 0) @@ At("finalHidden", q.h, LAMBDA l : Value("state", l, 0))),
                 LaneKernels(p, "head", 0, LAMBDA q : H(q, "state", 0), LAMBDA q : Rows(q, "logits", "logits", 0)),
                 LaneKernels(p, "argmax", 0, LAMBDA q : Rows(q, "logits", "logits", 0), LAMBDA q : Rows(q, "tokenIDs", "token", 0))>>,
        memory |-> [b \in {<<"lane", l, i>> : l \in DOMAIN p.h, i \in 1 .. Layers} |-> Value("kept", b[2], b[3])],
        result |-> Rows(p, "tokenIDs", "token", 0) @@ final
                   @@ [b \in {<<"own", l, i>> : l \in DOMAIN p.h, i \in 1 .. Layers} |-> Value("kv", b[2], b[3])]]

-----------------------------------------------------------------------------
(* The layer loop of HiddenLastBatchInto (evaluator.go) on the CPU: every  *)
(* stage is a run of the worker pool over items (rows, chunks of a tile,   *)
(* panels of a projection, KV groups) of ops.go.                           *)
(*                                                                         *)
(* Here a pass p has the index of each evaluated row, the start of each    *)
(* row's sequence, past tokens of the prefix, reuse leading rows restored  *)
(* from it, whether it has a prefix and owns it, and the rows asked for,   *)
(* in order.                                                               *)

Chunk == {1, 2}   \* chunks of packChunkCols columns

Item(name, r, i, reads, writes) == Kernel(<<name, r, i>>, reads, writes)
EachRow(p, f(_)) == {f(r) : r \in DOMAIN p.slot}
RowOf(p, name, r, v) == <<name, p.slot[r]>> :> v

\* addNorm: the residual add that was left for it, the norm, and the row's
\* scale (with the rotated row, for int8 weights).
addNorm(p, name, i, old, residual, new) ==
    <<EachRow(p, LAMBDA r :
        Item(name, r, i,
             RowOf(p, "h", r, old[r]) @@ (IF residual = "" THEN NoBuffers ELSE RowOf(p, "attn", r, Value(residual, r, IF new = "in" THEN i - 1 ELSE i))),
             (IF residual = "" THEN NoBuffers ELSE RowOf(p, "h", r, IF new = "in" THEN Into(r, i) ELSE Value(new, r, i)))
             @@ RowOf(p, "norm", r, Value(name, r, i)) @@ RowOf(p, "scale", r, Value(name, r, i))
             @@ (IF p.rotate THEN RowOf(p, "rotated", r, Value(name, r, i)) ELSE NoBuffers)))>>

\* rowScale, for an input that no addNorm prepared.
rowScale(p, src, what, i) ==
    <<EachRow(p, LAMBDA r :
        Item(<<"scale", what>>, r, i, RowOf(p, src, r, Value(what, r, i)),
             RowOf(p, "scale", r, Value(what, r, i)) @@ (IF p.rotate THEN RowOf(p, "rotated", r, Value(what, r, i)) ELSE NoBuffers)))>>

\* project: the rows are packed into tiles with their scales, then every
\* panel of the projections that share them is claimed by some worker.
project(p, src, what, i, targets) ==
    LET from == IF p.rotate THEN "rotated" ELSE src
        tile(c) == <<"tile", c>> :> Value(what, c, i)
    IN <<{Item(<<"pack", what>>, c, i, At(from, p.slot, LAMBDA r : Value(what, r, i)) @@ At("scale", p.slot, LAMBDA r : Value(what, r, i)), tile(c)) : c \in Chunk},
         {Item(<<"project", t[2]>>, 0, i, tile(1) @@ tile(2), At(t[1], p.slot, LAMBDA r : Value(t[2], r, i))) : t \in targets}>>

qkRope(p, i) ==
    <<EachRow(p, LAMBDA r :
        Item("rope", r, i, RowOf(p, "q", r, Value("q", r, i)) @@ RowOf(p, "keys", r, Value("k", r, i)),
             RowOf(p, "q", r, Value("query", r, i)) @@ RowOf(p, "keys", r, Value("key", r, i))))>>

\* Packed row j of the prefix of layer i (the reused rows follow the kept).
PackedRow(p, j, i) == <<"pack", j, i>> :> (IF j < p.past THEN Value("kept", j, i) ELSE Value("kv", j - p.past, i))
PackedRows(p, lo, hi, i) == [b \in {<<"pack", j, i>> : j \in lo .. hi - 1} |-> PackedRow(p, b[2], i)[b]]
OwnKeys(p, lo, hi, i) ==
    [b \in {<<name, r>> : name \in {"keys", "values"}, r \in lo .. hi - 1} |-> Value(IF b[1] = "keys" THEN "key" ELSE "v", b[2], i)]

\* restorePrefix: the reused rows from their packs, which are then cut.
restorePrefix(p, i) ==
    IF p.reuse = 0 THEN <<>>
    ELSE <<{Item("restore", 0, i, PackedRows(p, p.past, p.past + p.reuse, i),
                 OwnKeys(p, 0, p.reuse, i) @@ [b \in {<<"pack", j, i>> : j \in p.past .. p.past + p.reuse - 1} |-> Value("cut", b[2], i)])}>>

\* attention, attentionGEMM and attentionPrefix: the kept rows, and the rows
\* of the own sequence up to the query.
attention(p, i) ==
    <<EachRow(p, LAMBDA r :
        Item("attend", r, i, RowOf(p, "q", r, Value("query", r, i)) @@ OwnKeys(p, p.start[r], r + 1, i) @@ PackedRows(p, 0, p.past, i),
             RowOf(p, "ctx", r, Value("ctx", r, i))))>>

\* storePrefix: all own rows, the restored ones too.
storePrefix(p, i) ==
    IF ~p.owned THEN <<>>
    ELSE <<{Item("store", 0, i, OwnKeys(p, 0, p.total, i), PackedRows(p, p.past, p.past + p.total, i))}>>

\* keepLastRows and keepTailRows: the rows asked for move to the front, one
\* after the other, and the batch shrinks to them.
keepRows(p) ==
    FlattenSeq([s \in 1 .. Len(p.asked) |->
        LET r == p.asked[s] IN
        IF p.slot[r] = s - 1 THEN <<>>
        ELSE <<{Item("keep", s, Layers, RowOf(p, "h", r, Into(r, Layers)) @@ RowOf(p, "ctx", r, Value("ctx", r, Layers)),
                     <<"h", s - 1>> :> Into(r, Layers) @@ <<"ctx", s - 1>> :> Value("ctx", r, Layers))}>>])

Shrunk(p) == [p EXCEPT !.slot = [r \in {p.asked[s] : s \in DOMAIN p.asked} |-> (CHOOSE s \in DOMAIN p.asked : p.asked[s] = r) - 1]]

CpuLayer(p, i) ==
    LET q == IF i = Layers THEN Shrunk(p) ELSE p
        before == [r \in DOMAIN p.slot |-> IF i = 1 THEN Into(r, 1) ELSE Value("mid", r, i - 1)]
        into == [r \in DOMAIN q.slot |-> Into(r, i)]
    IN addNorm(p, "attnNorm", i, before, IF i = 1 THEN "" ELSE "down", "in")
       \o project(p, "norm", "attnNorm", i, {<<"q", "q">>, <<"keys", "k">>, <<"values", "v">>})
       \o qkRope(p, i) \o restorePrefix(p, i) \o attention(p, i) \o storePrefix(p, i)
       \o (IF i = Layers THEN keepRows(p) ELSE <<>>)
       \o rowScale(q, "ctx", "ctx", i) \o project(q, "ctx", "ctx", i, {<<"attn", "o">>})
       \o addNorm(q, "mlpNorm", i, into, "o", "mid")
       \o project(q, "norm", "mlpNorm", i, {<<"gate", "gate">>, <<"up", "up">>})
       \o <<EachRow(q, LAMBDA r : Item("swiglu", r, i, RowOf(q, "gate", r, Value("gate", r, i)) @@ RowOf(q, "up", r, Value("up", r, i)),
                                       RowOf(q, "gate", r, Value("act", r, i))))>>
       \o rowScale(q, "gate", "act", i) \o project(q, "gate", "act", i, {<<"attn", "down">>})

CpuPass(p) ==
    LET q == Shrunk(p)
        dst == [b \in {<<"dst", r>> : r \in DOMAIN q.slot} |-> Value("state", b[2], 0)]
    IN [stages |-> <<{Kernel("embed", NoBuffers, At("h", p.slot, LAMBDA r : Into(r, 1)))}>>
            \o EachLayer(LAMBDA i : CpuLayer(p, i))
            \o <<{Kernel("states", At("h", q.slot, LAMBDA r : Value("mid", r, Layers)) @@ At("attn", q.slot, LAMBDA r : Value("down", r, Layers)), dst)}>>,
        memory |-> [b \in {<<"pack", j, i>> : j \in 0 .. p.past + p.reuse - 1, i \in 1 .. Layers} |-> PackedRow(p, b[2], b[3])[b]],
        result |-> dst @@ (IF p.owned THEN [b \in {<<"pack", j, i>> : j \in 0 .. p.past + p.total - 1, i \in 1 .. Layers} |-> PackedRow(p, b[2], b[3])[b]]
                           ELSE NoBuffers)]
=============================================================================
