---------------------------- MODULE StreamPasses ----------------------------
(***************************************************************************)
(* More passes of the speech models: the codec decoder of qwen3tts, which  *)
(* keeps state from frame to frame, the turn detectors smartturn and       *)
(* tinymel with their mel frontend, and clm's projection heads.            *)
(***************************************************************************)
EXTENDS SpeechPasses

-----------------------------------------------------------------------------
(* The codec decoder.  Row t of a stream of utterance u; the rows before   *)
(* its first one are the zeros that reset clears the histories to.         *)

Row(what, u, t) == IF t < 0 THEN <<what[1], what[2], "zero", 0>> ELSE <<what[1], what[2], u, t>>

\* The n rows of frame f after a history of h rows, in one buffer.
Streamed(buf, what, u, f, h, n, from, to) ==
    [b \in {<<buf[1], buf[2], j>> : j \in from .. to - 1} |-> Row(what, u, f * n + b[3] - h)]
History(buf, what, u, f, h, n) == Streamed(buf, what, u, f, h, n, 0, h)
Fresh(buf, what, u, f, h, n) == Streamed(buf, what, u, f, h, n, h, h + n)
Plain(buf, what, u, f, n) == Streamed(buf, what, u, f, 0, n, 0, n)

\* copy(hist[:h], hist[n:n+h]): the last h rows become the history.
Shift(buf, what, u, f, h, n) ==
    <<{Kernel(<<"shift", buf, u, f>>, Streamed(buf, what, u, f, h, n, n, n + h), History(buf, what, u, f + 1, h, n))}>>

\* cols: the column chunks of a layer, over the same rows.
Columns(name, reads, writes) ==
    <<{Kernel(<<name, c>>, reads, [b \in {b \in DOMAIN writes : (b[3] % 2) + 1 = c} |-> writes[b]]) : c \in Half}>>

\* The window of a layer's keys and values: slot pos % window, of which the
\* last min(pos + 1, window) are read.  A participant has the heads of its
\* parity, a chunk of a projection has heads of both.
Window == 2
Span(f) == (IF f + 1 < Window THEN 0 ELSE f + 1 - Window) .. f

\* layers: two participants meet at a barrier wherever one reads what the
\* other writes; both halves of the state are read by each norm.
codecLayer(u, f, i) ==
    LET at(what) == <<what, u, f, i>>
        all(buf, what) == [b \in {<<buf, s>> : s \in Half} |-> at(<<what, b[2]>>)]
        mine(buf, what, me) == <<buf, me>> :> at(<<what, me>>)
        chunk(me) == [b \in {<<"qkv", me, hd>> : hd \in Half} |-> at("qkv")]
        heads(me, what) == [b \in {<<"qkv", c, me>> : c \in Half} |-> at(what)]
        slot(t, me) == <<"cache", i, t % Window, me>> :> <<"kv", u, t, i, me>>
        past(me) == [b \in {<<"cache", i, t % Window, me>> : t \in Span(f) \ {f}} |->
                        CHOOSE v \in {<<"kv", u, t, i, me>> : t \in Span(f) \ {f}} : v[3] % Window = b[3]]
        state(j) == IF j = 0 THEN (IF i = 1 THEN all("h", <<"proj", 0>>) ELSE [b \in {<<"h", s>> : s \in Half} |-> <<<<"mlp", b[2]>>, u, f, i - 1>>])
                    ELSE all("h", "attn")
        both(name, reads(_), writes(_)) == <<{Kernel(at(<<name, me>>), reads(me), writes(me)) : me \in Half}>>
        in(me) == <<"h", me>> :> state(0)[<<"h", me>>]
    IN both("qkv", LAMBDA me : state(0), LAMBDA me : chunk(me))
       \o both("attend", LAMBDA me : heads(me, "qkv") @@ past(me),
               LAMBDA me : heads(me, "rope") @@ slot(f, me) @@ mine("att", "att", me))
       \o both("o", LAMBDA me : all("att", "att") @@ in(me), LAMBDA me : mine("o", "o", me) @@ mine("h", "attn", me))
       \o both("gate", LAMBDA me : state(1), LAMBDA me : mine("gate", "act", me) @@ mine("up", "up", me))
       \o both("down", LAMBDA me : all("gate", "act") @@ mine("h", "attn", me), LAMBDA me : mine("o", "down", me) @@ mine("h", "mlp", me))

transformer(u, f) ==
    LET h(what, i) == [b \in {<<"h", s>> : s \in Half} |-> <<<<what, b[2]>>, u, f, i>>]
        proj == [b \in {<<"h", s>> : s \in Half} |-> <<<<<<"proj", 0>>, b[2]>>, u, f, 1>>]
    IN <<{Kernel(<<"inProj", u, f, s>>, Plain(<<"x", 0>>, <<"pre", 0>>, u, f, 1), <<"h", s>> :> proj[<<"h", s>>]) : s \in Half}>>
       \o EachBlock(LAMBDA i : codecLayer(u, f, i))
       \o <<{Kernel(<<"outProj", u, f>>, h("mlp", Blocks), Plain(<<"lat", 0>>, <<"latent", 0>>, u, f, 1))}>>

\* convNeXt: six rows of history and the rows of the transposed convolution.
convNeXt(name, u, f, n) ==
    LET dw == History(<<"dw", name>>, <<"up", name>>, u, f, 6, n) @@ Fresh(<<"dw", name>>, <<"up", name>>, u, f, 6, n)
        plain(buf, what) == Plain(buf, what, u, f, n)
    IN <<{Kernel(<<"depthwise", name, u, f>>, dw, plain(<<"upX", name>>, <<"depth", name>>))},
         {Kernel(<<"layerNorm", name, u, f>>, plain(<<"upX", name>>, <<"depth", name>>), plain(<<"ln", 0>>, <<"ln", name>>))},
         {Kernel(<<"pw1", name, u, f>>, plain(<<"ln", 0>>, <<"ln", name>>), plain(<<"pw", 0>>, <<"pw", name>>))},
         {Kernel(<<"pw2", name, u, f>>, plain(<<"pw", 0>>, <<"pw", name>>), plain(<<"ln", 0>>, <<"pw2", name>>))},
         {Kernel(<<"residual", name, u, f>>, Fresh(<<"dw", name>>, <<"up", name>>, u, f, 6, n) @@ plain(<<"ln", 0>>, <<"pw2", name>>), plain(<<"upX", name>>, <<"next", name>>))}>>
       \o Shift(<<"dw", name>>, <<"up", name>>, u, f, 6, n)

\* unit over a few rows: conv1 reads its history of activated rows.
unit(j, u, f, h, n) ==
    LET hist == <<"uh", j>>
        src == Plain(<<"bOut", j % 2>>, <<"unit", j>>, u, f, n)
    IN <<{Kernel(<<"act1", j, u, f>>, src, Fresh(hist, <<"act", j>>, u, f, h, n))}>>
       \o Columns(<<"conv1", j, u, f>>, History(hist, <<"act", j>>, u, f, h, n) @@ Fresh(hist, <<"act", j>>, u, f, h, n), Plain(<<"y", 0>>, <<"conv1", j>>, u, f, n))
       \o <<{Kernel(<<"act2", j, u, f>>, Plain(<<"y", 0>>, <<"conv1", j>>, u, f, n), Plain(<<"y", 0>>, <<"act2", j>>, u, f, n))}>>
       \o Columns(<<"conv2", j, u, f>>, Plain(<<"y", 0>>, <<"act2", j>>, u, f, n), Plain(<<"z", 0>>, <<"conv2", j>>, u, f, n))
       \o <<{Kernel(<<"residual", j, u, f>>, src @@ Plain(<<"z", 0>>, <<"conv2", j>>, u, f, n), Plain(<<"bOut", (j + 1) % 2>>, <<"unit", j + 1>>, u, f, n))}>>
       \o Shift(hist, <<"act", j>>, u, f, h, n)

\* blocks: each row block activates its own input and the rows before it, of
\* the history or of the frame; the last one's end is the new history, which
\* the caller copies once all have finished.
rowBlocks(name, hist, src, what, dst, out, u, f, h, n) ==
    LET act == <<"act of " \o name[1], name[2]>>
        input(r) == [b \in {<<src[1], src[2], j>> : j \in (IF r >= h THEN r - h ELSE 0) .. r} |-> Row(what, u, f * n + b[3])]
        kept(r) == [b \in {<<hist[1], hist[2], j>> : j \in r .. h - 1} |-> Row(act, u, f * n + b[3] - h)]
        stage == [b \in {<<"stage", 0, j>> : j \in 0 .. h - 1} |-> Row(act, u, (f + 1) * n + b[3] - h)]
        written(r) == <<dst[1], dst[2], r>> :> Row(out, u, f * n + r)
    IN <<{Kernel(<<name, r, u, f>>, input(r) @@ kept(r), IF r = n - 1 THEN written(r) @@ stage ELSE written(r)) : r \in 0 .. n - 1},
         {Kernel(<<"history", name, u, f>>, stage, [b \in {<<hist[1], hist[2], j>> : j \in 0 .. h - 1} |-> stage[<<"stage", 0, b[3]>>]])}>>

\* The residual units of a block: few rows are split by columns, many by row
\* blocks; they alternate between two buffers and the third ends in the second.
codecBlock(wide, out, u, f, h, n) ==
    FlattenSeq([k \in 1 .. 3 |->
        IF ~wide THEN unit(k - 1, u, f, h[k], n)
        ELSE rowBlocks(<<"wide", k>>, <<"wh", k>>, <<out, (k - 1) % 2>>, <<"wide", k - 1>>, <<out, k % 2>>, <<"wide", k>>, u, f, h[k], n)])

\* decode of frame f: codes, convolution, transformer, two upsamplers, a
\* block over few rows, a block over many, and the last convolution.  A row
\* stands for the rate rows a transposed convolution makes of one, and
\* histories are cut down, some longer than a frame's rows as in the code.
codecFrame(u, f) ==
    LET both(buf, what, h, n) == History(buf, what, u, f, h, n) @@ Fresh(buf, what, u, f, h, n)
        step(name, reads, writes) == <<{Kernel(<<name, u, f>>, reads, writes)}>>
    IN step("codes", NoBuffers, Fresh(<<"pre", 0>>, <<"codes", 0>>, u, f, 2, 1))
       \o step("preConv", both(<<"pre", 0>>, <<"codes", 0>>, 2, 1), Plain(<<"x", 0>>, <<"pre", 0>>, u, f, 1))
       \o Shift(<<"pre", 0>>, <<"codes", 0>>, u, f, 2, 1)
       \o transformer(u, f)
       \o step("up 1", Plain(<<"lat", 0>>, <<"latent", 0>>, u, f, 1), Fresh(<<"dw", 1>>, <<"up", 1>>, u, f, 6, 2))
       \o convNeXt(1, u, f, 2)
       \o step("up 2", Plain(<<"upX", 1>>, <<"next", 1>>, u, f, 2), Fresh(<<"dw", 2>>, <<"up", 2>>, u, f, 6, 4))
       \o convNeXt(2, u, f, 4)
       \o step("copy", Plain(<<"upX", 2>>, <<"next", 2>>, u, f, 4), Fresh(<<"in0", 0>>, <<"latents", 0>>, u, f, 6, 4))
       \o Columns(<<"inConv", u, f>>, both(<<"in0", 0>>, <<"latents", 0>>, 6, 4), Plain(<<"b0", 0>>, <<"b0", 0>>, u, f, 4))
       \o Shift(<<"in0", 0>>, <<"latents", 0>>, u, f, 6, 4)
       \o step("snake", Plain(<<"b0", 0>>, <<"b0", 0>>, u, f, 4), Fresh(<<"snake", 0>>, <<"snake", 0>>, u, f, 1, 4))
       \o Columns(<<"trans", u, f>>, both(<<"snake", 0>>, <<"snake", 0>>, 1, 4), Plain(<<"bOut", 0>>, <<"unit", 0>>, u, f, 4))
       \o Shift(<<"snake", 0>>, <<"snake", 0>>, u, f, 1, 4)
       \o codecBlock(FALSE, "bOut", u, f, <<1, 3, 6>>, 4)
       \o rowBlocks(<<"trans", 0>>, <<"snakeWide", 0>>, <<"bOut", 1>>, <<"unit", 3>>, <<"wOut", 0>>, <<"wide", 0>>, u, f, 1, 4)
       \o codecBlock(TRUE, "wOut", u, f, <<1, 2, 3>>, 4)
       \o rowBlocks(<<"out", 0>>, <<"outIn", 0>>, <<"wOut", 1>>, <<"wide", 3>>, <<"pcm", 0>>, <<"pcm", 0>>, u, f, 1, 4)

\* Mutant: the units' histories stay those of the utterance before.
BugHistories(u) == History(<<"pre", 0>>, <<"codes", 0>>, u, 0, 2, 1)

\* reset: the histories are cleared; the keys and values of the attention are
\* left, and the next utterance starts at position 0.
Histories(u) ==
    History(<<"pre", 0>>, <<"codes", 0>>, u, 0, 2, 1) @@ History(<<"dw", 1>>, <<"up", 1>>, u, 0, 6, 2) @@ History(<<"dw", 2>>, <<"up", 2>>, u, 0, 6, 4)
    @@ History(<<"in0", 0>>, <<"latents", 0>>, u, 0, 6, 4) @@ History(<<"snake", 0>>, <<"snake", 0>>, u, 0, 1, 4)
    @@ History(<<"uh", 0>>, <<"act", 0>>, u, 0, 1, 4) @@ History(<<"uh", 1>>, <<"act", 1>>, u, 0, 3, 4) @@ History(<<"uh", 2>>, <<"act", 2>>, u, 0, 6, 4)
    @@ History(<<"snakeWide", 0>>, <<"act of trans", 0>>, u, 0, 1, 4) @@ History(<<"outIn", 0>>, <<"act of out", 0>>, u, 0, 1, 4)
    @@ [b \in {<<"wh", k, j>> : k \in 1 .. 3, j \in 0 .. 2} |-> Row(<<"act of wide", b[2]>>, u, -1)]

\* Three frames, more than the window holds, and another utterance.
codecDecode ==
    [stages |-> <<{Kernel("reset a", NoBuffers, Histories("a"))}>> \o codecFrame("a", 0) \o codecFrame("a", 1) \o codecFrame("a", 2)
                \o <<{Kernel("reset b", NoBuffers, Histories("b"))}>> \o codecFrame("b", 0) \o codecFrame("b", 1),
     memory |-> NoBuffers,
     result |-> Plain(<<"pcm", 0>>, <<"pcm", 0>>, "b", 1, 4)]

-----------------------------------------------------------------------------
(* Turn detectors: the mel frontend, smartturn and tinymel.  Workers take  *)
(* ranges of rows and signal the caller, which takes the last range.       *)

\* Load and Normalize; frames of the transform, each worker with scratch of
\* its own; a mel row is accumulated and its logarithm taken by one worker;
\* the greatest logarithm of all rows bounds every value.
turnFeatures ==
    Alone(Half, "Load", NoBuffers, [samples |-> V("samples", 0)])
    \o Alone(Half, "Normalize", [samples |-> V("samples", 0)], [samples |-> V("normal", 0), padded |-> V("padded", 0)])
    \o Mixing(Half, "PowerFrames", NoBuffers, [padded |-> V("padded", 0)], [power |-> V("power", 0), fft |-> V("fft", 0)])
    \o Mixing(Half, "MelLogRows", NoBuffers, [power |-> V("power", 0)], [mel |-> V("mel", 0), logMel |-> V("log", 0), maxLog |-> V("max", 0)])
    \o Alone(Half, "Finish", [logMel |-> V("log", 0), maxLog |-> V("max", 0)], [features |-> V("features", 0)])

\* smartturn: windows are laid out by the caller, rows by the workers; the
\* residual goes from hiddenA to hiddenB and back.
turnLayer(i) ==
    LET hidden == IF i = 1 THEN V("conv2", 0) ELSE V("ffn", i - 1)
        qkv == [q |-> V("q", i), k |-> V("k", i), v |-> V("v", i)]
    IN Rowwise(Half, V("qkv", i), [hiddenA |-> hidden], qkv)
       \o Mixing(Half, V("attention", i), [q |-> V("q", i)], [k |-> V("k", i), v |-> V("v", i)], [attention |-> V("scores", i), attentionOut |-> V("ctx", i)])
       \o Rowwise(Half, V("out", i), [attentionOut |-> V("ctx", i)], [hiddenB |-> V("out", i)])
       \o Alone(Half, V("add", i), [hiddenB |-> V("out", i), hiddenA |-> hidden], [hiddenB |-> V("mid", i)])
       \o Rowwise(Half, V("norm", i), [hiddenB |-> V("mid", i)], [normed |-> V("norm", i)])
       \o Rowwise(Half, V("fc1", i), [normed |-> V("norm", i)], [ffn |-> V("fc1", i)])
       \o Alone(Half, V("gelu", i), [ffn |-> V("fc1", i)], [ffn |-> V("act", i)])
       \o Rowwise(Half, V("fc2", i), [ffn |-> V("act", i)], [hiddenA |-> V("fc2", i)])
       \o Alone(Half, V("add back", i), [hiddenA |-> V("fc2", i), hiddenB |-> V("mid", i)], [hiddenA |-> V("ffn", i)])

\* classify: attention pooling over the rows, then a head of three layers.
classify ==
    Rowwise(Half, "pool1", [hiddenA |-> V("final", 0)], [poolHidden |-> V("pool1", 0)])
    \o Alone(Half, "tanh", [poolHidden |-> V("pool1", 0)], [poolHidden |-> V("tanh", 0)])
    \o Rowwise(Half, "pool2", [poolHidden |-> V("tanh", 0)], [poolScores |-> V("pool2", 0)])
    \o Alone(Half, "softmax", [poolScores |-> V("pool2", 0)], [poolScores |-> V("softmax", 0)])
    \o <<{Kernel("pool", Parts(Half, [poolScores |-> V("softmax", 0), hiddenA |-> V("final", 0)]), Parts({1}, [pooled |-> V("pooled", 0)]))}>>
    \o Rowwise({1}, "classifier1", [pooled |-> V("pooled", 0)], [classHidden |-> V("class", 1)])
    \o Rowwise({1}, "class norm", [classHidden |-> V("class", 1)], [classHidden |-> V("classNorm", 1)])
    \o Rowwise({1}, "classifier2", [classHidden |-> V("classNorm", 1)], [classMid |-> V("class", 2)])
    \o Rowwise({1}, "classifier3", [classMid |-> V("class", 2)], [classLogit |-> V("class", 3)])

smartturnPredict ==
    [stages |-> turnFeatures
        \o Alone(Half, "conv1 windows", [features |-> V("features", 0)], [conv1Windows |-> V("windows", 1)])
        \o Mixing(Half, "conv1", NoBuffers, [conv1Windows |-> V("windows", 1)], [conv1 |-> V("conv1", 0)])
        \o Alone(Half, "conv2 windows", [conv1 |-> V("conv1", 0)], [conv2Windows |-> V("windows", 2)])
        \o Mixing(Half, "conv2", NoBuffers, [conv2Windows |-> V("windows", 2)], [hiddenA |-> V("conv2", 0)])
        \o EachBlock(turnLayer)
        \o Rowwise(Half, "final norm", [hiddenA |-> V("ffn", Blocks)], [hiddenA |-> V("final", 0)])
        \o classify,
     memory |-> NoBuffers,
     result |-> Parts({1}, [classLogit |-> V("class", 3)])]

\* tinymel: a stage quantizes its whole input, with one scale, into a buffer
\* all share, and a worker activates the output rows it has convolved; the
\* two directions of the GRU run at the same time.
quantized(name, from, v) == Alone(Half, <<"quantize", name>>, from :> v, [quantized |-> V("q8", name)])
runConv(name, to, v) == Mixing(Half, <<"conv", name>>, NoBuffers, [quantized |-> V("q8", name)], to :> v)
tinyBlock(i) ==
    quantized(2 * i, "convA", V("block", i - 1)) \o runConv(2 * i, "convB", V("depthwise", i))
    \o quantized(2 * i + 1, "convB", V("depthwise", i)) \o runConv(2 * i + 1, "convA", V("block", i))

tinymelPredict ==
    LET gru(d) == Kernel(<<"gru", d>>, Parts(Half, [convA |-> V("block", Blocks)]), Parts({d}, [inputGates |-> V("gates", 0), output |-> V("gru", 0)]))
    IN [stages |-> turnFeatures
            \o quantized(1, "features", V("features", 0)) \o runConv(1, "convA", V("block", 0))
            \o EachBlock(tinyBlock)
            \o <<{gru(d) : d \in Half}>>
            \o quantized(0, "output", V("gru", 0))
            \o <<{Kernel("pool", Parts(Half, [quantized |-> V("q8", 0), output |-> V("gru", 0)]), Parts({1}, [pooled |-> V("pooled", 0), poolScores |-> V("scores", 0)]))}>>
            \o Rowwise({1}, "head norm", [pooled |-> V("pooled", 0)], [headNormed |-> V("headNorm", 0)])
            \o Rowwise({1}, "quantize head", [headNormed |-> V("headNorm", 0)], [quantized |-> V("q8 head", 1)])
            \o Rowwise({1}, "head1", [quantized |-> V("q8 head", 1)], [headHidden |-> V("head", 1)])
            \o Rowwise({1}, "head gelu", [headHidden |-> V("head", 1)], [headHidden |-> V("gelu", 1)])
            \o Rowwise({1}, "quantize gelu", [headHidden |-> V("gelu", 1)], [quantized |-> V("q8 head", 2)])
            \o Rowwise({1}, "head2", [quantized |-> V("q8 head", 2)], [logit |-> V("head", 2)]),
        memory |-> NoBuffers,
        result |-> Parts({1}, [logit |-> V("head", 2)])]

-----------------------------------------------------------------------------
(* clm: the state and then the candidates in batches go through buffers    *)
(* that they share; only the state's projection is copied out.             *)

projectRows(who, which) ==
    LET step(name, ins, outs) == <<{Kernel(<<name, who>>, Parts(which, ins), Parts(which, outs))}>>
        buf(i) == IF i % 2 = 1 THEN "hiddenA" ELSE "hiddenB"
    IN step("normalize", "embeddings" :> V("embedding", who), "input" :> V("input", who))
       \o step("in", "input" :> V("input", who), "hiddenA" :> <<"hidden", who, 1>>)
       \o EachBlock(LAMBDA i : step(<<"hidden", i>>, buf(i) :> <<"hidden", who, i>>, buf(i + 1) :> <<"hidden", who, i + 1>>))
       \o step("out", buf(Blocks + 1) :> <<"hidden", who, Blocks + 1>>, "projected" :> V("out", who))
       \o step("normalize out", "projected" :> V("out", who), "projected" :> V("projected", who))

\* ScoreInto: a batch's scores are written before the next batch overwrites
\* the projections.
ScoreInto(batches) ==
    LET embedded(who, which) == <<{Kernel(<<"Embed", who>>, NoBuffers, Parts(which, "embeddings" :> V("embedding", who)))}>>
        scores(k) == [b \in {<<"scores", k, r>> : r \in Half} |-> <<"score", k, b[3]>>]
        batch(k) == embedded(k, Half) \o projectRows(k, Half)
                    \o <<{Kernel(<<"cosine", k>>, Parts(Half, "projected" :> V("projected", k)) @@ Parts({1}, "stateProjection" :> V("state", 0)), scores(k))}>>
    IN [stages |-> embedded(0, {1}) \o projectRows(0, {1})
            \o <<{Kernel("copy state", Parts({1}, "projected" :> V("projected", 0)), Parts({1}, "stateProjection" :> V("state", 0)))}>>
            \o FlattenSeq([k \in 1 .. batches |-> batch(k)]),
        memory |-> NoBuffers,
        result |-> [b \in UNION {DOMAIN scores(k) : k \in 1 .. batches} |-> <<"score", b[2], b[3]>>]]
=============================================================================
