---------------------------- MODULE SpeechPasses ----------------------------
(***************************************************************************)
(* The forward passes of the speech models as programs of Forward: the     *)
(* audio encoders of qwen3asr (CPU and GPU) and whisper, whisper's text    *)
(* decoder, the streaming codec decoder of qwen3tts, the turn detectors    *)
(* smartturn and tinymel with their mel frontend, and clm's heads.         *)
(*                                                                         *)
(* Here a buffer has parts: the rows that the workers of an executor share *)
(* between them (two workers share a stage of two parts).  A result is     *)
(* written <<what, part>>.                                                 *)
(***************************************************************************)
EXTENDS Forward

CONSTANT Blocks   \* layers of a speech model

\* Parts of buffers: f gives the result that each buffer holds.
Parts(which, f) == [b \in {<<x, r>> : x \in DOMAIN f, r \in which} |-> <<f[b[1]], b[2]>>]

\* Executor.Rows and Executor.Mul: a worker reads its rows of ins and writes
\* its rows of outs.
Rowwise(which, name, ins, outs) == <<{Kernel(<<name, r>>, Parts({r}, ins), Parts({r}, outs)) : r \in which}>>

\* A stage that also reads rows of other workers (attention, columns of a
\* convolution).
Mixing(which, name, ins, whole, outs) ==
    <<{Kernel(<<name, r>>, Parts({r}, ins) @@ Parts(which, whole), Parts({r}, outs)) : r \in which}>>

\* One step of the calling goroutine.
Alone(which, name, ins, outs) == <<{Kernel(name, Parts(which, ins), Parts(which, outs))}>>

EachBlock(f(_)) == FlattenSeq([i \in 1 .. Blocks |-> f(i)])
V(what, i) == <<what, i>>
Residual(i) == IF i = 0 THEN V("positions", 0) ELSE V("ffn", i)
Normed(i) == IF i > Blocks THEN V("post", 0) ELSE V("attnNorm", i)

-----------------------------------------------------------------------------
(* qwen3asr: the audio encoder.                                            *)

\* linear: the input is packed into tiles, then the output panels are
\* claimed one by one and each reads every tile.
linear(which, name, ins, outs) ==
    Rowwise(which, <<"pack", name>>, ins, [tiles |-> V("tiles", name)])
    \o Mixing(which, name, NoBuffers, [tiles |-> V("tiles", name)], outs)

\* The chunks of a recording: c is convolved in buffers the next reuses, and
\* has t3 rows of stacked, of which the last chunk keeps fewer.
ChunkRows(t3, c) == c * t3 .. (c + 1) * t3 - 1
Stacked(t3, c) == [b \in {<<"stacked", r>> : r \in ChunkRows(t3, c)} |-> <<"stacked", b[2]>>]

asrChunk(t3, c) ==
    LET half == 1 .. 2
        gelu(j) == V(<<"gelu", c>>, j)
        cols(j) == V(<<"cols", c>>, j)
    IN Mixing(half, <<"melColumns", c>>, NoBuffers, [mel |-> "mel"], [cols |-> cols(1)])
       \o Rowwise(half, <<"conv1", c>>, [cols |-> cols(1)], [conv0 |-> V(<<"conv", c>>, 1)])
       \o Rowwise(half, <<"gelu", c>>, [conv0 |-> V(<<"conv", c>>, 1)], [conv0 |-> gelu(1)])
       \o Mixing(half, <<"columns", c, 1>>, NoBuffers, [conv0 |-> gelu(1)], [cols |-> cols(2)])
       \o linear(half, <<"conv2", c>>, [cols |-> cols(2)], [conv1 |-> gelu(2)])
       \o Mixing(half, <<"columns", c, 2>>, NoBuffers, [conv1 |-> gelu(2)], [cols |-> cols(3)])
       \o <<{Kernel(<<"conv3", c>>, Parts(half, [cols |-> cols(3)]), Stacked(t3, c))}>>

\* Each chunk's real rows move to the front, in place, and get positions.
Compact(t3, tokens) ==
    [r \in 1 .. Len(tokens) |->
        {Kernel(<<"keep", r>>, <<"x", tokens[r]>> :> <<"convOut", tokens[r]>>, <<"x", r - 1>> :> <<Residual(0), r - 1>>)}]

asrLayer(which, i) ==
    linear(which, V("qkv", i), [norm |-> Normed(i)], [qkv |-> V("qkv", i)])
    \o Mixing(which, V("attend", i), NoBuffers, [qkv |-> V("qkv", i)], [ctx |-> V("ctx", i)])
    \o linear(which, V("out", i), [ctx |-> V("ctx", i)], [norm |-> V("out", i)])
    \o Rowwise(which, V("residual", i), [x |-> Residual(i - 1), norm |-> V("out", i)], [x |-> V("mid", i), norm |-> V("ffnNorm", i)])
    \o linear(which, V("fc1", i), [norm |-> V("ffnNorm", i)], [ffn |-> V("act", i)])
    \o linear(which, V("fc2", i), [ffn |-> V("act", i)], [norm |-> V("down", i)])
    \o Rowwise(which, V("next", i), [x |-> V("mid", i), norm |-> V("down", i)], [x |-> Residual(i), norm |-> Normed(i + 1)])

\* encodeSuffix over chunks of t3 padded rows, of which tokens[r] is row r.
asrEncode(t3, chunks, tokens) ==
    LET which == 0 .. Len(tokens) - 1
        padded == 0 .. chunks * t3 - 1
    IN [stages |-> FlattenSeq([c \in 1 .. chunks |-> asrChunk(t3, c - 1)])
            \o <<{Kernel("pack convOut", [b \in {<<"stacked", r>> : r \in padded} |-> <<"stacked", b[2]>>], Parts({0}, [tiles |-> "convOut"]))},
                 {Kernel("convOut", Parts({0}, [tiles |-> "convOut"]), [b \in {<<"x", r>> : r \in padded} |-> <<"convOut", b[2]>>])}>>
            \o Compact(t3, tokens)
            \o Rowwise(which, "norm", [x |-> Residual(0)], [norm |-> Normed(1)])
            \o EachBlock(LAMBDA i : asrLayer(which, i))
            \o linear(which, "proj1", [norm |-> V("post", 0)], [ffn |-> "proj1"])
            \o linear(which, "proj2", [ffn |-> "proj1"], [dst |-> "audio"]),
        memory |-> Parts(1 .. 2, [mel |-> "mel"]),
        result |-> Parts(which, [dst |-> "audio"])]

\* dispatchGEMM: a product of few groups splits K and a second dispatch adds
\* the parts; the encoder is serial, so every dispatch is a stage.
dispatchGEMM(which, split, name, ins, old, outs) ==
    IF ~split THEN <<{Kernel(name, Parts(which, ins @@ old), Parts(which, outs))}>>
    ELSE <<{Kernel(<<name, z>>, Parts(which, ins), Parts({z}, [scratch |-> <<name, "sum">>])) : z \in {1, 2}},
           {Kernel(<<name, "finish">>, Parts({1, 2}, [scratch |-> <<name, "sum">>]) @@ Parts(which, old), Parts(which, outs))}>>

gpuLayer(which, split, i) ==
    LET norm2(name, x, w) == <<{Kernel(name, Parts(which, [x |-> x]), Parts(which, [norm |-> w]))}>>
    IN dispatchGEMM(which, split, V("qkv", i), [norm |-> Normed(i)], NoBuffers, [qkv |-> V("qkv", i)])
       \o Mixing(which, V("attend", i), NoBuffers, [qkv |-> V("qkv", i)], [ctx |-> V("ctx", i)])
       \o dispatchGEMM(which, split, V("out", i), [ctx |-> V("ctx", i)], [x |-> Residual(i - 1)], [x |-> V("mid", i)])
       \o norm2(V("ffnNorm", i), V("mid", i), V("ffnNorm", i))
       \o dispatchGEMM(which, split, V("fc1", i), [norm |-> V("ffnNorm", i)], NoBuffers, [ffn |-> V("act", i)])
       \o dispatchGEMM(which, split, V("fc2", i), [ffn |-> V("act", i)], [x |-> V("mid", i)], [x |-> Residual(i)])
       \o norm2(V("next", i), Residual(i), Normed(i + 1))

\* gpuEncoderWorkspace.encode: batches of chunks are convolved in the same
\* buffers, and the rows are gathered by a map from the padded ones.
gpuEncode(t3, batches, split, tokens) ==
    LET which == 0 .. Len(tokens) - 1
        padded == 0 .. batches * t3 - 1
        batch(c) == dispatchGEMM({0}, FALSE, <<"conv1", c>>, [mel |-> "mel"], NoBuffers, [c1 |-> V("c1", c)])
                    \o dispatchGEMM({0}, split, <<"conv2", c>>, [c1 |-> V("c1", c)], NoBuffers, [c2 |-> V("c2", c)])
                    \o <<{Kernel(<<"conv3", c>>, Parts({0}, [c2 |-> V("c2", c)]), Stacked(t3, c))}>>
    IN [stages |-> FlattenSeq([c \in 1 .. batches |-> batch(c - 1)])
            \o <<{Kernel("convOut", [b \in {<<"stacked", r>> : r \in padded} |-> <<"stacked", b[2]>>], [b \in {<<"co", r>> : r \in padded} |-> <<"convOut", b[2]>>])},
                 {Kernel(<<"gather", r>>, <<"co", tokens[r]>> :> <<"convOut", tokens[r]>>, <<"x", r - 1>> :> <<Residual(0), r - 1>>) : r \in DOMAIN tokens}>>
            \o <<{Kernel("norm", Parts(which, [x |-> Residual(0)]), Parts(which, [norm |-> Normed(1)]))}>>
            \o EachBlock(LAMBDA i : gpuLayer(which, split, i))
            \o dispatchGEMM(which, split, "proj1", [norm |-> V("post", 0)], NoBuffers, [ffn |-> "proj1"])
            \o dispatchGEMM(which, split, "proj2", [ffn |-> "proj1"], NoBuffers, [out |-> "audio"]),
        memory |-> Parts({0}, [mel |-> "mel"]),
        result |-> Parts(which, [out |-> "audio"])]

-----------------------------------------------------------------------------
(* whisper: the audio encoder.  A part is a tile: rows of one head.        *)

Half == 1 .. 2
Tiles == Half \X Half
RowTiles(r) == {r} \X Half
HeadTiles(h) == Half \X {h}

\* runBiased: with whole-row preparation a head prepares a share of the rows,
\* columns of the other heads too, so packing waits for all; else a head
\* prepares its own columns and packs them.  Then each query tile is
\* overwritten by its context.
runBiased(rowPrep, i) ==
    LET raw == [q |-> V("q", i), k |-> V("k", i), v |-> V("v", i)]
        ready == [q |-> V("query", i), k |-> V("key", i), v |-> V("value", i)]
        kv == [k |-> ready.k, v |-> ready.v]
        packed == [keys |-> V("keys", i), values |-> V("values", i)]
        attend == <<{Kernel(<<"attend", t, i>>, Parts({t}, [q |-> ready.q]) @@ Parts({t[2]}, packed), Parts({t}, [q |-> V("ctx", i)])) : t \in Tiles}>>
    IN IF rowPrep
       THEN <<{Kernel(<<"prepare", h, i>>, Parts(RowTiles(h), raw), Parts(RowTiles(h), ready)) : h \in Half},
              {Kernel(<<"packHead", h, i>>, Parts(HeadTiles(h), kv), Parts({h}, packed)) : h \in Half}>> \o attend
       ELSE <<{Kernel(<<"prepare", h, i>>, Parts(HeadTiles(h), raw), Parts(HeadTiles(h), ready) @@ Parts({h}, packed)) : h \in Half}>> \o attend

\* Rows of a stage, each with all its tiles.
TileRows(name, ins, outs) == <<{Kernel(<<name, r>>, Parts(RowTiles(r), ins), Parts(RowTiles(r), outs)) : r \in Half}>>

encodeBlock(rowPrep, i) ==
    TileRows(V("Mul q", i), [normalized |-> Normed(i)], [q |-> V("q", i)])
    \o TileRows(V("Mul k", i), [normalized |-> Normed(i)], [k |-> V("k", i)])
    \o TileRows(V("Mul v", i), [normalized |-> Normed(i)], [v |-> V("v", i)])
    \o runBiased(rowPrep, i)
    \o TileRows(V("Mul out", i), [q |-> V("ctx", i)], [normalized |-> V("out", i)])
    \o TileRows(V("residual", i), [dst |-> Residual(i - 1), normalized |-> V("out", i)], [dst |-> V("mid", i), normalized |-> V("mlpNorm", i)])
    \o TileRows(V("Mul mlpIn", i), [normalized |-> V("mlpNorm", i)], [feedForward |-> V("mlpIn", i)])
    \o TileRows(V("activate", i), [feedForward |-> V("mlpIn", i)], [feedForward |-> V("act", i)])
    \o TileRows(V("Mul mlpOut", i), [feedForward |-> V("act", i)], [normalized |-> V("down", i)])
    \o TileRows(V("next", i), [dst |-> V("mid", i), normalized |-> V("down", i)], [dst |-> Residual(i), normalized |-> Normed(i + 1)])

\* encodeInto: a row of a convolution reads its neighbours, which its taps
\* overlap, and a row of zeros that no stage writes.
encodeInto(rowPrep) ==
    LET whole(name, ins, outs) == <<{Kernel(<<name, r>>, Parts(Tiles, ins), Parts(RowTiles(r), outs)) : r \in Half}>>
    IN [stages |-> whole("transposeMel", [mel |-> "mel"], [melT |-> "melT"])
            \o whole("Mul conv1", [melT |-> "melT", melPad |-> "zero"], [conv1 |-> "conv1"])
            \o TileRows("activate conv1", [conv1 |-> "conv1"], [conv1 |-> "stem"])
            \o whole("Mul conv2", [conv1 |-> "stem", conv1Pad |-> "zero"], [dst |-> "conv2"])
            \o TileRows("activate conv2", [dst |-> "conv2"], [dst |-> "audio"])
            \o TileRows("position", [dst |-> "audio"], [dst |-> Residual(0)])
            \o TileRows("norm", [dst |-> Residual(0)], [normalized |-> Normed(1)])
            \o EachBlock(LAMBDA i : encodeBlock(rowPrep, i))
            \o Alone(Tiles, "copy", [normalized |-> V("post", 0)], [dst |-> V("post", 0)]),
        memory |-> Parts(Tiles, [mel |-> "mel", melPad |-> "zero", conv1Pad |-> "zero"]),
        result |-> Parts(Tiles, [dst |-> V("post", 0)])]

-----------------------------------------------------------------------------
(* whisper: the text decoder.                                              *)

\* beginDecode of audio a: every layer's keys and values of the audio.  With
\* packed heads the projections go through scratch that the layers share;
\* else each layer has its own.
crossCache(packed, a, i) ==
    LET kv == [b \in {<<x, h, i>> : x \in {"crossKey", "crossValue"}, h \in Half} |-> <<b[1], a, b[2], i>>]
        keys == IF packed THEN <<"crossKeys", 0>> ELSE <<"crossKeys", i>>
        values == <<"crossTemp", 0>>
    IN <<{Kernel(<<"keys", a, i>>, <<"encoder", a>> :> "audio", keys :> <<"keys", a, i>>)},
         {Kernel(<<"values", a, i>>, <<"encoder", a>> :> "audio", values :> <<"values", a, i>>)}>>
       \o (IF packed THEN [h \in Half |-> {Kernel(<<"repack", a, h, i>>, keys :> <<"keys", a, i>> @@ values :> <<"values", a, i>>,
                                                  [b \in {<<x, h, i>> : x \in {"crossKey", "crossValue"}} |-> kv[b]])}]
           ELSE <<{Kernel(<<"layout", a, i>>, keys :> <<"keys", a, i>> @@ values :> <<"values", a, i>>, kv)}>>)

\* decodeTokenInto at a position: the residual add of a part is left to the
\* norm of the next; keys and values are stored before they are read, and
\* rows an earlier audio left behind are not read.
decodeLayer(a, n, i) ==
    LET at(what) == <<what, a, n, i>>
        row(x, t) == <<x, t, i>> :> <<x, a, t, i>>
        cached == [b \in {<<x, t, i>> : x \in {"selfKey", "selfValue"}, t \in 0 .. n} |-> <<b[1], a, b[2], i>>]
        cross(h) == [b \in {<<x, h, i>> : x \in {"crossKey", "crossValue"}} |-> <<b[1], a, b[2], i>>]
        before == IF i = 1 THEN <<"x">> :> <<"embedded", a, n, 1>> ELSE <<"x">> :> <<"mid", a, n, i - 1>> @@ <<"projected">> :> <<"mlp", a, n, i - 1>>
        into == <<"x">> :> (IF i = 1 THEN <<"embedded", a, n, 1>> ELSE at("in"))
        step(name, reads, writes) == <<{Kernel(at(name), reads, writes)}>>
        heads(name, reads(_), out) == <<{Kernel(at(<<name, h>>), reads(h), <<"context", h>> :> at(<<out, h>>)) : h \in Half}>>
        context(out) == [b \in {<<"context", h>> : h \in Half} |-> at(<<out, b[2]>>)]
    IN step("selfNorm", before, into @@ <<"normalized">> :> at("selfNorm"))
       \o step("selfQKV", <<"normalized">> :> at("selfNorm"), <<"query">> :> at("selfQ") @@ <<"key">> :> at("k") @@ <<"value">> :> at("v"))
       \o step("store", <<"key">> :> at("k") @@ <<"value">> :> at("v"), row("selfKey", n) @@ row("selfValue", n))
       \o step("scale", <<"query">> :> at("selfQ"), <<"scaledQuery">> :> at("selfQ"))
       \o heads("self", LAMBDA h : <<"scaledQuery">> :> at("selfQ") @@ cached, "selfCtx")
       \o step("selfOut", context("selfCtx"), <<"projected">> :> at("self"))
       \o step("crossNorm", into @@ <<"projected">> :> at("self"), <<"x">> :> at("attended") @@ <<"normalized">> :> at("crossNorm"))
       \o step("crossQ", <<"normalized">> :> at("crossNorm"), <<"query">> :> at("crossQ"))
       \o step("crossScale", <<"query">> :> at("crossQ"), <<"scaledQuery">> :> at("crossQ"))
       \o heads("cross", LAMBDA h : <<"scaledQuery">> :> at("crossQ") @@ cross(h), "crossCtx")
       \o step("crossOut", context("crossCtx"), <<"projected">> :> at("cross"))
       \o step("mlpNorm", <<"x">> :> at("attended") @@ <<"projected">> :> at("cross"), <<"x">> :> at("mid") @@ <<"normalized">> :> at("mlpNorm"))
       \o step("mlpIn", <<"normalized">> :> at("mlpNorm"), <<"mlp">> :> at("act"))
       \o step("mlpOut", <<"mlp">> :> at("act"), <<"projected">> :> at("mlp"))

\* The vocabulary in shards, each of whole chunks of the packed matrix.
vocabulary(a, n) ==
    <<{Kernel(<<"finalNorm", a, n>>, <<"x">> :> <<"mid", a, n, Blocks>> @@ <<"projected">> :> <<"mlp", a, n, Blocks>>, <<"normalized">> :> <<"final", a, n>>)},
      {Kernel(<<"shard", s, a, n>>, <<"normalized">> :> <<"final", a, n>>, <<"logits", s>> :> <<"logits", a, n, s>>) : s \in Half}>>

\* greedyDecodeInto: only the last token of the prompt is projected.
decodeToken(a, n, projected) ==
    <<{Kernel(<<"embed", a, n>>, NoBuffers, <<"x">> :> <<"embedded", a, n, 1>>)}>>
    \o EachBlock(LAMBDA i : decodeLayer(a, n, i))
    \o (IF projected THEN vocabulary(a, n) ELSE <<>>)

\* Audio a, a prompt of two tokens, and then audio b with one.
whisperDecode(packed) ==
    LET begin(a) == EachBlock(LAMBDA i : crossCache(packed, a, i))
    IN [stages |-> begin("a") \o decodeToken("a", 0, FALSE) \o decodeToken("a", 1, TRUE) \o begin("b") \o decodeToken("b", 0, TRUE),
        memory |-> <<"encoder", "a">> :> "audio" @@ <<"encoder", "b">> :> "audio",
        result |-> [b \in {<<"logits", s>> : s \in Half} |-> <<"logits", "b", 0, b[2]>>]]
=============================================================================
