----------------------------- MODULE Evaluator -----------------------------
(***************************************************************************)
(* The evaluator of internal/qwen3lm and its prefix stores: evaluator.go,  *)
(* ops.go, prefix.go, decode.go, decode_batch.go and the passes of         *)
(* gpu_darwin.go and hybrid_state_darwin.go.                               *)
(*                                                                         *)
(* A PrefixKV keeps the keys and values of a token sequence, so that a     *)
(* later sequence evaluates only what it adds.  Numbers are abstracted to  *)
(* what they depend on: the value of a row is the set of inputs (position  *)
(* and token or embedded row) that reach it through the rows it attends    *)
(* to.  A call is one step: its caller owns the store and the workspace.   *)
(*                                                                         *)
(* kind says where the weights are: "cpu" packs keys as columns and values *)
(* in chunks that each count their rows; "gpu" has one row per position    *)
(* and evaluates a long input in passes; "hybrid" also carries a recurrent *)
(* state, which cannot be cut, only restored from a snapshot.              *)
(***************************************************************************)
EXTENDS Integers, Sequences, FiniteSets, SequencesExt, FiniteSetsExt

CONSTANTS
    Store,          \* the prefix stores
    Kinds,          \* the kinds of weights explored
    PlainToken, Pad,     \* a token, and the placeholder that embedded rows replace
    Capacity,       \* tokens a store holds
    PrefixChunk,    \* prefixChunk: positions per packed value chunk
    AttentionBlock, \* attentionBlock: rows reused are whole blocks
    GpuPositions,   \* gpuPositions: rows of one GPU pass
    MaxSnapshots,   \* maxSnapshots
    MaxIds,         \* bound: tokens one call adds
    MaxCalls,       \* bound: calls
    Failures        \* the failures explored: pairs of kind and failure

ASSUME EvaluatorAssumption ==
    /\ Capacity \in Nat \ {0} /\ PrefixChunk \in Nat \ {0} /\ AttentionBlock \in Nat \ {0}
    /\ GpuPositions \in Nat \ {0} /\ MaxSnapshots \in Nat \ {0, 1} /\ PlainToken # Pad

VARIABLES
    kind,    \* where the weights are
    kv,      \* the stores
    inputs,  \* the inputs each store stands for
    calls,   \* calls made
    exact    \* whether the states the last call returned were the right ones

evaluatorVars == <<kind, kv, inputs, calls, exact>>

Position == 0 .. Capacity - 1
Chunks == (Capacity - 1) \div PrefixChunk + 1

\* The mark of an embedded row among the tokens of a store.
Embedded == "-1"

\* An input: a token, or the row of an Embeds that replaces the placeholder.
\* A hybrid model has no encoder: there Pad is one more token.
EmbedRows(ids) ==
    IF kind = "hybrid" THEN {0} ELSE IF Pad \in ToSet(ids) THEN {1, 2} ELSE {1}
InputsOf(ids, rows) == [i \in DOMAIN ids |-> IF ids[i] = Pad THEN <<Pad, rows>> ELSE <<ids[i], 0>>]
TokensOf(ins) == [i \in DOMAIN ins |-> IF ins[i][2] # 0 THEN Embedded ELSE ins[i][1]]
Calls == UNION {[1 .. n -> {PlainToken, Pad}] : n \in 1 .. MaxIds}

\* What a row must depend on: everything up to it.
Reference(ins, n) == {<<i - 1, ins[i]>> : i \in 1 .. n}

EmptyKV ==
    [tokens |-> <<>>, keys |-> <<>>, values |-> [c \in 0 .. Chunks - 1 |-> <<>>],
     rows |-> [p \in Position |-> {}], pos |-> 0, state |-> {}, snaps |-> <<>>, spare |-> 0]

EvaluatorInit ==
    /\ kind \in Kinds
    /\ kv = [s \in Store |-> EmptyKV]
    /\ inputs = [s \in Store |-> <<>>]
    /\ calls = 0
    /\ exact = TRUE

CommonPrefix(tokens, ids) ==
    Max({n \in 0 .. Min({Len(tokens), Len(ids)}) : \A i \in 1 .. n : tokens[i] = ids[i]})

-----------------------------------------------------------------------------
(* The packed store of a CPU.                                              *)

\* copyPackedPrefix: from may be the store itself, which is then cut.
CopyPacked(to, from, n) ==
    [to EXCEPT !.keys = SubSeq(from.keys, 1, n),
               !.values = [c \in DOMAIN to.values |->
                              IF c * PrefixChunk < n
                              THEN SubSeq(from.values[c], 1, Min({PrefixChunk, n - c * PrefixChunk}))
                              ELSE to.values[c]]]

\* Every packed row that attentionPrefix multiplies with: all the columns of
\* the keys, and all the rows that the chunks of the first past positions
\* count.
Packed(p, past) ==
    UNION (ToSet(p.keys) \cup UNION {ToSet(p.values[c]) : c \in 0 .. (past + PrefixChunk - 1) \div PrefixChunk - 1})

\* restorePrefix: the rows reused, from their columns and chunks.
Restored(p, past, n) ==
    [i \in 1 .. n |-> LET at == past + i - 1 IN
                      p.keys[at + 1] \cup p.values[at \div PrefixChunk][(at % PrefixChunk) + 1]]

\* The rows of a call: the restored ones, then each on the store, the rows
\* before it and its own input.
OwnRows(restored, past, store, ins) ==
    LET row[i \in 1 .. Len(ins)] ==
            IF i <= Len(restored) THEN restored[i]
            ELSE {<<past + i - 1, ins[i]>>} \cup store \cup UNION {row[j] : j \in 1 .. i - 1}
    IN [i \in 1 .. Len(ins) |-> row[i]]

\* storePrefix: columns and chunk rows from past on are replaced.
StorePrefix(p, past, own) ==
    [p EXCEPT !.keys = SubSeq(p.keys, 1, past) \o own,
              !.values = [c \in DOMAIN p.values |->
                  LET low == c * PrefixChunk
                      first == Max({past - low, 0})
                      last == Min({low + PrefixChunk, past + Len(own)})
                  IN IF low + first < last
                     THEN SubSeq(p.values[c], 1, first) \o SubSeq(own, low + first - past + 1, last - past)
                     ELSE p.values[c]]]

\* The rows of ids a call may take from the store: whole blocks, and never a
\* row whose state is asked for.
Reused(reuse, n, k) == (Min({reuse, n - k}) \div AttentionBlock) * AttentionBlock

\* The CPU's part of hiddenLastContinueEmbedInto and HiddenLastBatchInto: cut
\* the store, evaluate, publish the rows.
CpuExtend(p, keep, reuse, ins, k) ==
    LET r == Reused(reuse, Len(ins), k)
        whole == IF r = 0 /\ keep # Len(p.tokens) THEN CopyPacked(p, p, keep) ELSE p
        restored == Restored(whole, keep, r)
        cut == IF r > 0 THEN CopyPacked(whole, whole, keep) ELSE whole
        own == OwnRows(restored, keep, Packed(cut, keep), ins)
    IN [store |-> StorePrefix(cut, keep, own), out |-> SubSeq(own, Len(own) - k + 1, Len(own))]

-----------------------------------------------------------------------------
(* The passes of a GPU.                                                    *)

\* pass: rows at past and after it, each on the cache rows before its slot
\* and on the recurrent state.  w.tail receives the last k rows when the pass
\* has them, and its last row is the destination.
GpuPass(w, past, base, ins) ==
    LET n == Len(ins)
        slot == IF n = 1 THEN past ELSE base
        row[j \in 0 .. slot + n - 1] ==
            IF j < slot THEN w.store.rows[j]
            ELSE {<<past + j - slot, ins[j - slot + 1]>>} \cup w.store.state \cup UNION {row[i] : i \in 0 .. j - 1}
        k == Len(w.out)
    IN [store |-> [w.store EXCEPT !.rows = [p \in Position |-> IF p \in slot .. slot + n - 1 THEN row[p] ELSE @[p]],
                                  !.state = IF kind = "hybrid" THEN row[slot + n - 1] ELSE {},
                                  !.pos = IF kind = "hybrid" THEN @ + n ELSE 0],
        out |-> IF n >= k THEN [i \in 1 .. k |-> row[slot + n - 1 - k + i]]
                ELSE [w.out EXCEPT ![k] = row[slot + n - 1]]]

\* Mutant: a pass may leave less than the tail to the last one.
BugPassLength(left, k) == Min({GpuPositions, left})

\* The rows of the next pass when left are left: the last pass holds the
\* whole tail.
PassLength(left, k) ==
    LET n == Min({GpuPositions, left}) IN IF left - n \in 1 .. k - 1 THEN left - k ELSE n

\* batchPacked for one sequence: its passes, each based where the one before
\* it ended.
Extended(p, past, ins, k) ==
    LET n == Len(ins)
        at[i \in 0 .. n] == IF i = 0 THEN 0 ELSE at[i - 1] + PassLength(n - at[i - 1], k)
        run[i \in 0 .. n] ==
            IF i = 0 THEN [store |-> p, out |-> [j \in 1 .. k |-> {}]]
            ELSE IF at[i] = at[i - 1] THEN run[i - 1]
            ELSE GpuPass(run[i - 1], past + at[i - 1], past + at[i - 1], SubSeq(ins, at[i - 1] + 1, at[i]))
    IN run[n]

\* copyFrom and reset of a gpuState.
StateFrom(p, snap) == [p EXCEPT !.pos = snap.pos, !.state = snap.state]
NoState == [pos |-> 0, state |-> {}]

\* The end of rewind: snapshots past keep are spares, and with mark the state
\* is snapshot at keep, in a spare, a new buffer or the place of another but
\* the first.
Marked(p, keep, mark) ==
    LET live == SelectSeq(p.snaps, LAMBDA s : s.pos <= keep)
        q == [p EXCEPT !.snaps = live, !.spare = @ + Len(p.snaps) - Len(live)]
        snap == [pos |-> p.pos, state |-> p.state]
    IN IF ~mark \/ \E i \in DOMAIN live : live[i].pos = keep THEN {q}
       ELSE IF q.spare > 0 THEN {[q EXCEPT !.spare = @ - 1, !.snaps = Append(live, snap)]}
       ELSE IF Len(live) < MaxSnapshots THEN {[q EXCEPT !.snaps = Append(live, snap)]}
       ELSE {[q EXCEPT !.snaps = Append(RemoveAt(live, i), snap)] : i \in 2 .. Len(live)}

\* rewind: the state of the first keep tokens, from the latest snapshot not
\* past it; the tokens between are evaluated again, as an extension of their
\* own.
Rewound(p, keep, mark, ins, k) ==
    LET before == {p.snaps[i] : i \in {i \in DOMAIN p.snaps : p.snaps[i].pos <= keep}}
        from == IF before = {} THEN NoState ELSE CHOOSE s \in before : \A t \in before : t.pos <= s.pos
        set == IF p.pos = keep THEN p ELSE StateFrom(p, from)
        again == IF set.pos >= keep THEN {set}
                 ELSE {Extended(q, q.pos, SubSeq(ins, q.pos + 1, keep), k).store : q \in Marked(set, set.pos, keep - set.pos > 1)}
    IN UNION {Marked(q, keep, mark) : q \in again}

\* batch: a hybrid sequence from nothing starts on a state that is reset.
GpuExtend(p, keep, ins, old, k) ==
    IF kind = "gpu" THEN {Extended(p, keep, ins, k)}
    ELSE {Extended(IF keep = 0 THEN StateFrom(q, NoState) ELSE q, keep, ins, k) : q \in Rewound(p, keep, Len(ins) > 1, old, k)}

-----------------------------------------------------------------------------
(* The calls.                                                              *)

\* hiddenLastContinueEmbedInto of ids (rows for its placeholders) after the
\* first keep tokens, for the states of the last k positions.
Outcomes(s, keep, reuse, ins, k) ==
    IF kind = "cpu" THEN {CpuExtend(kv[s], keep, reuse, ins, k)} ELSE GpuExtend(kv[s], keep, ins, inputs[s], k)

Recorded(s, keep, ins) == SubSeq(kv[s].tokens, 1, keep) \o TokensOf(ins)

Fits(keep, n) == keep + n <= Capacity

Continue(s, keep, reuse, ins, k, whole) ==
    /\ keep \in 0 .. Len(kv[s].tokens) /\ Fits(keep, Len(ins)) /\ k <= Len(ins)
    /\ \E o \in Outcomes(s, keep, reuse, ins, k) :
          /\ kv' = [kv EXCEPT ![s] = [o.store EXCEPT !.tokens = Recorded(s, keep, ins)]]
          /\ inputs' = [inputs EXCEPT ![s] = SubSeq(@, 1, keep) \o ins]
          /\ exact' = (o.out = [i \in 1 .. k |-> Reference(whole, keep + Len(ins) - k + i)])
    /\ UNCHANGED kind

\* HiddenLastExtendInto as a session calls it: what the store already holds
\* of ids is kept.
HiddenLastExtendInto(s) ==
    \E ids \in Calls : \E rows \in EmbedRows(ids) :
        LET keep == Min({CommonPrefix(kv[s].tokens, ids), Len(ids) - 1})
            ins == InputsOf(ids, rows)
        IN Continue(s, keep, 0, SubSeq(ins, keep + 1, Len(ids)), 1, ins)

\* HiddenTailContinueEmbedInto: the caller knows that the first reuse rows of
\* ids are those the store has after keep.
HiddenTailContinueEmbedInto(s) ==
    \E keep \in 0 .. Len(kv[s].tokens), ids \in Calls :
      Fits(keep, Len(ids)) /\ \E rows \in EmbedRows(ids), k \in 1 .. Min({2, Len(ids)}) :
        LET ins == InputsOf(ids, rows)
            held == SubSeq(inputs[s], keep + 1, Len(inputs[s]))
            reuse == Max({n \in 0 .. Min({Len(held), Len(ins)}) : SubSeq(held, 1, n) = SubSeq(ins, 1, n)})
        IN Continue(s, keep, reuse, ins, k, SubSeq(inputs[s], 1, keep) \o ins)

\* HiddenLastSharedInto and HiddenLastBatchInto: sequences packed into one
\* batch, each on the store's rows (none without a store) and its own earlier
\* rows; on a GPU its first row in the cache is info's second word.
Batch(past, store, seqs) ==
    LET start == [q \in DOMAIN seqs |-> FoldSet(LAMBDA j, n : n + Len(seqs[j]), 0, 1 .. q - 1)]
        total == FoldSet(LAMBDA j, n : n + Len(seqs[j]), 0, DOMAIN seqs)
        of(r) == CHOOSE q \in DOMAIN seqs : r \in start[q] .. start[q] + Len(seqs[q]) - 1
        row[r \in 0 .. total - 1] ==
            LET q == of(r) IN {<<past + r - start[q], seqs[q][r - start[q] + 1]>>} \cup store
                                  \cup UNION {row[j] : j \in start[q] .. r - 1}
    IN [q \in DOMAIN seqs |-> row[start[q] + Len(seqs[q]) - 1]]

HiddenLastSharedInto(s) ==
    \E a \in Calls : \E rows \in EmbedRows(a) :
        LET past == Len(kv[s].tokens)
            seqs == <<InputsOf(a, rows), <<<<PlainToken, 0>>>>>>
            store == IF kind = "cpu" THEN Packed(kv[s], past)
                     ELSE UNION {kv[s].rows[p] : p \in 0 .. past - 1}
        IN /\ past + Len(a) <= Capacity
           /\ exact' = (Batch(past, store, seqs) = [q \in 1 .. 2 |-> Reference(inputs[s] \o seqs[q], past + Len(seqs[q]))])
           /\ UNCHANGED <<kind, kv, inputs>>

\* DecodeInto: ids, then one drawn token after the other, each but the last
\* evaluated as the row of its table at the position after the one before.
DecodeInto(s) ==
    kind = "gpu" /\ \E keep \in 0 .. Len(kv[s].tokens), ids \in Calls, n \in 1 .. 2 :
        LET first == InputsOf(ids, 1)
            drawn == [i \in 1 .. n - 1 |-> <<Pad, 2>>]
            ins == first \o drawn
            start == Extended(kv[s], keep, first, 1)
            step[i \in 1 .. n] == IF i = 1 THEN start ELSE GpuPass(step[i - 1], keep + Len(ids) + i - 2, 0, <<drawn[i - 1]>>)
        IN /\ Fits(keep, Len(ids) + n - 1) /\ Len(ids) <= GpuPositions
           /\ kv' = [kv EXCEPT ![s] = [step[n].store EXCEPT !.tokens = Recorded(s, keep, ins)]]
           /\ inputs' = [inputs EXCEPT ![s] = SubSeq(@, 1, keep) \o ins]
           /\ exact' = \A i \in 1 .. n : step[i].out = <<Reference(inputs'[s], keep + Len(ids) + i - 1)>>
           /\ UNCHANGED kind

\* DecodeBatchInto: one token on each of several stores, which must differ.
DecodeBatchInto ==
    \E token \in [Store -> {PlainToken}] :
        LET after == [s \in Store |-> GpuPass([store |-> kv[s], out |-> <<{}>>], Len(kv[s].tokens), 0, <<<<token[s], 0>>>>)]
        IN /\ kind = "gpu" /\ \A s \in Store : Len(kv[s].tokens) < Capacity
           /\ kv' = [s \in Store |-> [after[s].store EXCEPT !.tokens = Append(@, token[s])]]
           /\ inputs' = [s \in Store |-> Append(inputs[s], <<token[s], 0>>)]
           /\ exact' = \A s \in Store : after[s].out = <<Reference(inputs'[s], Len(inputs'[s]))>>
           /\ UNCHANGED kind

\* copyStates: the state as it is, and the snapshots up to token n.
CopyStates(to, from, n) ==
    LET snaps == SelectSeq(from.snaps, LAMBDA s : s.pos <= n)
    IN [StateFrom(to, from) EXCEPT !.snaps = snaps, !.spare = Max({0, @ + Len(to.snaps) - Len(snaps)})]

CopyPrefix(to, from) ==
    \E n \in 0 .. Len(kv[from].tokens) :
        LET tokens == SubSeq(kv[from].tokens, 1, n)
            moved == IF kind = "cpu" THEN CopyPacked(kv[to], kv[from], n)
                     ELSE [kv[to] EXCEPT !.rows = [p \in Position |-> IF p < n THEN kv[from].rows[p] ELSE @[p]]]
        IN /\ to # from
           /\ kv' = [kv EXCEPT ![to] = [(IF kind = "hybrid" THEN CopyStates(moved, kv[from], n) ELSE moved) EXCEPT !.tokens = tokens]]
           /\ inputs' = [inputs EXCEPT ![to] = SubSeq(inputs[from], 1, n)]
           /\ UNCHANGED <<kind, exact>>

\* A continuation that fails after it has cut the tokens: at the validation
\* of HiddenLastBatchInto (without or with rows to reuse), in a GPU pass, which
\* may then have changed everything it writes, or at the end, where the states
\* are not finite.
ContinueFails(s) ==
    \E keep \in 0 .. Len(kv[s].tokens), ids \in Calls, failure \in {f \in {"token", "reused", "device", "nonfinite"} : <<kind, f>> \in Failures} :
        LET reuse == Min({Len(kv[s].tokens) - keep, Len(ids)})
            ins == InputsOf(ids, CHOOSE r \in EmbedRows(ids) : TRUE)
            done == Outcomes(s, keep, 0, ins, 1)
            early == IF kind = "cpu" /\ failure = "token" THEN {CopyPacked(kv[s], kv[s], keep)}
                     ELSE IF kind = "hybrid" THEN Rewound(kv[s], keep, Len(ids) > 1, inputs[s], 1)
                     ELSE {kv[s]}
        IN /\ Fits(keep, Len(ids))
           /\ failure = "reused" => Reused(reuse, Len(ids), 1) > 0
           /\ \E p \in CASE failure \in {"token", "reused"} -> early
                         [] failure = "nonfinite" -> {o.store : o \in done}
                         [] OTHER -> {[o.store EXCEPT !.pos = keep] : o \in done} :
                 kv' = [kv EXCEPT ![s] = [p EXCEPT !.tokens = SubSeq(kv[s].tokens, 1, keep)]]
           /\ inputs' = [inputs EXCEPT ![s] = SubSeq(@, 1, keep)]
           /\ UNCHANGED <<kind, exact>>

EvaluatorNext ==
    /\ calls < MaxCalls /\ calls' = calls + 1
    /\ \/ \E s \in Store :
             \/ HiddenLastExtendInto(s)
             \/ HiddenTailContinueEmbedInto(s)
             \/ HiddenLastSharedInto(s)
             \/ DecodeInto(s)
             \/ ContinueFails(s)
             \/ \E t \in Store : CopyPrefix(s, t)
       \/ DecodeBatchInto

-----------------------------------------------------------------------------
\* A store never outgrows its capacity, and no more rows are counted than it
\* has positions for.
EvaluatorTypeOK ==
    /\ kind \in Kinds /\ calls \in 0 .. MaxCalls /\ exact \in BOOLEAN
    /\ \A s \in Store :
          /\ Len(kv[s].tokens) <= Capacity /\ Len(kv[s].keys) <= Capacity
          /\ \A c \in DOMAIN kv[s].values : Len(kv[s].values[c]) <= PrefixChunk
          /\ kv[s].pos \in 0 .. Capacity /\ kv[s].spare \in 0 .. MaxSnapshots

\* Every state a call returns depends on exactly its sequence up to its
\* position: what was kept, restored, copied, evaluated in another pass or
\* rebuilt from a snapshot is as if the whole sequence had been evaluated.
ExactStates == exact

\* A store holds the tokens it reports ("Tokens returns the token sequence
\* whose keys and values kv holds"): as many columns and chunk rows as
\* tokens, each with the value its position has in the sequence; and a
\* recurrent state that says it is at the end of the tokens is.
StoreHolds ==
    \A s \in Store :
        LET p == kv[s]
            n == Len(p.tokens)
        IN /\ p.tokens = TokensOf(inputs[s])
           /\ kind = "cpu" => /\ p.keys = [i \in 1 .. n |-> Reference(inputs[s], i)]
                              /\ \A i \in 1 .. n : p.values[(i - 1) \div PrefixChunk][((i - 1) % PrefixChunk) + 1] = Reference(inputs[s], i)
                              /\ n % PrefixChunk # 0 => Len(p.values[n \div PrefixChunk]) = n % PrefixChunk
           /\ kind # "cpu" => \A i \in 1 .. n : p.rows[i - 1] = Reference(inputs[s], i)
           /\ kind = "hybrid" /\ p.pos = n => p.state = Reference(inputs[s], n)

\* A snapshot that rewind may use is the state after the tokens it counts,
\* and there are never more than maxSnapshots of them, spares included.
SnapshotsHold ==
    \A s \in Store :
        /\ \A i \in DOMAIN kv[s].snaps : LET n == kv[s].snaps[i].pos IN
              /\ n <= Len(inputs[s])
              /\ kv[s].snaps[i].state = Reference(inputs[s], n)
        /\ Len(kv[s].snaps) + kv[s].spare <= MaxSnapshots

\* Whatever was cut, extended, copied, rewound or failed before, a store
\* holds what it reports and a state is that of a fresh evaluation.
EvaluatorSafe == EvaluatorTypeOK /\ ExactStates /\ StoreHolds /\ SnapshotsHold

=============================================================================
