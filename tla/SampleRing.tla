----------------------------- MODULE SampleRing -----------------------------
(***************************************************************************)
(* The rings of samples between the cascade's goroutines (duplex/          *)
(* cascade.go, ring): a writer appends blocks of any size, dropping the    *)
(* oldest samples when full, a reader takes what it can, and a reset       *)
(* starts a generation, after which a late writer's samples are dropped.   *)
(* Every operation holds the ring's mutex.                                 *)
(***************************************************************************)
EXTENDS Integers, SequencesExt, FiniteSetsExt

CONSTANTS RingSize,   \* the capacity
          MaxBlock,   \* bound: samples of a write or a read
          MaxSamples  \* bound: samples written

ASSUME RingAssumption == RingSize \in Nat \ {0} /\ MaxBlock \in Nat /\ MaxSamples \in Nat

VARIABLES ring,  \* buf, head, n and gen
          late,  \* the generation the writer read before it made its block
          fifo,  \* history: what the ring should hold
          wrote, \* history: samples written, which are numbered
          got    \* history: what the last read returned, and should have
ringVars == <<ring, late, fifo, wrote, got>>

\* One pass of append's loop: a full ring gives up its oldest sample, and
\* the block fills the free slots up to the end of buf.
Stored(r, v) ==
    LET full == r.n = RingSize
        head == IF full THEN (r.head + 1) % RingSize ELSE r.head
        n == IF full THEN r.n - 1 ELSE r.n
        tail == (head + n) % RingSize
        k == Min({Len(v), Min({RingSize, tail + RingSize - n}) - tail})
    IN [r |-> [r EXCEPT !.head = head, !.n = n + k,
                        !.buf = [i \in 0 .. RingSize - 1 |-> IF i - tail \in 0 .. k - 1 THEN v[i - tail + 1] ELSE @[i]]],
        rest |-> SubSeq(v, k + 1, Len(v))]
Appended(r, v) ==
    LET steps[i \in 0 .. Len(v)] ==
            IF i = 0 THEN [r |-> r, rest |-> v]
            ELSE IF steps[i - 1].rest = <<>> THEN steps[i - 1] ELSE Stored(steps[i - 1].r, steps[i - 1].rest)
    IN steps[Len(v)].r

\* One pass of read's loop: up to the end of buf.
Taken(r, out, len) ==
    LET k == Min({len - Len(out), Min({RingSize, r.head + r.n}) - r.head})
    IN [r |-> [r EXCEPT !.head = (@ + k) % RingSize, !.n = @ - k], out |-> out \o [i \in 1 .. k |-> r.buf[r.head + i - 1]]]
Fetched(r, len) ==
    LET first == Taken(r, <<>>, len)
    IN IF first.r.n = 0 \/ Len(first.out) = len THEN first ELSE Taken(first.r, first.out, len)

Newest(s) == SubSeq(s, Max({1, Len(s) - RingSize + 1}), Len(s))

\* writeAt of a block begun in generation late; write is the same with the
\* generation of the moment.
Writes(gen) == ring.gen = gen
writeAt(k) ==
    /\ wrote + k <= MaxSamples
    /\ LET v == [i \in 1 .. k |-> wrote + i] IN
        /\ ring' = IF Writes(late) THEN Appended(ring, v) ELSE ring
        /\ fifo' = IF ring.gen = late THEN Newest(fifo \o v) ELSE fifo
    /\ wrote' = wrote + k
    /\ UNCHANGED <<late, got>>

generation == late # ring.gen /\ late' = ring.gen /\ UNCHANGED <<ring, fifo, wrote, got>>

read(len) ==
    /\ ring' = Fetched(ring, len).r
    /\ got' = [is |-> Fetched(ring, len).out, was |-> SubSeq(fifo, 1, Min({len, Len(fifo)}))]
    /\ fifo' = SubSeq(fifo, len + 1, Len(fifo))
    /\ UNCHANGED <<late, wrote>>

reset ==
    /\ ring.gen < 2
    /\ ring' = [ring EXCEPT !.head = 0, !.n = 0, !.gen = @ + 1] /\ fifo' = <<>>
    /\ UNCHANGED <<late, wrote, got>>

RingInit ==
    /\ ring = [buf |-> [i \in 0 .. RingSize - 1 |-> 0], head |-> 0, n |-> 0, gen |-> 0]
    /\ late = 0 /\ fifo = <<>> /\ wrote = 0 /\ got = [is |-> <<>>, was |-> <<>>]

RingNext == \/ \E k \in 1 .. MaxBlock : writeAt(k) \/ read(k)
            \/ generation \/ reset

\* Wherever head has come to and however a block wraps, the ring holds the
\* newest samples of this generation in order, and read returns the oldest of
\* them: none is lost, repeated or of a reply that was cut (append 2013, read
\* 2026).
RingIsFifo ==
    /\ fifo = [i \in 1 .. ring.n |-> ring.buf[(ring.head + i - 1) % RingSize]]
    /\ got.is = got.was
=============================================================================
