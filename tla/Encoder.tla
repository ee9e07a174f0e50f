------------------------------ MODULE Encoder ------------------------------
(***************************************************************************)
(* Embeddings of a Qwen3 model: encoder in qwen3/model.go and its cache of *)
(* finished vectors, qwen3/cache.go.                                       *)
(*                                                                         *)
(* A sequence of tokens is a model value with a home slot, which its hash  *)
(* gives; its vector is the sequence itself.  The long ones go through the *)
(* prefix store, which may fail after it has been cut.                     *)
(***************************************************************************)
EXTENDS Integers, Sequences, FiniteSets

CONSTANTS
    Sequence,      \* the token sequences embedded
    LongSequence,  \* those that go through the prefix store
    EmbedEntries,  \* entries of the cache
    Homes          \* the home slots explored

ASSUME EncoderAssumption == EmbedEntries \in Nat \ {0} /\ LongSequence \subseteq Sequence

\* newEmbeddingCache: the smallest power of two that leaves half the slots
\* empty.
Slots == CHOOSE n \in {2 ^ k : k \in 0 .. EmbedEntries + 1} :
             n >= 2 * EmbedEntries /\ \A k \in 0 .. EmbedEntries + 1 : 2 ^ k >= 2 * EmbedEntries => n <= 2 ^ k
Slot == 0 .. Slots - 1
Entry == 1 .. EmbedEntries
After(s) == (s + 1) % Slots

VARIABLES
    home,      \* the home slot of a sequence
    keys,      \* the sequence of each entry
    vectors,   \* the vector of each entry
    ref,       \* the entries used since the hand passed
    slots,     \* the index: an entry, or 0
    hand, used,
    own        \* whether the vectors the last call returned were its sequences'

encoderVars == <<home, keys, vectors, ref, slots, hand, used, own>>

EncoderInit ==
    /\ home \in [Sequence -> Homes]
    /\ keys = [e \in Entry |-> "none"] /\ vectors = [e \in Entry |-> "none"] /\ ref = {}
    /\ slots = [s \in Slot |-> 0] /\ hand = 1 /\ used = 0 /\ own = TRUE

\* A cache's fields, as get and put change them one call after the other.
Cache == [keys |-> keys, vectors |-> vectors, ref |-> ref, slots |-> slots, hand |-> hand, used |-> used]

Matches(c, s, k) == c.keys[c.slots[s]] = k

\* find: the first slot from k's home on that holds k or nothing.
Find(c, k) ==
    LET from[s \in Slot, n \in 0 .. Slots] ==
            IF n = Slots \/ c.slots[s] = 0 \/ Matches(c, s, k) THEN s ELSE from[After(s), n + 1]
    IN from[home[k], 0]

Holds(c, k) == c.slots[Find(c, k)] # 0

\* get.
Got(c, k) == [c EXCEPT !.ref = IF Holds(c, k) THEN @ \cup {c.slots[Find(c, k)]} ELSE @]

\* Mutant: an entry stays when its home is the slot that is emptied.
BugMoves(s, next, h) ==
    \/ next > s /\ (h < s \/ h > next)
    \/ next < s /\ h < s /\ h > next

\* remove moves an entry back into the emptied slot s unless its home is in
\* (s, next].
Moves(s, next, h) ==
    \/ next > s /\ (h <= s \/ h > next)
    \/ next < s /\ h <= s /\ h > next

\* remove of k: the chain behind it moves up.
RemoveEntry(c, k) ==
    LET at[s \in Slot, next \in Slot, n \in 0 .. 2 * Slots, t \in [Slot -> 0 .. EmbedEntries]] ==
            IF n = 2 * Slots \/ t[next] = 0 THEN t
            ELSE IF Moves(s, next, home[c.keys[t[next]]])
                 THEN at[next, After(next), n + 1, [t EXCEPT ![s] = t[next], ![next] = 0]]
                 ELSE at[s, After(next), n + 1, t]
        first == Find(c, k)
    IN IF c.slots[first] = 0 THEN c
       ELSE [c EXCEPT !.slots = at[first, After(first), 0, [c.slots EXCEPT ![first] = 0]]]

NextHand(h) == (h % EmbedEntries) + 1

\* The clock's hand passes the entries used since, once around at most.
Swept(c) ==
    LET go[h \in Entry, r \in SUBSET Entry] ==
            IF h \in r THEN go[NextHand(h), r \ {h}] ELSE [hand |-> h, ref |-> r]
    IN go[c.hand, c.ref]

\* Where k goes once an entry has been removed, which may have moved the end
\* of its chain.
Place(before, after, k) == Find(after, k)

\* put.
Put(c, k, v) ==
    LET swept == Swept(c)
        full == c.used = EmbedEntries
        e == IF full THEN swept.hand ELSE c.used + 1
        d == IF full
             THEN RemoveEntry([c EXCEPT !.ref = swept.ref, !.hand = NextHand(swept.hand)], c.keys[e])
             ELSE [c EXCEPT !.used = @ + 1]
    IN IF Holds(c, k) THEN c
       ELSE [d EXCEPT !.keys[e] = k, !.vectors[e] = v, !.ref = @ \ {e}, !.slots[Place(c, d, k)] = e]

Stores(c) ==
    /\ keys' = c.keys /\ vectors' = c.vectors /\ ref' = c.ref /\ slots' = c.slots /\ hand' = c.hand /\ used' = c.used

\* embedBatchLocked of sequences: all are looked up, those that miss are
\* inferred and, when none failed, put in their order.
EmbedBatch(ids) ==
    LET looked[i \in 0 .. Len(ids)] == IF i = 0 THEN Cache ELSE Got(looked[i - 1], ids[i])
        c == looked[Len(ids)]
        miss == SelectSeq(ids, LAMBDA k : ~Holds(Cache, k))
        put[i \in 0 .. Len(miss)] == IF i = 0 THEN c ELSE Put(put[i - 1], miss[i], miss[i])
    IN /\ \/ Stores(put[Len(miss)])
          \/ (\E i \in DOMAIN miss : miss[i] \in LongSequence) /\ Stores(c)
       /\ own' = \A i \in DOMAIN ids : Holds(Cache, ids[i]) => vectors[slots[Find(Cache, ids[i])]] = ids[i]
       /\ UNCHANGED home

EncoderNext == \E a, b \in Sequence : EmbedBatch(<<a, b>>)

-----------------------------------------------------------------------------
\* The index points at entries in use, and the hand is at one.
EncoderTypeOK ==
    /\ slots \in [Slot -> 0 .. used] /\ used \in 0 .. EmbedEntries /\ hand \in Entry /\ ref \subseteq 1 .. used

\* A vector from the cache is its sequence's ("a hit
\* returns exactly what a recomputation would").
OwnVector == own

\* Whatever was evicted, every entry is found under its sequence, in one slot
\* and from one entry: no chain was broken or left behind.
ChainsWhole ==
    /\ \A e \in 1 .. used : slots[Find(Cache, keys[e])] = e
    /\ \A e \in 1 .. used : Cardinality({s \in Slot : slots[s] = e}) = 1
    /\ Cardinality({s \in Slot : slots[s] # 0}) = used
=============================================================================
