---------------------------- MODULE MCWorkerPool ----------------------------
(* Small instances of WorkerPool for TLC. *)
EXTENDS WorkerPool, TLC

Symmetry == Permutations(Caller)

RunN(n, items, grain) == [each |-> FALSE, n |-> n, items |-> items, grain |-> grain]
RunEach(n) == [each |-> TRUE, n |-> n, items |-> 0, grain |-> 1]

\* Everybody with grains of one and a ragged last grain, a part of the team,
\* a job too small to share, and runEach on all and on one participant.
MCJob == {RunN(3, 3, 1), RunN(2, 3, 2), RunN(3, 1, 1), RunEach(3), RunEach(1)}

\* The jobs that reach the workers.
MCShared == {RunN(3, 2, 1), RunEach(2)}
=============================================================================
