----------------------------- MODULE JobBarrier -----------------------------
(***************************************************************************)
(* What a pool of persistent workers promises its caller: one job at a     *)
(* time, every item of it applied exactly once, and no return before the   *)
(* last item.                                                              *)
(***************************************************************************)
EXTENDS Naturals

CONSTANT Items  \* the items a job may have

VARIABLES running, todo

vars == <<running, todo>>

Init == running = FALSE /\ todo = {}

\* A caller starts a job over the items in S.
Begin(S) == ~running /\ running' = TRUE /\ todo' = S

\* A participant applies the items in S, which nobody has applied before.
Apply(S) == running /\ S \subseteq todo /\ todo' = todo \ S /\ UNCHANGED running

\* The caller returns when nothing is left.
End == running /\ todo = {} /\ running' = FALSE /\ UNCHANGED todo

Next ==
    \/ \E S \in SUBSET Items : Begin(S)
    \/ \E S \in SUBSET Items : Apply(S)
    \/ End

Spec == Init /\ [][Next]_vars
=============================================================================
