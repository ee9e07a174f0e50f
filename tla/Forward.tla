------------------------------ MODULE Forward ------------------------------
(***************************************************************************)
(* Forward passes as programs over shared buffers.                         *)
(*                                                                         *)
(* A pass of a model is a sequence of stages; a stage is a set of kernels  *)
(* (dispatches of a GPU encoder between two barriers, items of one run of  *)
(* a worker pool) that run in any order and at the same time, and the next *)
(* stage starts when all have finished.  Numbers are abstracted to what    *)
(* they are: the value of a buffer is the name of the result it holds.  A  *)
(* kernel names the buffers it reads, each with the result its mathematics *)
(* needs there, and the buffers it writes, each with the result it leaves. *)
(* What a buffer held before the pass is stale: workspaces are reused.     *)
(***************************************************************************)
EXTENDS Integers, Sequences, FiniteSets, TLC, SequencesExt

CONSTANT Passes   \* the programs: name -> [stages, memory, result]

VARIABLES
    pass,      \* the program that runs
    stages,    \* its stages that have not finished
    memory,    \* what the buffers hold
    running,   \* the kernels that run, and what each has read
    finished   \* the kernels of the stage that have finished

forwardVars == <<pass, stages, memory, running, finished>>

Stale == <<"stale">>
Partial == <<"partly written">>
NoBuffers == <<>>

Kernel(name, reads, writes) == [name |-> name, reads |-> reads, writes |-> writes]
Held(b) == IF b \in DOMAIN memory THEN memory[b] ELSE Stale

ForwardInit ==
    /\ pass \in DOMAIN Passes
    /\ stages = Passes[pass].stages
    /\ memory = Passes[pass].memory
    /\ running = NoBuffers
    /\ finished = {}

\* A kernel starts: it reads while others write, and what it writes is
\* incomplete until it ends.
Start(k) ==
    /\ k \notin finished /\ k \notin DOMAIN running
    /\ running' = (k :> [b \in DOMAIN k.reads |-> Held(b)]) @@ running
    /\ memory' = [b \in DOMAIN k.writes |-> Partial] @@ memory
    /\ UNCHANGED <<pass, stages, finished>>

Finish(k) ==
    /\ running' = [j \in DOMAIN running \ {k} |-> running[j]]
    /\ memory' = k.writes @@ memory
    /\ finished' = finished \cup {k}
    /\ UNCHANGED <<pass, stages>>

\* The barrier between two stages, and Wait after the last.
Barrier ==
    /\ stages # <<>> /\ finished = Head(stages)
    /\ stages' = Tail(stages)
    /\ finished' = {}
    /\ UNCHANGED <<pass, memory, running>>

ForwardNext ==
    \/ stages # <<>> /\ \E k \in Head(stages) : Start(k)
    \/ \E k \in DOMAIN running : Finish(k)
    \/ Barrier

-----------------------------------------------------------------------------
\* A kernel reads exactly what its mathematics needs: no stale row of an
\* earlier pass, no result of another layer, row or sequence, none that is
\* half written, and nobody writes it while the kernel runs.
ReadsRight ==
    \A k \in DOMAIN running :
        /\ running[k] = k.reads
        /\ \A b \in DOMAIN k.reads \ DOMAIN k.writes : Held(b) = k.reads[b]

\* Two kernels that run at the same time write different buffers.
WritesApart ==
    \A j, k \in DOMAIN running : j # k => DOMAIN j.writes \cap DOMAIN k.writes = {}

\* When the pass is over its outputs, and the state it leaves to the next
\* pass, are the ones of the network.
ResultRight == stages = <<>> => \A b \in DOMAIN Passes[pass].result : Held(b) = Passes[pass].result[b]

\* A pass computes the network: kernels read what they need, write apart,
\* and leave the results and the state of the next pass.
PassesSafe == ReadsRight /\ WritesApart /\ ResultRight

=============================================================================
