----------------------------- MODULE MCServices -----------------------------
(***************************************************************************)
(* The components around the models that do not call each other, checked   *)
(* side by side: a behaviour is one of the component that focus names.     *)
(***************************************************************************)
EXTENDS BatchTranscriber, WeightCache, McpClient, Server, Questions, Hearing

CONSTANTS p1, p2, k1, k2, c1, c2, r1, r2, r3, a1, a2

VARIABLE focus

MCModels ==
    << [declares |-> "nothing", supports |-> FALSE], [declares |-> "other", supports |-> FALSE],
       [declares |-> "lane", supports |-> TRUE] >>

vars == <<focus, batchVars, cacheVars, mcpVars, serverVars, questionVars, hearingVars>>

Init ==
    /\ focus \in {"batch", "cache", "mcp", "server", "questions", "hearing"}
    /\ BatchInit /\ CacheInit /\ McpInit /\ ServerInit /\ QuestionInit /\ HearingInit
    /\ focus # "hearing" => hears

\* A step A of the component.
OfBatch(A) == focus = "batch" /\ A /\ UNCHANGED <<focus, cacheVars, mcpVars, serverVars, questionVars, hearingVars>>
OfCache(A) == focus = "cache" /\ A /\ UNCHANGED <<focus, batchVars, mcpVars, serverVars, questionVars, hearingVars>>
OfMcp(A) == focus = "mcp" /\ A /\ UNCHANGED <<focus, batchVars, cacheVars, serverVars, questionVars, hearingVars>>
OfServer(A) == focus = "server" /\ A /\ UNCHANGED <<focus, batchVars, cacheVars, mcpVars, questionVars, hearingVars>>
OfQuestions(A) == focus = "questions" /\ A /\ UNCHANGED <<focus, batchVars, cacheVars, mcpVars, serverVars, hearingVars>>
OfHearing(A) == focus = "hearing" /\ A /\ UNCHANGED <<focus, batchVars, cacheVars, mcpVars, serverVars, questionVars>>

Next ==
    \/ OfBatch(BatchNext) \/ OfCache(CacheNext) \/ OfMcp(McpNext) \/ OfServer(ServerNext) \/ OfQuestions(QuestionNext)
    \/ OfHearing(HearingNext)

\* The goroutines and processes run, and so do the server an McpClient talks
\* to and its pipe.  Calls, cancellations and deaths need not happen.
Progress ==
    \/ OfBatch(CoStep \/ \E l \in Lane : LaneStep(l))
    \/ OfCache(\E p \in Loader : LoaderStep(p))
    \/ OfMcp(ReaderStep \/ Reply \/ ServerStep \/ PipeBreaks \/ \E c \in Caller : CallerStep(c))
    \/ OfServer(\E r \in Request : HandlerStep(r))
    \/ OfQuestions(\E a \in Asker : AskerStep(a))
    \/ OfHearing(EarStep \/ ScribeRuns \/ RespondStep)

Spec == Init /\ [][Next]_vars /\ WF_vars(Progress)

\* Every call returns, of whatever component: the lanes of a batch and its
\* coordinator, loaders and the lock file, the MCP client (whose reader never
\* waits to write) and its server, requests and the queue, questions and
\* their evictions never all wait for each other.
EveryCallReturns == []<>(BatchQuiet /\ CacheQuiet /\ McpQuiet /\ ServerQuiet /\ QuestionQuiet /\ HearingQuiet)
=============================================================================
