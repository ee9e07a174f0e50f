----------------------------- MODULE McpClient -----------------------------
(***************************************************************************)
(* mcp.Client: calls of several goroutines multiplexed on one connection,  *)
(* the goroutine that reads the server's messages, and the end of the      *)
(* connection.                                                             *)
(*                                                                         *)
(* The pipes hold PipeCap messages each way; a write to a full pipe waits. *)
(* A message is written whole under wmu, so that writing is one step.  The *)
(* server is external: it reads, answers in any order, asks questions of   *)
(* its own, and reads nothing while it waits to write.                     *)
(***************************************************************************)
EXTENDS Naturals, Sequences, FiniteSets

CONSTANTS Caller,    \* goroutines that call, once each
          Lists,     \* those that list the tools; the others call one
          Pages,     \* pages of the server's list of tools
          MaxPings,  \* bound: requests and repeated answers the server sends
          PipeCap    \* messages a pipe holds

ASSUME McpAssumption ==
    /\ IsFiniteSet(Caller) /\ Lists \subseteq Caller
    /\ Pages \in Nat \ {0} /\ MaxPings \in Nat /\ PipeCap \in Nat \ {0}

VARIABLES
    caller,      \* each goroutine: pc, the id it waits for, the pages it has
    nextId,      \* next
    pending,     \* the ids whose channels pending holds
    chan,        \* each id's channel: empty, or the response
    replies,     \* goroutines that wait to answer the server's requests
    reading,     \* the reader: reading, its output ended, or returned
    toServer, fromServer, inOpen, outOpen, \* the pipes
    server, owed, pings                    \* the server: what it writes, what it has to answer

mcpVars == <<caller, nextId, pending, chan, replies, reading, toServer, fromServer, inOpen, outOpen,
             server, owed, pings>>

MaxIds == Pages * Cardinality(Lists) + Cardinality(Caller \ Lists)
Ids == 1..MaxIds
Nobody == [pc |-> "idle", id |-> 0, pages |-> <<>>, page |-> 0]

Returned(how) == [Nobody EXCEPT !.pc = how]

McpTypeOK ==
    /\ caller \in [Caller -> [pc : {"idle", "send", "wait", "notify", "ok", "failed", "cancelled"}, id : 0..MaxIds,
                              pages : Seq(0..Pages), page : 0..Pages]]
    /\ nextId \in 0..MaxIds /\ pending \subseteq Ids
    /\ chan \in [Ids -> {"none", "answer", "ended"}]
    /\ replies \in Nat /\ pings \in 0..MaxPings
    /\ reading \in {"yes", "ended", "no"} /\ {inOpen, outOpen} \subseteq BOOLEAN
    /\ Len(toServer) <= PipeCap /\ Len(fromServer) <= PipeCap
    /\ owed \subseteq Ids

McpInit ==
    /\ caller = [c \in Caller |-> Nobody] /\ nextId = 0
    /\ pending = {} /\ chan = [i \in Ids |-> "none"] /\ replies = 0
    /\ reading = "yes" /\ toServer = <<>> /\ fromServer = <<>> /\ inOpen = TRUE /\ outOpen = TRUE
    /\ server = <<"read", 0>> /\ owed = {} /\ pings = 0

peerVars == <<server, owed, pings, outOpen>>

-----------------------------------------------------------------------------
\* call.

BugEnded == FALSE

\* c.err is set.
Ended == reading = "no"

\* A request gets an id and a channel, unless the connection has ended.
\* Tools asks for page after page.
Register(c, page, pages) ==
    /\ nextId' = nextId + 1
    /\ IF Ended
       THEN caller' = [caller EXCEPT ![c] = Returned("failed")] /\ UNCHANGED pending
       ELSE /\ pending' = pending \cup {nextId + 1}
            /\ caller' = [caller EXCEPT ![c] = [pc |-> "send", id |-> nextId + 1, pages |-> pages, page |-> page]]

\* Tools (page 1), or a single call (page 0).
Call(c) ==
    /\ caller[c].pc = "idle"
    /\ Register(c, IF c \in Lists THEN 1 ELSE 0, <<>>)
    /\ UNCHANGED <<chan, replies, reading, toServer, fromServer, inOpen, peerVars>>

\* send: waits for room, fails once the server's input is closed.
Room == Len(toServer) < PipeCap
send(msg) == inOpen /\ Room /\ toServer' = Append(toServer, msg)

CallSend(c) ==
    /\ caller[c].pc = "send"
    /\ send(<<"request", caller[c].id>>)
    /\ caller' = [caller EXCEPT ![c].pc = "wait"]
    /\ UNCHANGED <<nextId, pending, chan, replies, reading, fromServer, inOpen, peerVars>>

forget(i) == pending \ {i}

SendFails(c) ==
    /\ caller[c].pc = "send" /\ ~inOpen
    /\ pending' = forget(caller[c].id)
    /\ caller' = [caller EXCEPT ![c] = Returned("failed")]
    /\ UNCHANGED <<nextId, chan, replies, reading, toServer, fromServer, inOpen, peerVars>>

\* The page of tools has a cursor to the next one.
More(c) == caller[c].page \in 1..Pages - 1

\* The response arrives: the end of the connection, an error (of the server
\* or of the tool), the last page, or one with a cursor,
\* after which Tools asks for the next.
Response(c) ==
    LET i == caller[c].id IN
    /\ caller[c].pc = "wait" /\ chan[i] # "none"
    /\ chan' = [chan EXCEPT ![i] = "none"]
    /\ \/ /\ caller' = [caller EXCEPT ![c] = Returned("failed")] /\ UNCHANGED <<nextId, pending>>
       \/ /\ chan[i] = "answer" /\ ~More(c)
          /\ caller' = [caller EXCEPT ![c].pc = "ok", ![c].pages = Append(@, caller[c].page)]
          /\ UNCHANGED <<nextId, pending>>
       \/ /\ chan[i] = "answer" /\ More(c)
          /\ Register(c, caller[c].page + 1, Append(caller[c].pages, caller[c].page))
    /\ UNCHANGED <<replies, reading, toServer, fromServer, inOpen, peerVars>>

\* The context ends first: the call is forgotten and the server told.
GiveUpCall(c) ==
    /\ caller[c].pc = "wait"
    /\ pending' = forget(caller[c].id)
    /\ caller' = [caller EXCEPT ![c].pc = "notify"]
    /\ UNCHANGED <<nextId, chan, replies, reading, toServer, fromServer, inOpen, peerVars>>

Notify(c) ==
    /\ caller[c].pc = "notify"
    /\ send(<<"note", caller[c].id>>) \/ (~inOpen /\ UNCHANGED toServer)
    /\ caller' = [caller EXCEPT ![c] = Returned("cancelled")]
    /\ UNCHANGED <<nextId, pending, chan, replies, reading, fromServer, inOpen, peerVars>>

-----------------------------------------------------------------------------
\* read and handle.

BugAnswer == send(<<"reply", 0>>) /\ UNCHANGED replies

\* A request of the server is answered by a goroutine of its own.
Answer == replies' = replies + 1 /\ UNCHANGED toServer

\* The response takes its channel out of pending.
Delivered(i) == pending \ {i}

Handle ==
    LET m == Head(fromServer) IN
    /\ reading = "yes" /\ fromServer # <<>>
    /\ \/ /\ m[1] = "ping" /\ Answer /\ UNCHANGED <<pending, chan>>
       \/ /\ m[1] = "response" /\ m[2] \in pending /\ chan[m[2]] = "none"
          /\ pending' = Delivered(m[2])
          /\ chan' = [chan EXCEPT ![m[2]] = "answer"]
          /\ UNCHANGED <<replies, toServer>>
       \/ m[1] = "response" /\ m[2] \notin pending /\ UNCHANGED <<pending, chan, replies, toServer>>
    /\ fromServer' = Tail(fromServer)
    /\ UNCHANGED <<caller, nextId, reading, inOpen, peerVars>>

Reply ==
    /\ replies > 0
    /\ send(<<"reply", 0>>) \/ (~inOpen /\ UNCHANGED toServer)
    /\ replies' = replies - 1
    /\ UNCHANGED <<caller, nextId, pending, chan, reading, fromServer, inOpen, peerVars>>

\* The output ended: every pending call gets the error, under mu, as does
\* every later one.
ReadEnds ==
    /\ reading = "yes" /\ fromServer = <<>> /\ ~outOpen
    /\ reading' = "no"
    /\ chan' = [i \in Ids |-> IF i \in pending THEN "ended" ELSE chan[i]]
    /\ pending' = {}
    /\ UNCHANGED <<caller, nextId, replies, toServer, fromServer, inOpen, peerVars>>

\* Close closes the server's input; the server, or its killing, ends the output.
McpClose ==
    /\ inOpen
    /\ inOpen' = FALSE
    /\ UNCHANGED <<caller, nextId, pending, chan, replies, reading, toServer, fromServer, peerVars>>

-----------------------------------------------------------------------------
\* The server, external.

clientVars == <<caller, nextId, pending, chan, replies, reading, inOpen>>

ServerRead ==
    /\ outOpen /\ server[1] = "read" /\ toServer # <<>>
    /\ owed' = IF Head(toServer)[1] = "request" THEN owed \cup {Head(toServer)[2]} ELSE owed
    /\ toServer' = Tail(toServer)
    /\ UNCHANGED <<clientVars, fromServer, server, pings, outOpen>>

\* It turns to an answer or to a question, which it then has to write.
ServerTurn ==
    /\ outOpen /\ server[1] = "read"
    /\ \E i \in owed : server' = <<"response", i>> /\ owed' = owed \ {i}
    /\ UNCHANGED <<clientVars, toServer, fromServer, pings, outOpen>>

ServerAsk ==
    /\ outOpen /\ server[1] = "read" /\ pings < MaxPings
    /\ server' = <<"ping", 0>> /\ pings' = pings + 1
    /\ UNCHANGED <<clientVars, toServer, fromServer, owed, outOpen>>

\* It writes, an answer now and then twice.
ServerWrite ==
    /\ outOpen /\ server[1] # "read" /\ Len(fromServer) < PipeCap
    /\ fromServer' = Append(fromServer, server)
    /\ \/ server' = <<"read", 0>> /\ UNCHANGED pings
       \/ server[1] = "response" /\ pings < MaxPings /\ pings' = pings + 1 /\ UNCHANGED server
    /\ UNCHANGED <<clientVars, toServer, owed, outOpen>>

\* It ends its output, or dies, or is killed after Close.
ServerEnds ==
    /\ outOpen
    /\ outOpen' = FALSE
    /\ UNCHANGED <<clientVars, toServer, fromServer, server, owed, pings>>

\* Nobody reads the input of a server that is gone: the writes fail.
PipeBreaks ==
    /\ ~outOpen /\ inOpen
    /\ inOpen' = FALSE
    /\ UNCHANGED <<caller, nextId, pending, chan, replies, reading, toServer, fromServer, peerVars>>

CallerStep(c) == CallSend(c) \/ SendFails(c) \/ Response(c) \/ Notify(c)
ServerStep == ServerRead \/ ServerTurn \/ ServerWrite
ReaderStep == Handle \/ ReadEnds

McpNext ==
    \/ \E c \in Caller : CallerStep(c) \/ GiveUpCall(c) \/ Call(c)
    \/ ReaderStep \/ Reply \/ McpClose
    \/ ServerStep \/ ServerAsk \/ ServerEnds \/ PipeBreaks

McpSpec == McpInit /\ [][McpNext]_mcpVars

-----------------------------------------------------------------------------
\* A channel in pending is empty, so that handle and read, which hold the
\* only goroutine that reads, and read even mu, never wait to send on it;
\* and its call has not returned.
PendingWaits ==
    \A i \in pending :
        /\ chan[i] = "none"
        /\ \E c \in Caller : caller[c].id = i /\ caller[c].pc \in {"send", "wait"}

\* Once the connection has ended nobody waits for it: an error is set,
\* and every call registered before has its response.
NobodyWaitsForEnd ==
    reading = "no" => \A c \in Caller : caller[c].pc = "wait" => chan[caller[c].id] # "none"

\* Tools returns every page of the list, once and in order, whatever is
\* answered late, twice or out of order.
EveryPage ==
    \A c \in Caller : caller[c].pc = "ok" /\ caller[c].page # 0 =>
        caller[c].pages = [n \in 1..Pages |-> n]

\* Nobody waits: every call has returned.
McpQuiet == \A c \in Caller : caller[c].pc \in {"idle", "ok", "failed", "cancelled"}

\* A call is answered once or told why not: the reader never waits for it,
\* the end of the connection reaches it, and a list has every page.
McpSafe == McpTypeOK /\ PendingWaits /\ NobodyWaitsForEnd /\ EveryPage

=============================================================================
