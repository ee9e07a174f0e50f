------------------------------- MODULE Server -------------------------------
(***************************************************************************)
(* internal/httpserver: requests that are admitted, wait for a slot, read  *)
(* their body, lease a model, are served and give everything back.  The    *)
(* question cache is in Questions, the pool of models in Pool: here a      *)
(* lease is granted, refused as unsupported, or fails.                     *)
(*                                                                         *)
(* A response is the sequence of what the handler writes: "error" (a JSON  *)
(* error with its status), "body" (a whole answer), "piece" (samples or an *)
(* event of a stream), "failed" (an event that tells an error) and "end".  *)
(***************************************************************************)
EXTENDS Naturals, Sequences, FiniteSets

CONSTANTS Request, Workers,
          Models,     \* sequence of [declares : {"lane", "other", "nothing"}, supports : BOOLEAN]
          MaxPieces   \* bound: pieces of a stream

\* A format that declares lanes declares all that its models provide
\* (Format.Provides); one that declares nothing may provide any.
ASSUME ServerAssumption ==
    /\ IsFiniteSet(Request) /\ Workers \in Nat \ {0} /\ MaxPieces \in Nat
    /\ Models \in Seq([declares : {"lane", "other", "nothing"}, supports : BOOLEAN])
    /\ \A i \in DOMAIN Models : Models[i].declares = "other" => ~Models[i].supports

VARIABLES
    request,    \* each request: pc, what it asks for, its lease, its place in the scan of models
    admission,  \* tokens in admission
    slots,      \* free slots
    defaults,   \* the default model, or 0
    response    \* what has been written

serverVars == <<request, admission, slots, defaults, response>>

\* The handlers; chat and pcm are streams, of events and of samples.
Kinds == {"transcription", "classes", "completion", "chat", "wav", "pcm"}
Nameless == 0
Unknown == Len(Models) + 1

\* The last position of the scan of the models, two passes over them.
ScanEnd == 2 * Len(Models)

Writes == {"error", "body", "piece", "failed", "end"}

Unread(pc) == [pc |-> pc, kind |-> "completion", name |-> Nameless, lease |-> 0, at |-> 1, err |-> FALSE]

RequestType ==
    [pc : {"new", "slot", "read", "lease", "scan", "serve", "release", "done", "free", "over"},
     kind : Kinds, name : 0..Unknown, lease : 0..Len(Models), at : 1..ScanEnd + 1, err : BOOLEAN]

ServerTypeOK ==
    /\ request \in [Request -> RequestType]
    /\ admission \in 0..2 * Workers /\ slots \in 0..Workers
    /\ defaults \in 0..Len(Models)
    /\ response \in [Request -> Seq(Writes)] /\ \A r \in Request : Len(response[r]) <= MaxPieces + 1

ServerInit ==
    /\ request = [r \in Request |-> Unread("new")]
    /\ admission = 0 /\ slots = Workers
    /\ defaults = 0
    /\ response = [r \in Request |-> <<>>]

ReqAt(r, pc) == request[r].pc = pc
ReqGoto(r, pc) == request' = [request EXCEPT ![r].pc = pc]
Say(r, what) == response' = [response EXCEPT ![r] = Append(@, what)]

\* The deferred calls run after the handler: Release when it has a lease,
\* then done.
Leaving(r) == IF request[r].lease # 0 THEN "release" ELSE "done"

-----------------------------------------------------------------------------
\* admit.

Admit(r) ==
    /\ ReqAt(r, "new")
    /\ IF admission < 2 * Workers
       THEN admission' = admission + 1 /\ ReqGoto(r, "slot")
       ELSE UNCHANGED admission /\ ReqGoto(r, "over")  \* with an error: the queue is full
    /\ UNCHANGED <<slots, defaults, response>>

TakeSlot(r) ==
    /\ ReqAt(r, "slot") /\ slots > 0
    /\ slots' = slots - 1
    /\ ReqGoto(r, "read")
    /\ UNCHANGED <<admission, defaults, response>>

BugLeaveQueue == admission

\* A request cancelled while it waits gives its token back.
LeaveQueue == admission - 1

\* It has no slot to give back.
LeaveSlots == slots

CancelWaiting(r) ==
    /\ ReqAt(r, "slot")
    /\ admission' = LeaveQueue
    /\ slots' = LeaveSlots
    /\ ReqGoto(r, "over")  \* with an error
    /\ UNCHANGED <<defaults, response>>

-----------------------------------------------------------------------------
\* The handlers up to the lease: the body is read, parsed, decoded and
\* checked; anything wrong is answered with an error.

ReadBody(r) ==
    /\ ReqAt(r, "read")
    /\ \E name \in 0..Unknown : request' = [request EXCEPT ![r].pc = "lease", ![r].name = name]
    /\ UNCHANGED <<admission, slots, defaults, response>>

Refuse(r) ==
    /\ ReqAt(r, "read")
    /\ Say(r, "error")
    /\ ReqGoto(r, "done")
    /\ UNCHANGED <<admission, slots, defaults>>

-----------------------------------------------------------------------------
\* acquire.

\* Two passes over the models: position k of the scan is model k of the
\* first pass, which leases those whose format declares the lane, or model
\* k - Len(Models) of the second, which leases those that declare nothing.
ModelAt(k) == IF k <= Len(Models) THEN k ELSE k - Len(Models)
Eligible(k) == Models[ModelAt(k)].declares = IF k <= Len(Models) THEN "lane" ELSE "nothing"

\* Which handler it is matters from here on.
Leased(r, i) ==
    \E kind \in Kinds : request' = [request EXCEPT ![r].pc = "serve", ![r].lease = i, ![r].kind = kind]
NoLease(r) == Say(r, "error") /\ ReqGoto(r, "done")

\* Acquire of the pool returns a lease, or an error: always when the model
\* does not support the lane, and whenever its loading fails.
AcquireNamed(r) ==
    LET i == request[r].name IN
    /\ ReqAt(r, "lease") /\ i # Nameless
    /\ \/ i # Unknown /\ Models[i].supports /\ Leased(r, i) /\ UNCHANGED response
       \/ NoLease(r)
    /\ UNCHANGED <<admission, slots, defaults>>

AcquireDefault(r) ==
    /\ ReqAt(r, "lease") /\ request[r].name = Nameless
    /\ IF defaults # 0
       THEN (Leased(r, defaults) /\ UNCHANGED response) \/ NoLease(r)
       ELSE request' = [request EXCEPT ![r].pc = "scan", ![r].at = 1] /\ UNCHANGED response
    /\ UNCHANGED <<admission, slots, defaults>>

\* The model that served is the default from now on.
Record(i, ok) == IF ok THEN i ELSE defaults

TryNext(r, failed) == request' = [request EXCEPT ![r].at = @ + 1, ![r].err = @ \/ failed]

\* One model of the scan is leased.  An error counts unless the model, once
\* open, does not provide the lane; one that declares it and does not
\* provide it fails to open.
ScanModel(r) ==
    LET i == ModelAt(request[r].at) IN
    /\ ReqAt(r, "scan") /\ request[r].at <= ScanEnd /\ Eligible(request[r].at)
    /\ \/ Models[i].supports /\ Leased(r, i) /\ defaults' = Record(i, TRUE)
       \/ TryNext(r, Models[i].supports \/ Models[i].declares = "lane") /\ defaults' = Record(i, FALSE)
    /\ UNCHANGED <<admission, slots, response>>

ScanSkips(r) ==
    /\ ReqAt(r, "scan") /\ request[r].at <= ScanEnd /\ ~Eligible(request[r].at)
    /\ TryNext(r, FALSE)
    /\ UNCHANGED <<admission, slots, defaults, response>>

\* None served: the first error, or "no model here provides".
ScanEnds(r) ==
    /\ ReqAt(r, "scan") /\ request[r].at > ScanEnd
    /\ NoLease(r)
    /\ UNCHANGED <<admission, slots, defaults>>

-----------------------------------------------------------------------------
\* Serving: transcriptions, classifications, chat completions that do not
\* stream and speech as WAV are one body; the others write pieces.

Stream(r) == request[r].kind \in {"chat", "pcm"}
Pieces(r) == Cardinality({i \in DOMAIN response[r] : response[r][i] = "piece"})

AnswerWhole(r, kind) ==
    /\ ReqAt(r, "serve") /\ request[r].kind = kind
    /\ \E what \in {"body", "error"} : Say(r, what)
    /\ ReqGoto(r, "release")
    /\ UNCHANGED <<admission, slots, defaults>>

Transcription(r) == AnswerWhole(r, "transcription")
Classes(r) == AnswerWhole(r, "classes")
Completion(r) == AnswerWhole(r, "completion")

\* The samples are gathered; too many, or an error of the voice, and the
\* answer is an error instead.
Wav(r) == AnswerWhole(r, "wav")

\* The session or the voice refuses before anything is written.
RefuseStream(r) ==
    /\ ReqAt(r, "serve") /\ Stream(r) /\ response[r] = <<>>
    /\ Say(r, "error")
    /\ ReqGoto(r, "release")
    /\ UNCHANGED <<admission, slots, defaults>>

StreamPiece(r) ==
    /\ ReqAt(r, "serve") /\ Stream(r) /\ Pieces(r) < MaxPieces
    /\ Say(r, "piece")
    /\ UNCHANGED <<request, admission, slots, defaults>>

\* The end of a chat is marked, that of samples is the end of the body.
StreamEnds(r) ==
    /\ ReqAt(r, "serve") /\ Stream(r)
    /\ request[r].kind = "chat" => response[r] # <<>>
    /\ IF request[r].kind = "chat" THEN Say(r, "end") ELSE UNCHANGED response
    /\ ReqGoto(r, "release")
    /\ UNCHANGED <<admission, slots, defaults>>

\* An error once the status is sent: an event of the chat, and nothing of
\* samples.
TellFailure(r) == IF request[r].kind = "chat" THEN Say(r, "failed") ELSE UNCHANGED response

StreamFails(r) ==
    /\ ReqAt(r, "serve") /\ Stream(r)
    /\ request[r].kind = "chat" => response[r] # <<>>
    /\ TellFailure(r)
    /\ ReqGoto(r, "release")
    /\ UNCHANGED <<admission, slots, defaults>>

-----------------------------------------------------------------------------
\* The deferred calls.

Release(r) ==
    /\ ReqAt(r, "release")
    /\ request' = [request EXCEPT ![r].pc = "done", ![r].lease = 0]
    /\ UNCHANGED <<admission, slots, defaults, response>>

\* done gives the slot back first, then the token.

GiveSlot(r) ==
    /\ ReqAt(r, "done")
    /\ slots' = slots + 1
    /\ ReqGoto(r, "free")
    /\ UNCHANGED <<admission, defaults, response>>

GiveToken(r) ==
    /\ ReqAt(r, "free")
    /\ admission' = admission - 1
    /\ request' = [request EXCEPT ![r] = Unread("over")]
    /\ response' = [response EXCEPT ![r] = <<>>]  \* it has been sent
    /\ UNCHANGED <<slots, defaults>>

HandlerStep(r) ==
    \/ Admit(r) \/ TakeSlot(r) \/ ReadBody(r) \/ Refuse(r)
    \/ AcquireNamed(r) \/ AcquireDefault(r) \/ ScanModel(r) \/ ScanSkips(r) \/ ScanEnds(r)
    \/ Transcription(r) \/ Classes(r) \/ Completion(r) \/ Wav(r)
    \/ RefuseStream(r) \/ StreamPiece(r) \/ StreamEnds(r) \/ StreamFails(r)
    \/ Release(r) \/ GiveSlot(r) \/ GiveToken(r)

ServerNext == \E r \in Request : HandlerStep(r) \/ CancelWaiting(r)

ServerSpec == ServerInit /\ [][ServerNext]_serverVars

-----------------------------------------------------------------------------
Holding(pcs) == Cardinality({r \in Request : request[r].pc \in pcs})

\* Admission and slots account for every request on every path: what is
\* taken is what is not given back, so that no cancelled, refused or failed
\* request narrows the queue for good.
Accounts ==
    /\ admission = Holding({"slot", "read", "lease", "scan", "serve", "release", "done", "free"})
    /\ slots + Holding({"read", "lease", "scan", "serve", "release", "done"}) = Workers

\* A response is one answer, one error, or a stream that is not continued
\* or followed by an error body once it has begun.
OneResponse ==
    \A r \in Request : \A i \in DOMAIN response[r] :
        response[r][i] # "piece" => i = Len(response[r]) /\ (response[r][i] \in {"error", "body"} => i = 1)

\* A nameless request whose scan met no failing model is told that no model
\* provides the lane only when none does.
ScanFinds ==
    \A r \in Request :
        ReqAt(r, "scan") /\ request[r].at > ScanEnd /\ ~request[r].err
        => \A i \in DOMAIN Models : ~Models[i].supports

\* The default model supports its lane: a model that failed or was refused
\* never becomes it.
DefaultServes == defaults # 0 => Models[defaults].supports

\* Nobody waits: every request admitted has been answered.
ServerQuiet == \A r \in Request : request[r].pc \in {"new", "over"}

\* A request takes and gives back its place on every path, is answered once,
\* and by a model that provides its lane if there is one.
ServerSafe == ServerTypeOK /\ Accounts /\ OneResponse /\ ScanFinds /\ DefaultServes

=============================================================================
