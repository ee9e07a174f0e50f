---------------------------- MODULE ServiceProofs ----------------------------
(***************************************************************************)
(* Proofs about McpClient: for any number of callers, pages and messages,  *)
(* a response meets an empty channel of a call that waits for it, the end  *)
(* of the connection reaches every call, and a list has every page; and    *)
(* about Server: for any number of requests, workers and models the        *)
(* admission queue and the slots account for every request, a response is  *)
(* one answer, and a scan that met no error tells the truth.               *)
(***************************************************************************)
EXTENDS McpClient, Server, FiniteSetTheorems, SequenceTheorems, TLAPS

-----------------------------------------------------------------------------
(* The MCP client.                                                         *)

\* What the pipes carry.
ToServer == ({"request"} \X Ids) \cup ({"note", "reply"} \X (0..MaxIds))
FromServer == {"ping", "response"} \X (0..MaxIds)
WireInv ==
    /\ toServer \in Seq(ToServer) /\ fromServer \in Seq(FromServer)
    /\ server \in {"read", "ping", "response"} \X (0..MaxIds)

\* The requests the callers can still make: a turn is a caller and a page.
Turns == (Lists \X (1..Pages)) \cup ((Caller \ Lists) \X {0})
Left == {t \in Turns : \/ caller[t[1]].pc = "idle"
                       \/ caller[t[1]].pc \in {"send", "wait"} /\ t[2] > caller[t[1]].page}
CountInv == nextId + Cardinality(Left) <= MaxIds

\* An id is of one call, and what is above nextId is not used.
Active(c) == caller[c].pc \in {"send", "wait", "notify"}
IdsInv ==
    /\ \A c \in Caller : Active(c) => 1 <= caller[c].id /\ caller[c].id <= nextId
    /\ \A c, d \in Caller : c # d /\ Active(c) /\ Active(d) => caller[c].id # caller[d].id
    /\ \A i \in pending : i <= nextId
    /\ \A i \in Ids : i > nextId => chan[i] = "none"

\* A call that waits is pending or has its response, and nobody is pending
\* once the connection has ended.
WaitInv ==
    /\ \A c \in Caller : caller[c].pc \in {"send", "wait"} =>
         caller[c].id \in pending \/ chan[caller[c].id] # "none"
    /\ reading = "no" => pending = {}

\* The pages a list has are those before the one it asks for.
FirstPages(k) == [n \in 1..k |-> n]
PagesInv ==
    \A c \in Caller : caller[c].pc \in {"send", "wait"} =>
        \/ c \notin Lists /\ caller[c].page = 0 /\ caller[c].pages = <<>>
        \/ /\ c \in Lists /\ caller[c].page \in 1..Pages
           /\ caller[c].pages = FirstPages(caller[c].page - 1)

McpInv == McpTypeOK /\ WireInv /\ CountInv /\ IdsInv /\ PendingWaits /\ WaitInv /\ PagesInv /\ EveryPage

-----------------------------------------------------------------------------
\* The turns are as many as the ids.
LEMMA TurnsCount == IsFiniteSet(Turns) /\ Cardinality(Turns) = MaxIds /\ MaxIds \in Nat
<1>1. IsFiniteSet(Lists) /\ IsFiniteSet(Caller \ Lists)
  BY McpAssumption, FS_Subset, FS_Difference
<1>2. Cardinality(Lists) \in Nat /\ Cardinality(Caller \ Lists) \in Nat /\ Pages \in Nat
  BY <1>1, FS_CardinalityType, McpAssumption
<1>3. IsFiniteSet(1..Pages) /\ Cardinality(1..Pages) = Pages
  <2>1. 1 \in Int /\ Pages \in Int /\ ~(1 > Pages) /\ Pages - 1 + 1 = Pages
    BY McpAssumption
  <2> QED BY <2>1, FS_Interval
<1>4. IsFiniteSet({0}) /\ Cardinality({0}) = 1
  BY FS_Singleton
<1>5. IsFiniteSet(Lists \X (1..Pages)) /\ Cardinality(Lists \X (1..Pages)) = Cardinality(Lists) * Pages
  BY <1>1, <1>3, FS_Product
<1>6. IsFiniteSet((Caller \ Lists) \X {0}) /\ Cardinality((Caller \ Lists) \X {0}) = Cardinality(Caller \ Lists)
  BY <1>1, <1>2, <1>4, FS_Product
<1>7. (Lists \X (1..Pages)) \cap ((Caller \ Lists) \X {0}) = {}
  OBVIOUS
<1>8. Cardinality({}) = 0
  BY FS_EmptySet
<1>9. IsFiniteSet(Turns) /\ Cardinality(Turns) = Cardinality(Lists) * Pages + Cardinality(Caller \ Lists) - 0
  BY <1>5, <1>6, <1>7, <1>8, FS_Union DEF Turns
<1> QED BY <1>2, <1>9 DEF MaxIds

\* A request takes a turn: there is an id for it, and fewer turns are left.
LEMMA TurnTaken ==
    ASSUME McpTypeOK, CountInv, NEW t \in Left, Left' \subseteq Left \ {t}, nextId' = nextId + 1
    PROVE  CountInv' /\ nextId' \in 0..MaxIds /\ nextId + 1 \in Ids
<1>1. IsFiniteSet(Left)
  BY TurnsCount, FS_Subset DEF Left
<1>2. IsFiniteSet(Left \ {t}) /\ Cardinality(Left \ {t}) = Cardinality(Left) - 1
  BY <1>1, FS_RemoveElement
<1>3. IsFiniteSet(Left') /\ Cardinality(Left') <= Cardinality(Left \ {t})
  BY <1>2, FS_Subset
<1>4. Cardinality(Left') \in Nat /\ Cardinality(Left) \in Nat /\ nextId \in Nat /\ MaxIds \in Nat
  BY <1>1, <1>3, FS_CardinalityType, TurnsCount DEF McpTypeOK
<1> QED BY <1>2, <1>3, <1>4 DEF CountInv, Ids

\* Any other step takes no id, and leaves no more turns.
LEMMA NoTurnTaken ==
    ASSUME McpTypeOK, CountInv, Left' \subseteq Left, nextId' = nextId
    PROVE  CountInv'
<1>1. IsFiniteSet(Left)
  BY TurnsCount, FS_Subset DEF Left
<1>2. IsFiniteSet(Left') /\ Cardinality(Left') <= Cardinality(Left)
  BY <1>1, FS_Subset
<1>3. Cardinality(Left') \in Nat /\ Cardinality(Left) \in Nat /\ nextId \in Nat /\ MaxIds \in Nat
  BY <1>1, <1>2, FS_CardinalityType, TurnsCount DEF McpTypeOK
<1> QED BY <1>2, <1>3 DEF CountInv

\* The list of the first n pages, grown by the next.
LEMMA NextPage ==
    ASSUME NEW k \in Nat \ {0}
    PROVE  Append(FirstPages(k - 1), k) = FirstPages(k)
<1> DEFINE s == FirstPages(k - 1)
<1> USE DEF FirstPages
<1>1. s \in Seq(Nat) /\ Len(s) = k - 1
  OBVIOUS
<1>2. Append(s, k) \in Seq(Nat) /\ Len(Append(s, k)) = k
  BY <1>1
<1>3. \A i \in 1..k : Append(s, k)[i] = i
  BY <1>1
<1> QED BY <1>2, <1>3

\* The initial state satisfies the inductive invariant.
LEMMA McpInitInv == McpInit => McpInv
<1> SUFFICES ASSUME McpInit PROVE McpInv
  OBVIOUS
<1>0. MaxIds \in Nat /\ MaxPings \in Nat /\ PipeCap \in Nat /\ Pages \in Nat
  BY TurnsCount, McpAssumption
<1>1. McpTypeOK
  BY <1>0 DEF McpInit, McpTypeOK, Nobody, Ids
<1>2. WireInv
  BY <1>0 DEF McpInit, WireInv
<1>3. CountInv
  <2>1. Left \subseteq Turns
    BY DEF Left
  <2>2. Cardinality(Left) \in Nat /\ Cardinality(Left) <= MaxIds
    BY <2>1, TurnsCount, FS_Subset, FS_CardinalityType
  <2> QED BY <2>2, <1>0 DEF CountInv, McpInit
<1>4. IdsInv /\ PendingWaits /\ WaitInv /\ PagesInv /\ EveryPage
  BY <1>0 DEF McpInit, IdsInv, PendingWaits, WaitInv, PagesInv, EveryPage, Active, Nobody
<1> QED BY <1>1, <1>2, <1>3, <1>4 DEF McpInv

-----------------------------------------------------------------------------
\* The records of the callers.
CallerRecord == [pc : {"idle", "send", "wait", "notify", "ok", "failed", "cancelled"}, id : 0..MaxIds,
                 pages : Seq(0..Pages), page : 0..Pages]

\* What is left of a call that has returned.
LEMMA ReturnedFields ==
    \A how : /\ Returned(how) = [pc |-> how, id |-> 0, pages |-> <<>>, page |-> 0]
            /\ Returned(how).pc = how /\ Returned(how).id = 0 /\ Returned(how).page = 0
BY DEF Returned, Nobody

\* It is the record of a caller.
LEMMA ReturnedRecord ==
    \A how \in {"ok", "failed", "cancelled"} : Returned(how) \in CallerRecord
<1>1. 0 \in 0..MaxIds /\ 0 \in 0..Pages /\ <<>> \in Seq(0..Pages)
  BY McpAssumption, TurnsCount
<1> QED BY <1>1, ReturnedFields DEF CallerRecord

\* A call that registers takes a fresh id; after the end it fails.
LEMMA RegisterStep ==
    ASSUME McpInv, NEW c \in Caller, NEW page \in 0..Pages, NEW pages \in Seq(0..Pages), Register(c, page, pages),
           \/ caller[c].pc = "idle" /\ chan' = chan /\ page = (IF c \in Lists THEN 1 ELSE 0) /\ pages = <<>>
           \/ /\ caller[c].pc = "wait" /\ chan[caller[c].id] # "none"
              /\ chan' = [chan EXCEPT ![caller[c].id] = "none"]
              /\ More(c) /\ page = caller[c].page + 1 /\ pages = Append(caller[c].pages, caller[c].page),
           UNCHANGED <<replies, reading, toServer, fromServer, inOpen, peerVars>>
    PROVE  McpInv'
<1> USE DEF peerVars
<1>0. /\ McpTypeOK /\ WireInv /\ CountInv /\ IdsInv /\ PendingWaits /\ WaitInv /\ PagesInv /\ EveryPage
      /\ Pages \in Nat \ {0} /\ MaxIds \in Nat
  BY McpAssumption, TurnsCount DEF McpInv
<1>1. /\ \A d \in Caller : d # c => caller'[d] = caller[d]
      /\ Ended => caller'[c] = Returned("failed")
      /\ ~Ended => caller'[c] = [pc |-> "send", id |-> nextId + 1, pages |-> pages, page |-> page]
      /\ nextId' = nextId + 1 /\ nextId \in Nat
      /\ pending' = IF Ended THEN pending ELSE pending \cup {nextId + 1}
  BY <1>0 DEF Register, McpTypeOK, Ended
<1>1a. /\ Ended => caller'[c].pc = "failed" /\ caller'[c].page = 0
       /\ ~Ended => /\ caller'[c].pc = "send" /\ caller'[c].id = nextId + 1
                    /\ caller'[c].pages = pages /\ caller'[c].page = page
       /\ caller[c].page \in 0..Pages
  BY <1>0, <1>1, ReturnedFields DEF McpTypeOK
<1> HIDE DEF Ended
<1>2. \/ c \notin Lists /\ page = 0 /\ pages = <<>> /\ caller[c].pc = "idle"
      \/ c \in Lists /\ page \in 1..Pages /\ pages = FirstPages(page - 1)
  <2>1. CASE caller[c].pc = "idle"
    <3>1. <<>> = FirstPages(1 - 1)
      BY DEF FirstPages
    <3> QED BY <1>0, <2>1, <3>1
  <2>2. CASE caller[c].pc = "wait"
    <3>0. /\ More(c) /\ page = caller[c].page + 1 /\ pages = Append(caller[c].pages, caller[c].page)
          /\ caller[c].page \in Nat /\ 1 <= caller[c].page /\ caller[c].page <= Pages - 1
      BY <1>0, <1>1a, <2>2 DEF More
    <3>1. c \in Lists /\ caller[c].page \in 1..Pages - 1 /\ caller[c].pages = FirstPages(caller[c].page - 1)
      BY <1>0, <2>2, <3>0 DEF PagesInv
    <3>2. caller[c].page \in Nat \ {0}
      BY <3>0
    <3>2a. pages = FirstPages(caller[c].page)
      BY <3>0, <3>1, <3>2, NextPage
    <3>3. page = caller[c].page + 1 /\ page - 1 = caller[c].page /\ page \in 1..Pages
      BY <1>0, <3>0
    <3> QED BY <3>1, <3>2a, <3>3
  <2> QED BY <2>1, <2>2
<1>3. <<c, page>> \in Left /\ Left' \subseteq Left \ {<<c, page>>}
  <2>1. <<c, page>> \in Turns
    BY <1>2 DEF Turns
  <2>2. <<c, page>> \in Left
    BY <1>0, <2>1, SMTT(20) DEF Left, McpTypeOK, More
  <2>3. ASSUME NEW t \in Left' PROVE t \in Left /\ t # <<c, page>>
    <3>1. t \in Turns /\ t[1] \in Caller /\ t = <<t[1], t[2]>> /\ t[2] \in Nat
      BY McpAssumption DEF Left, Turns
    <3>2. CASE t[1] # c
      BY <1>1, <2>3, <3>1, <3>2 DEF Left
    <3>3. CASE t[1] = c
      <4>1. ~Ended /\ t[2] > page
        BY <1>1a, <2>3, <3>1, <3>3 DEF Left
      <4>2. caller[c].pc = "idle" \/ (caller[c].pc = "wait" /\ t[2] > caller[c].page)
        BY <1>0, <1>1a, <3>1, <4>1
      <4> QED BY <3>1, <3>3, <4>1, <4>2 DEF Left
    <3> QED BY <3>2, <3>3
  <2> QED BY <2>2, <2>3
<1>4. CountInv' /\ nextId' \in 0..MaxIds /\ nextId + 1 \in Ids
  BY <1>0, <1>1, <1>3, TurnTaken
<1>5. caller'[c] \in CallerRecord
  <2>1. CASE Ended
    <3>1. Returned("failed") = [pc |-> "failed", id |-> 0, pages |-> <<>>, page |-> 0]
      BY ReturnedFields
    <3>2. 0 \in 0..MaxIds /\ 0 \in 0..Pages /\ <<>> \in Seq(0..Pages)
      BY <1>0
    <3>3. caller'[c] = [pc |-> "failed", id |-> 0, pages |-> <<>>, page |-> 0]
      BY <1>1, <2>1, <3>1
    <3> QED BY <3>2, <3>3 DEF CallerRecord
  <2>2. CASE ~Ended
    BY <1>0, <1>1, <1>4, <2>2 DEF CallerRecord, Ids
  <2> QED BY <2>1, <2>2
<1>6. McpTypeOK'
  <2>0. caller \in [Caller -> CallerRecord] /\ caller' = [caller EXCEPT ![c] = caller'[c]]
    BY <1>0 DEF McpTypeOK, CallerRecord, Register
  <2>1. caller' \in [Caller -> CallerRecord]
    BY <2>0, <1>5
  <2>2. chan' \in [Ids -> {"none", "answer", "ended"}] /\ pending' \subseteq Ids
    BY <1>0, <1>1, <1>4 DEF McpTypeOK
  <2> QED BY <1>0, <1>4, <2>1, <2>2 DEF McpTypeOK, CallerRecord
<1>7. WireInv'
  BY <1>0 DEF WireInv
<1>8. /\ \A i \in Ids : i # caller[c].id => chan'[i] = chan[i]
      /\ \A i \in Ids : chan'[i] # "none" => chan[i] # "none"
  BY <1>0 DEF McpTypeOK
<1>9. IdsInv'
  <2>0. \A d \in Caller : caller[d].id \in Int
    BY <1>0 DEF McpTypeOK
  <2>0a. \A d \in Caller : d # c => (Active(d)' <=> Active(d)) /\ caller'[d].id = caller[d].id
    BY <1>1 DEF Active
  <2>0b. Active(c)' => caller'[c].id = nextId + 1
    BY <1>1a DEF Active
  <2>1. \A d \in Caller : Active(d)' => 1 <= caller'[d].id /\ caller'[d].id <= nextId'
    BY <1>0, <1>1, <2>0, <2>0a, <2>0b DEF IdsInv
  <2>2. \A d, e \in Caller : d # e /\ Active(d)' /\ Active(e)' => caller'[d].id # caller'[e].id
    BY <1>0, <1>1, <2>0, <2>0a, <2>0b, SMTT(20) DEF IdsInv
  <2>3. \A i \in pending' : i <= nextId'
    BY <1>0, <1>1, SMTT(20) DEF IdsInv, McpTypeOK, Ids
  <2>4. \A i \in Ids : i > nextId' => chan'[i] = "none"
    BY <1>0, <1>1, <1>8 DEF IdsInv, McpTypeOK, Ids
  <2> QED BY <2>1, <2>2, <2>3, <2>4 DEF IdsInv
<1>10. PendingWaits'
  <2> SUFFICES ASSUME NEW i \in pending'
               PROVE  /\ chan'[i] = "none"
                      /\ \E d \in Caller : caller'[d].id = i /\ caller'[d].pc \in {"send", "wait"}
    BY DEF PendingWaits
  <2>1. CASE i \in pending
    <3>1. chan[i] = "none" /\ i \in Ids
      BY <1>0, <2>1 DEF PendingWaits, McpTypeOK
    <3>2. PICK d \in Caller : caller[d].id = i /\ caller[d].pc \in {"send", "wait"}
      BY <1>0, <2>1 DEF PendingWaits
    <3>3. d # c
      BY <3>1, <3>2
    <3> QED BY <1>1, <1>8, <3>1, <3>2, <3>3
  <2>2. CASE i \notin pending
    <3>1. i = nextId + 1 /\ ~Ended
      BY <1>1, <2>2
    <3>2. chan[i] = "none"
      BY <1>0, <1>1, <1>4, <3>1 DEF IdsInv
    <3> QED BY <1>1a, <1>4, <1>8, <3>1, <3>2
  <2> QED BY <2>1, <2>2
<1>11. WaitInv'
  <2>1. ASSUME NEW d \in Caller, caller'[d].pc \in {"send", "wait"}
        PROVE  caller'[d].id \in pending' \/ chan'[caller'[d].id] # "none"
    <3>1. CASE d = c
      BY <1>1, <1>1a, <2>1, <3>1
    <3>2. CASE d # c
      <4>1. caller'[d] = caller[d] /\ (caller[d].id \in pending \/ chan[caller[d].id] # "none")
        BY <1>0, <1>1, <2>1, <3>2 DEF WaitInv
      <4>2. caller[d].id \in Ids
        BY <1>0, <1>1, <2>1, <4>1, SMTT(20) DEF IdsInv, Active, McpTypeOK, Ids
      <4>3. caller[c].pc = "wait" => caller[d].id # caller[c].id
        BY <1>0, <2>1, <3>2, <4>1 DEF IdsInv, Active
      <4>4. chan'[caller[d].id] = chan[caller[d].id]
        BY <1>0, <4>2, <4>3 DEF McpTypeOK
      <4> QED BY <1>1, <4>1, <4>4
    <3> QED BY <3>1, <3>2
  <2>2. reading' = "no" => pending' = {}
    BY <1>0, <1>1 DEF WaitInv, Ended
  <2> QED BY <2>1, <2>2 DEF WaitInv
<1>12. PagesInv' /\ EveryPage'
  <2>1. PagesInv'
    BY <1>0, <1>1, <1>1a, <1>2 DEF PagesInv
  <2>2. EveryPage'
    BY <1>0, <1>1, <1>1a, SMTT(20) DEF EveryPage
  <2> QED BY <2>1, <2>2
<1> QED BY <1>4, <1>6, <1>7, <1>9, <1>10, <1>11, <1>12 DEF McpInv

\* The part of the invariant that is about the calls.
CallsInv == CountInv /\ IdsInv /\ PendingWaits /\ WaitInv /\ PagesInv /\ EveryPage

\* A step that leaves the calls and their channels alone.
LEMMA McpQuietStep ==
    ASSUME McpInv, UNCHANGED <<caller, nextId, pending, chan, reading>>
    PROVE  CallsInv'
<1>1. Left' = Left
  BY DEF Left
<1> QED BY <1>1 DEF McpInv, CallsInv, CountInv, IdsInv, PendingWaits, WaitInv, PagesInv, EveryPage, Active

\* A call that goes on waits, or takes its id along as it leaves.
LEMMA LeaveStep ==
    ASSUME McpInv, NEW c \in Caller, Active(c), UNCHANGED <<nextId, reading>>,
           \A d \in Caller : d # c => caller'[d] = caller[d],
           caller'[c].pc \in {"notify", "ok", "failed", "cancelled"},
           caller'[c].pc = "notify" => caller'[c].id = caller[c].id,
           caller'[c].pc = "ok" /\ caller'[c].page # 0 => caller'[c].pages = FirstPages(Pages),
           pending' = pending \ {caller[c].id},
           \A i \in Ids : i # caller[c].id => chan'[i] = chan[i],
           \A i \in Ids : chan'[i] # "none" => chan[i] # "none"
    PROVE  CallsInv'
<1>0. McpTypeOK /\ CountInv /\ IdsInv /\ PendingWaits /\ WaitInv /\ PagesInv /\ EveryPage /\ MaxIds \in Nat
  BY TurnsCount DEF McpInv
<1>1. /\ \A d \in Caller : caller[d].id \in Int
      /\ \A d \in Caller : d # c => (Active(d)' <=> Active(d)) /\ caller'[d].id = caller[d].id
      /\ Active(c)' => caller'[c].id = caller[c].id
  BY <1>0 DEF McpTypeOK, Active
<1>2. CountInv'
  <2>1. Left' \subseteq Left
    <3>1. ASSUME NEW t \in Left' PROVE t \in Left
      <4>1. t \in Turns /\ t[1] \in Caller
        BY McpAssumption DEF Left, Turns
      <4>2. t[1] # c
        BY <3>1, <4>1 DEF Left
      <4> QED BY <3>1, <4>1, <4>2 DEF Left
    <3> QED BY <3>1
  <2> QED BY <1>0, <2>1, NoTurnTaken
<1>3. IdsInv'
  <2>1. \A d \in Caller : Active(d)' => 1 <= caller'[d].id /\ caller'[d].id <= nextId'
    BY <1>0, <1>1 DEF IdsInv
  <2>2. \A d, e \in Caller : d # e /\ Active(d)' /\ Active(e)' => caller'[d].id # caller'[e].id
    BY <1>0, <1>1 DEF IdsInv
  <2>3. (\A i \in pending' : i <= nextId') /\ \A i \in Ids : i > nextId' => chan'[i] = "none"
    BY <1>0 DEF IdsInv, McpTypeOK
  <2> QED BY <2>1, <2>2, <2>3 DEF IdsInv
<1>4. PendingWaits'
  <2> SUFFICES ASSUME NEW i \in pending'
               PROVE  /\ chan'[i] = "none"
                      /\ \E d \in Caller : caller'[d].id = i /\ caller'[d].pc \in {"send", "wait"}
    BY DEF PendingWaits
  <2>1. i \in pending /\ i # caller[c].id /\ i \in Ids
    BY <1>0 DEF McpTypeOK
  <2>2. PICK d \in Caller : caller[d].id = i /\ caller[d].pc \in {"send", "wait"}
    BY <1>0, <2>1 DEF PendingWaits
  <2> QED BY <1>0, <2>1, <2>2 DEF PendingWaits
<1>5. WaitInv'
  <2>1. ASSUME NEW d \in Caller, caller'[d].pc \in {"send", "wait"}
        PROVE  caller'[d].id \in pending' \/ chan'[caller'[d].id] # "none"
    <3>1. d # c /\ caller'[d] = caller[d] /\ (caller[d].id \in pending \/ chan[caller[d].id] # "none")
      BY <1>0, <2>1 DEF WaitInv
    <3>2. caller[d].id \in Ids /\ caller[d].id # caller[c].id
      BY <1>0, <2>1, <3>1 DEF IdsInv, Active, McpTypeOK, Ids
    <3> QED BY <3>1, <3>2
  <2> QED BY <1>0, <2>1 DEF WaitInv
<1>6. PagesInv' /\ EveryPage'
  <2>1. PagesInv'
    BY <1>0 DEF PagesInv
  <2>2. EveryPage'
    BY <1>0 DEF EveryPage, FirstPages
  <2> QED BY <2>1, <2>2
<1> QED BY <1>2, <1>3, <1>4, <1>5, <1>6 DEF CallsInv

\* The types after a step of a caller that does not register.
LEMMA CallerTypes ==
    ASSUME McpInv, NEW c \in Caller, NEW v \in CallerRecord, caller' = [caller EXCEPT ![c] = v],
           nextId' = nextId, pending' \subseteq pending, chan' \in [Ids -> {"none", "answer", "ended"}],
           UNCHANGED <<replies, reading, toServer, fromServer, inOpen, peerVars>>
    PROVE  McpTypeOK' /\ WireInv'
BY DEF McpInv, McpTypeOK, WireInv, CallerRecord, peerVars

\* The message is written whole behind what the pipe holds.
LEMMA SendTypes ==
    ASSUME McpInv, NEW m \in ToServer, send(m) \/ toServer' = toServer
    PROVE  toServer' \in Seq(ToServer) /\ Len(toServer') <= PipeCap
<1>1. toServer \in Seq(ToServer) /\ Len(toServer) <= PipeCap /\ PipeCap \in Nat
  BY McpAssumption DEF McpInv, McpTypeOK, WireInv
<1>2. CASE send(m)
  <2>1. toServer' = Append(toServer, m) /\ Len(toServer) < PipeCap
    BY <1>2 DEF send, Room
  <2>2. toServer' \in Seq(ToServer) /\ Len(toServer') = Len(toServer) + 1 /\ Len(toServer) \in Nat
    BY <1>1, <2>1, AppendProperties, LenProperties
  <2> QED BY <1>1, <2>1, <2>2
<1> QED BY <1>1, <1>2

\* The response to a call: it fails, returns, or asks for the next page.
LEMMA ResponseStep ==
    ASSUME McpInv, NEW c \in Caller, Response(c)
    PROVE  McpInv'
<1> DEFINE i == caller[c].id
<1>0. /\ McpTypeOK /\ IdsInv /\ PendingWaits /\ PagesInv /\ Pages \in Nat \ {0} /\ MaxIds \in Nat
      /\ caller[c].pc = "wait" /\ chan[i] # "none" /\ chan' = [chan EXCEPT ![i] = "none"]
      /\ UNCHANGED <<replies, reading, toServer, fromServer, inOpen, peerVars>>
  BY McpAssumption, TurnsCount DEF McpInv, Response
<1>1. Active(c) /\ i \in Ids /\ i \notin pending /\ pending = pending \ {i}
  BY <1>0 DEF Active, IdsInv, PendingWaits, McpTypeOK, Ids
<1>2. /\ chan' \in [Ids -> {"none", "answer", "ended"}]
      /\ \A k \in Ids : k # i => chan'[k] = chan[k]
      /\ \A k \in Ids : chan'[k] # "none" => chan[k] # "none"
  BY <1>0, <1>1 DEF McpTypeOK
<1>3. /\ caller \in [Caller -> CallerRecord] /\ caller[c] \in CallerRecord
      /\ caller[c].page \in 0..Pages /\ caller[c].pages \in Seq(0..Pages)
  BY <1>0 DEF McpTypeOK, CallerRecord
<1>4. CASE caller' = [caller EXCEPT ![c] = Returned("failed")] /\ UNCHANGED <<nextId, pending>>
  <2>1. Returned("failed") \in CallerRecord /\ caller'[c].pc = "failed"
    BY <1>0, <1>3, <1>4, ReturnedRecord, ReturnedFields
  <2>2. McpTypeOK' /\ WireInv'
    BY <1>0, <1>2, <1>4, <2>1, CallerTypes
  <2>3. CallsInv'
    BY <1>0, <1>1, <1>2, <1>3, <1>4, <2>1, LeaveStep
  <2> QED BY <2>2, <2>3 DEF McpInv, CallsInv
<1>5. CASE /\ ~More(c) /\ UNCHANGED <<nextId, pending>>
           /\ caller' = [caller EXCEPT ![c].pc = "ok", ![c].pages = Append(@, caller[c].page)]
  <2> DEFINE v == [caller[c] EXCEPT !.pc = "ok", !.pages = Append(caller[c].pages, caller[c].page)]
  <2>1. caller' = [caller EXCEPT ![c] = v]
    BY <1>3, <1>5
  <2>2. Append(caller[c].pages, caller[c].page) \in Seq(0..Pages)
    BY <1>3, AppendProperties
  <2>3. v \in CallerRecord /\ v.pc = "ok" /\ v.page = caller[c].page
        /\ v.pages = Append(caller[c].pages, caller[c].page)
    BY <1>3, <2>2 DEF CallerRecord
  <2>4. v.page # 0 => v.pages = FirstPages(Pages)
    <3>1. SUFFICES ASSUME caller[c].page # 0 PROVE Append(caller[c].pages, caller[c].page) = FirstPages(Pages)
      BY <2>3
    <3>2. caller[c].page = Pages
      BY <1>0, <1>3, <1>5, <3>1 DEF More
    <3>3. caller[c].pages = FirstPages(Pages - 1)
      BY <1>0, <3>1, <3>2 DEF PagesInv
    <3> QED BY <1>0, <3>2, <3>3, NextPage
  <2> HIDE DEF v
  <2>5. caller'[c] = v /\ \A d \in Caller : d # c => caller'[d] = caller[d]
    BY <1>3, <2>1
  <2>6. McpTypeOK' /\ WireInv'
    <3>1. v \in CallerRecord /\ nextId' = nextId /\ pending' \subseteq pending
      BY <1>5, <2>3
    <3>2. chan' \in [Ids -> {"none", "answer", "ended"}]
      BY <1>2
    <3>3. UNCHANGED <<replies, reading, toServer, fromServer, inOpen, peerVars>>
      BY <1>0
    <3> QED BY <2>1, <3>1, <3>2, <3>3, CallerTypes
  <2>7. CallsInv'
    BY <1>0, <1>1, <1>2, <1>5, <2>3, <2>4, <2>5, LeaveStep
  <2> QED BY <2>6, <2>7 DEF McpInv, CallsInv
<1>6. CASE More(c) /\ Register(c, caller[c].page + 1, Append(caller[c].pages, caller[c].page))
  <2>1. caller[c].page + 1 \in 0..Pages
    BY <1>0, <1>3, <1>6 DEF More
  <2>2. Append(caller[c].pages, caller[c].page) \in Seq(0..Pages)
    BY <1>3, AppendProperties
  <2> QED BY <1>0, <1>6, <2>1, <2>2, RegisterStep
<1> QED BY <1>4, <1>5, <1>6 DEF Response

\* A new call takes an id, or fails after the end.
LEMMA CallStep ==
    ASSUME McpInv, NEW c \in Caller, Call(c)
    PROVE  McpInv'
<1> DEFINE page == IF c \in Lists THEN 1 ELSE 0
<1>1. page \in 0..Pages /\ <<>> \in Seq(0..Pages)
  BY McpAssumption
<1>2. /\ caller[c].pc = "idle" /\ Register(c, page, <<>>) /\ chan' = chan
      /\ UNCHANGED <<replies, reading, toServer, fromServer, inOpen, peerVars>>
  BY DEF Call
<1> QED BY <1>1, <1>2, RegisterStep

\* The request is in the pipe: the call waits.
LEMMA CallSendStep ==
    ASSUME McpInv, NEW c \in Caller, CallSend(c)
    PROVE  McpInv'
<1>0. /\ McpTypeOK /\ WireInv /\ CountInv /\ IdsInv /\ PendingWaits /\ WaitInv /\ PagesInv /\ EveryPage
      /\ caller[c].pc = "send" /\ caller' = [caller EXCEPT ![c].pc = "wait"]
      /\ UNCHANGED <<nextId, pending, chan, replies, reading, fromServer, inOpen, peerVars>>
      /\ MaxIds \in Nat
  BY TurnsCount DEF McpInv, CallSend
<1>1. /\ caller'[c].pc = "wait" /\ caller'[c].id = caller[c].id /\ caller'[c].page = caller[c].page
      /\ caller'[c].pages = caller[c].pages /\ \A d \in Caller : d # c => caller'[d] = caller[d]
  BY <1>0 DEF McpTypeOK
<1>2. caller[c].id \in Ids
  BY <1>0 DEF IdsInv, Active, McpTypeOK, Ids
<1>3. toServer' \in Seq(ToServer) /\ Len(toServer') <= PipeCap
  <2>1. <<"request", caller[c].id>> \in ToServer
    BY <1>2 DEF ToServer
  <2> QED BY <2>1, SendTypes DEF CallSend
<1>4. McpTypeOK' /\ WireInv'
  <2>1. caller' \in [Caller -> CallerRecord]
    BY <1>0 DEF McpTypeOK, CallerRecord
  <2> QED BY <1>0, <1>3, <2>1 DEF McpTypeOK, WireInv, CallerRecord, peerVars
<1>5. CountInv'
  <2>1. Left' \subseteq Left
    <3>1. ASSUME NEW t \in Left' PROVE t \in Left
      <4>1. t \in Turns /\ t[1] \in Caller
        BY McpAssumption DEF Left, Turns
      <4> QED BY <1>0, <1>1, <3>1, <4>1 DEF Left
    <3> QED BY <3>1
  <2> QED BY <1>0, <2>1, NoTurnTaken
<1>6. \A d \in Caller : caller'[d].id = caller[d].id
  BY <1>1
<1>6a. \A d \in Caller : caller'[d].pc \in {"send", "wait"} <=> caller[d].pc \in {"send", "wait"}
  BY <1>0, <1>1
<1>6b. \A d \in Caller : caller'[d].pc \in {"send", "wait", "notify"} <=> caller[d].pc \in {"send", "wait", "notify"}
  BY <1>0, <1>1
<1>7. IdsInv' /\ PendingWaits' /\ WaitInv'
  <2>1. IdsInv'
    BY <1>0, <1>6, <1>6b DEF IdsInv, Active
  <2>2. PendingWaits'
    BY <1>0, <1>6, <1>6a DEF PendingWaits
  <2>3. WaitInv'
    BY <1>0, <1>6, <1>6a DEF WaitInv
  <2> QED BY <2>1, <2>2, <2>3
<1>8. PagesInv' /\ EveryPage'
  <2>1. PagesInv'
    BY <1>0, <1>1 DEF PagesInv
  <2>2. EveryPage'
    BY <1>0, <1>1 DEF EveryPage
  <2> QED BY <2>1, <2>2
<1> QED BY <1>4, <1>5, <1>7, <1>8 DEF McpInv

\* A call that cannot be sent, or whose context ends, forgets its id.
LEMMA ForgetStep ==
    ASSUME McpInv, NEW c \in Caller, SendFails(c) \/ GiveUpCall(c)
    PROVE  McpInv'
<1>0. /\ McpTypeOK /\ caller \in [Caller -> CallerRecord] /\ caller[c] \in CallerRecord
      /\ caller[c].pc \in {"send", "wait"} /\ Active(c) /\ pending' = pending \ {caller[c].id}
      /\ UNCHANGED <<nextId, chan, replies, reading, toServer, fromServer, inOpen, peerVars>>
  BY DEF McpInv, McpTypeOK, CallerRecord, SendFails, GiveUpCall, Active, forget
<1>1. PICK v \in CallerRecord : /\ caller' = [caller EXCEPT ![c] = v]
                                /\ v.pc \in {"notify", "failed"}
                                /\ v.pc = "notify" => v.id = caller[c].id
  <2>1. CASE SendFails(c)
    <3>1. Returned("failed") \in CallerRecord /\ Returned("failed").pc = "failed"
      BY ReturnedRecord, ReturnedFields
    <3> QED BY <2>1, <3>1 DEF SendFails
  <2>2. CASE GiveUpCall(c)
    <3> DEFINE u == [caller[c] EXCEPT !.pc = "notify"]
    <3>1. u \in CallerRecord /\ u.pc = "notify" /\ u.id = caller[c].id
      BY <1>0 DEF CallerRecord
    <3>2. caller' = [caller EXCEPT ![c] = u]
      BY <1>0, <2>2 DEF GiveUpCall
    <3> QED BY <3>1, <3>2
  <2> QED BY <2>1, <2>2
<1>2. McpTypeOK' /\ WireInv'
  <2>1. chan' \in [Ids -> {"none", "answer", "ended"}]
    BY <1>0 DEF McpTypeOK
  <2> QED BY <1>0, <1>1, <2>1, CallerTypes
<1>3. CallsInv'
  <2>1. caller'[c] = v /\ \A d \in Caller : d # c => caller'[d] = caller[d]
    BY <1>0, <1>1
  <2> QED BY <1>0, <1>1, <2>1, LeaveStep
<1> QED BY <1>2, <1>3 DEF McpInv, CallsInv

\* A call that was given up has told the server.
LEMMA NotifyStep ==
    ASSUME McpInv, NEW c \in Caller, Notify(c)
    PROVE  McpInv'
<1>0. /\ McpTypeOK /\ caller \in [Caller -> CallerRecord] /\ MaxIds \in Nat
      /\ caller[c].pc = "notify" /\ Active(c) /\ caller' = [caller EXCEPT ![c] = Returned("cancelled")]
      /\ UNCHANGED <<nextId, pending, chan, replies, reading, fromServer, inOpen, peerVars>>
  BY TurnsCount DEF McpInv, McpTypeOK, CallerRecord, Notify, Active
<1>1. Returned("cancelled") \in CallerRecord /\ Returned("cancelled").pc = "cancelled"
  BY ReturnedRecord, ReturnedFields
<1>2. toServer' \in Seq(ToServer) /\ Len(toServer') <= PipeCap
  <2>1. <<"note", caller[c].id>> \in ToServer
    BY <1>0 DEF ToServer, CallerRecord
  <2> QED BY <2>1, SendTypes DEF Notify
<1>3. McpTypeOK' /\ WireInv'
  <2>1. caller' \in [Caller -> CallerRecord]
    BY <1>0, <1>1
  <2> QED BY <1>0, <1>2, <2>1 DEF McpInv, McpTypeOK, WireInv, CallerRecord, peerVars
<1>4. pending' = pending \ {caller[c].id}
  <2>1. caller[c].id \notin pending
    BY <1>0 DEF McpInv, PendingWaits, IdsInv, Active
  <2> QED BY <1>0, <2>1
<1>5. CallsInv'
  <2>1. caller'[c].pc = "cancelled" /\ \A d \in Caller : d # c => caller'[d] = caller[d]
    BY <1>0, <1>1
  <2> QED BY <1>0, <1>4, <2>1, LeaveStep
<1> QED BY <1>3, <1>5 DEF McpInv, CallsInv

\* The reader handles a message, or reports the end to every pending call.
LEMMA ReaderKeeps ==
    ASSUME McpInv, ReaderStep
    PROVE  McpInv'
<1>0. /\ McpTypeOK /\ WireInv /\ CountInv /\ IdsInv /\ PendingWaits /\ WaitInv /\ PagesInv /\ EveryPage
      /\ UNCHANGED <<caller, nextId, toServer, inOpen, peerVars>> /\ MaxIds \in Nat /\ reading = "yes"
  BY TurnsCount DEF McpInv, ReaderStep, Handle, ReadEnds, Answer
<1>1. Left' = Left /\ PagesInv' /\ EveryPage' /\ CountInv'
  BY <1>0 DEF Left, CountInv, PagesInv, EveryPage
<1>2. CASE ReadEnds
  <2>1. /\ reading' = "no" /\ pending' = {} /\ UNCHANGED <<replies, fromServer>>
        /\ chan' = [i \in Ids |-> IF i \in pending THEN "ended" ELSE chan[i]]
    BY <1>2 DEF ReadEnds
  <2>2. McpTypeOK' /\ WireInv'
    BY <1>0, <2>1 DEF McpTypeOK, WireInv, peerVars
  <2>3. IdsInv'
    <3>1. \A i \in Ids : i > nextId => i \notin pending /\ chan[i] = "none"
      BY <1>0 DEF IdsInv, McpTypeOK, Ids
    <3>2. \A i \in Ids : i > nextId' => chan'[i] = "none"
      BY <1>0, <2>1, <3>1
    <3> QED BY <1>0, <2>1, <3>2 DEF IdsInv, Active
  <2>4. PendingWaits'
    BY <2>1 DEF PendingWaits
  <2>5. WaitInv'
    <3>1. ASSUME NEW c \in Caller, caller[c].pc \in {"send", "wait"} PROVE chan'[caller[c].id] # "none"
      <4>1. caller[c].id \in Ids /\ (caller[c].id \in pending \/ chan[caller[c].id] # "none")
        BY <1>0, <3>1 DEF WaitInv, IdsInv, Active, McpTypeOK, Ids
      <4> QED BY <2>1, <4>1
    <3> QED BY <1>0, <2>1, <3>1 DEF WaitInv
  <2> QED BY <1>1, <2>2, <2>3, <2>4, <2>5 DEF McpInv
<1>3. CASE Handle
  <2>1. /\ reading' = reading /\ fromServer # <<>> /\ fromServer' = Tail(fromServer)
    BY <1>3 DEF Handle
  <2>2. /\ Head(fromServer) \in FromServer /\ fromServer' \in Seq(FromServer)
        /\ Len(fromServer') <= PipeCap
    BY <1>0, <2>1, McpAssumption, HeadTailProperties DEF WireInv, McpTypeOK
  <2>3. replies' \in Nat
    BY <1>0, <1>3 DEF Handle, Answer, McpTypeOK
  <2> DEFINE k == Head(fromServer)[2]
  <2>4. CASE UNCHANGED <<pending, chan>>
    <3>1. CallsInv'
      BY <1>0, <2>1, <2>4, McpQuietStep
    <3>2. McpTypeOK' /\ WireInv'
      BY <1>0, <2>1, <2>2, <2>3, <2>4 DEF McpTypeOK, WireInv, peerVars
    <3> QED BY <3>1, <3>2 DEF McpInv, CallsInv
  <2>5. CASE k \in pending /\ chan[k] = "none" /\ pending' = pending \ {k} /\ chan' = [chan EXCEPT ![k] = "answer"]
    <3>1. McpTypeOK' /\ WireInv'
      BY <1>0, <2>1, <2>2, <2>3, <2>5 DEF McpTypeOK, WireInv, peerVars
    <3>2. k \in Ids /\ k <= nextId
      BY <1>0, <2>5 DEF McpTypeOK, IdsInv
    <3>3. IdsInv'
      BY <1>0, <2>5, <3>2 DEF IdsInv, Active, McpTypeOK, Ids
    <3>4. PendingWaits'
      BY <1>0, <2>5, <3>2 DEF PendingWaits, McpTypeOK
    <3>5. WaitInv'
      <4>1. \A c \in Caller : caller[c].pc \in {"send", "wait"} => caller[c].id \in Ids
        BY <1>0 DEF IdsInv, Active, McpTypeOK, Ids
      <4> QED BY <1>0, <2>1, <2>5, <3>2, <4>1 DEF WaitInv, McpTypeOK
    <3> QED BY <1>1, <3>1, <3>3, <3>4, <3>5 DEF McpInv
  <2> QED BY <1>3, <2>4, <2>5 DEF Handle, Delivered
<1> QED BY <1>2, <1>3 DEF ReaderStep

\* The server, the answers to its requests, and the ends of the pipes.
LEMMA PeerKeeps ==
    ASSUME McpInv, Reply \/ McpClose \/ ServerStep \/ ServerAsk \/ ServerEnds \/ PipeBreaks
    PROVE  McpInv'
<1>0. /\ McpTypeOK /\ WireInv /\ MaxIds \in Nat /\ MaxPings \in Nat /\ PipeCap \in Nat
      /\ UNCHANGED <<caller, nextId, pending, chan, reading>>
  BY TurnsCount, McpAssumption DEF McpInv, Reply, McpClose, ServerStep, ServerRead, ServerTurn, ServerWrite, ServerAsk,
     ServerEnds, PipeBreaks, clientVars
<1>1. CallsInv'
  BY <1>0, McpQuietStep
<1>2. McpTypeOK' /\ WireInv'
  <2>1. CASE Reply
    <3>1. <<"reply", 0>> \in ToServer
      BY <1>0 DEF ToServer
    <3>2. toServer' \in Seq(ToServer) /\ Len(toServer') <= PipeCap
      BY <2>1, <3>1, SendTypes DEF Reply
    <3> QED BY <1>0, <2>1, <3>2, SMTT(20) DEF Reply, McpTypeOK, WireInv, peerVars
  <2>2. CASE McpClose \/ ServerEnds \/ PipeBreaks
    BY <1>0, <2>2 DEF McpClose, ServerEnds, PipeBreaks, McpTypeOK, WireInv, peerVars, clientVars
  <2>3. CASE ServerRead
    <3>1. Head(toServer) \in ToServer /\ Tail(toServer) \in Seq(ToServer) /\ Len(Tail(toServer)) <= PipeCap
      BY <1>0, <2>3, HeadTailProperties DEF ServerRead, WireInv, McpTypeOK
    <3>2. owed' \subseteq Ids
      BY <1>0, <2>3, <3>1 DEF ServerRead, ToServer, McpTypeOK
    <3> QED BY <1>0, <2>3, <3>1, <3>2 DEF ServerRead, McpTypeOK, WireInv, clientVars
  <2>4. CASE ServerTurn \/ ServerAsk
    <3>1. /\ owed' \subseteq owed /\ pings' \in 0..MaxPings
          /\ server' \in {"read", "ping", "response"} \X (0..MaxIds)
      <4>1. \A i \in owed : i \in 0..MaxIds
        BY <1>0 DEF McpTypeOK, Ids
      <4>2. CASE ServerTurn
        BY <1>0, <4>1, <4>2 DEF ServerTurn, McpTypeOK
      <4>3. CASE ServerAsk
        BY <1>0, <4>3 DEF ServerAsk, McpTypeOK
      <4> QED BY <2>4, <4>2, <4>3
    <3> QED BY <1>0, <2>4, <3>1 DEF ServerTurn, ServerAsk, McpTypeOK, WireInv, clientVars
  <2>5. CASE ServerWrite
    <3>1. server \in FromServer
      BY <1>0, <2>5 DEF ServerWrite, WireInv, FromServer
    <3>2. fromServer' = Append(fromServer, server) /\ Len(fromServer) < PipeCap
      BY <2>5 DEF ServerWrite
    <3>3. fromServer' \in Seq(FromServer) /\ Len(fromServer') = Len(fromServer) + 1 /\ Len(fromServer) \in Nat
      BY <1>0, <3>1, <3>2, AppendProperties, LenProperties DEF WireInv
    <3>4. Len(fromServer') <= PipeCap
      BY <1>0, <3>2, <3>3
    <3>5. server' \in {"read", "ping", "response"} \X (0..MaxIds) /\ pings' \in 0..MaxPings
      BY <1>0, <2>5 DEF ServerWrite, WireInv, McpTypeOK
    <3> QED BY <1>0, <2>5, <3>3, <3>4, <3>5 DEF ServerWrite, McpTypeOK, WireInv, clientVars
  <2> QED BY <2>1, <2>2, <2>3, <2>4, <2>5 DEF ServerStep
<1> QED BY <1>1, <1>2 DEF McpInv, CallsInv

\* Every step keeps the inductive invariant.
LEMMA McpNextInv == McpInv /\ [McpNext]_mcpVars => McpInv'
<1> SUFFICES ASSUME McpInv, [McpNext]_mcpVars PROVE McpInv'
  OBVIOUS
<1>1. CASE UNCHANGED mcpVars
  <2>1. CallsInv'
    BY <1>1, McpQuietStep DEF mcpVars
  <2>2. McpTypeOK' /\ WireInv'
    BY <1>1 DEF McpInv, mcpVars, McpTypeOK, WireInv
  <2> QED BY <2>1, <2>2 DEF McpInv, CallsInv
<1> QED BY <1>1, ResponseStep, CallStep, CallSendStep, ForgetStep, NotifyStep, ReaderKeeps, PeerKeeps
        DEF McpNext, CallerStep

\* mcp.Client, for any number of calls and pages and whatever the server
\* answers late, twice, out of order or never: a pending channel is empty
\* and its call waits for it, the end of the connection leaves no call
\* waiting, and Tools returns every page once and in order.
THEOREM McpIsSafe == McpSpec => []McpSafe
<1>1. McpInv => McpSafe
  BY DEF McpInv, McpSafe, WaitInv, NobodyWaitsForEnd
<1> QED BY <1>1, McpInitInv, McpNextInv, PTL DEF McpSpec

-----------------------------------------------------------------------------
(* The server.                                                             *)

\* The requests that have a token, and those that have a slot.
Admitted == {"slot", "read", "lease", "scan", "serve", "release", "done", "free"}
Slotted == {"read", "lease", "scan", "serve", "release", "done"}

\* What a request has written where it is: nothing before it is served,
\* pieces of a stream while it is.
Written(r) ==
    /\ request[r].pc \in {"new", "slot", "read", "lease", "scan", "over"} => response[r] = <<>>
    /\ request[r].pc = "serve" =>
          /\ Len(response[r]) <= MaxPieces
          /\ \A i \in DOMAIN response[r] : response[r][i] = "piece"
          /\ ~Stream(r) => response[r] = <<>>

\* The models a scan has passed without an error do not provide the lane.
Passed(r) ==
    ReqAt(r, "scan") /\ ~request[r].err =>
        \A k \in 1..ScanEnd : k < request[r].at /\ Eligible(k) => ~Models[ModelAt(k)].supports

ServerInv ==
    /\ ServerTypeOK
    /\ Accounts
    /\ OneResponse
    /\ DefaultServes
    /\ \A r \in Request : Written(r)
    /\ \A r \in Request : Passed(r)

-----------------------------------------------------------------------------
\* A request that moves from one place to another changes what is counted
\* of the requests at pcs by at most one.
LEMMA HoldingMoves ==
    ASSUME NEW pcs, NEW r \in Request,
           \A q \in Request \ {r} : request'[q].pc = request[q].pc
    PROVE  /\ Holding(pcs) \in Nat /\ Holding(pcs)' \in Nat
           /\ request[r].pc \in pcs => Holding(pcs) > 0
           /\ (request[r].pc \in pcs <=> request'[r].pc \in pcs) => Holding(pcs)' = Holding(pcs)
           /\ request[r].pc \in pcs /\ request'[r].pc \notin pcs => Holding(pcs)' = Holding(pcs) - 1
           /\ request[r].pc \notin pcs /\ request'[r].pc \in pcs => Holding(pcs)' = Holding(pcs) + 1
<1> DEFINE H == {q \in Request : request[q].pc \in pcs}
           G == {q \in Request : request'[q].pc \in pcs}
<1>1. IsFiniteSet(H) /\ IsFiniteSet(G)
  BY ServerAssumption, FS_Subset, H \subseteq Request, G \subseteq Request
<1>2. Cardinality(H) \in Nat /\ Cardinality(G) \in Nat
  BY <1>1, FS_CardinalityType
<1>3. Holding(pcs) = Cardinality(H) /\ Holding(pcs)' = Cardinality(G)
  BY DEF Holding
<1>4. ASSUME request[r].pc \in pcs PROVE Cardinality(H) > 0
  <2>1. H # {}
    BY <1>4
  <2> QED
    BY <2>1, <1>1, <1>2, FS_EmptySet
<1>5. ASSUME request[r].pc \in pcs <=> request'[r].pc \in pcs PROVE H = G
  BY <1>5
<1>6. ASSUME request[r].pc \in pcs, request'[r].pc \notin pcs PROVE Cardinality(G) = Cardinality(H) - 1
  <2>1. G = H \ {r} /\ r \in H
    BY <1>6
  <2> QED
    BY <2>1, <1>1, FS_RemoveElement
<1>7. ASSUME request[r].pc \notin pcs, request'[r].pc \in pcs PROVE Cardinality(G) = Cardinality(H) + 1
  <2>1. G = H \cup {r} /\ r \notin H
    BY <1>7
  <2> QED
    BY <2>1, <1>1, FS_AddElement
<1> QED
  BY <1>2, <1>3, <1>4, <1>5, <1>6, <1>7

\* A stream that has only pieces has as many as it is long.
LEMMA AllPieces ==
    ASSUME NEW r \in Request, response[r] \in Seq(Writes), \A i \in DOMAIN response[r] : response[r][i] = "piece"
    PROVE  Pieces(r) = Len(response[r])
<1>1. {i \in DOMAIN response[r] : response[r][i] = "piece"} = 1..Len(response[r])
  OBVIOUS
<1>2. Len(response[r]) \in Nat
  OBVIOUS
<1>3. Cardinality(1..Len(response[r])) = Len(response[r])
  BY <1>2, FS_Interval
<1> QED
  BY <1>1, <1>3 DEF Pieces

-----------------------------------------------------------------------------
\* What a step of request r does to the places: it takes or gives back a
\* token or a slot, or stays between the two.
Move(r, from, to, token, slot) ==
    /\ request[r].pc \in from /\ request'[r].pc \in to
    /\ admission' = admission + token /\ slots' = slots + slot

\* Every handler step touches only its own request, and moves tokens and
\* slots as admit and done do.
LEMMA StepMoves ==
    ASSUME ServerInv, NEW r \in Request, HandlerStep(r) \/ CancelWaiting(r)
    PROVE  /\ \A q \in Request \ {r} : request'[q] = request[q] /\ response'[q] = response[q]
           /\ \/ Move(r, {"new"}, {"slot"}, 1, 0) /\ admission < 2 * Workers
              \/ Move(r, {"new"}, {"over"}, 0, 0)
              \/ Move(r, {"slot"}, {"read"}, 0, 0 - 1) /\ slots > 0
              \/ Move(r, {"slot", "free"}, {"over"}, 0 - 1, 0)
              \/ Move(r, {"done"}, {"free"}, 0, 1)
              \/ Move(r, Slotted, Slotted, 0, 0)
<1> USE DEF ServerInv, ServerTypeOK, RequestType, Move, ReqAt, ReqGoto, Say, Slotted
<1>1. CASE Admit(r)
  BY <1>1 DEF Admit
<1>2. CASE TakeSlot(r)
  BY <1>2 DEF TakeSlot
<1>3. CASE CancelWaiting(r)
  BY <1>3 DEF CancelWaiting, LeaveQueue, LeaveSlots
<1>4. CASE ReadBody(r) \/ Refuse(r)
  BY <1>4, SMTT(20) DEF ReadBody, Refuse
<1>5. CASE AcquireNamed(r) \/ AcquireDefault(r)
  BY <1>5, SMTT(20) DEF AcquireNamed, AcquireDefault, Leased, NoLease
<1>6. CASE ScanModel(r)
  <2>1. /\ request[r].pc = "scan"
        /\ (\E i : Leased(r, i)) \/ (\E failed : TryNext(r, failed))
        /\ UNCHANGED <<admission, slots, response>>
    BY <1>6 DEF ScanModel
  <2>2. /\ \A q \in Request \ {r} : request'[q] = request[q]
        /\ request'[r].pc \in {"serve", "scan"}
    BY <2>1, ZenonT(40) DEF Leased, TryNext
  <2> QED
    BY <2>1, <2>2
<1>7. CASE ScanSkips(r) \/ ScanEnds(r)
  BY <1>7, SMTT(20) DEF ScanSkips, ScanEnds, NoLease, TryNext
<1>8. CASE Transcription(r) \/ Classes(r) \/ Completion(r) \/ Wav(r)
  BY <1>8, SMTT(20) DEF Transcription, Classes, Completion, Wav, AnswerWhole
<1>9. CASE RefuseStream(r) \/ StreamPiece(r)
  BY <1>9, SMTT(20) DEF RefuseStream, StreamPiece
<1>10. CASE StreamEnds(r) \/ StreamFails(r)
  BY <1>10, SMTT(20) DEF StreamEnds, StreamFails, TellFailure
<1>11. CASE Release(r) \/ GiveSlot(r)
  BY <1>11 DEF Release, GiveSlot
<1>12. CASE GiveToken(r)
  BY <1>12 DEF GiveToken, Unread
<1> QED
  BY <1>1, <1>2, <1>3, <1>4, <1>5, <1>6, <1>7, <1>8, <1>9, <1>10, <1>11, <1>12 DEF HandlerStep

\* Tokens and slots account for the requests after every step.
LEMMA AccountsStep ==
    ASSUME ServerInv, NEW r \in Request, HandlerStep(r) \/ CancelWaiting(r)
    PROVE  Accounts' /\ admission' \in 0..2 * Workers /\ slots' \in 0..Workers
<1>1. \A q \in Request \ {r} : request'[q].pc = request[q].pc
  BY StepMoves
<1>2. /\ Holding(Admitted) = admission
      /\ slots + Holding(Slotted) = Workers
      /\ Accounts' <=> admission' = Holding(Admitted)' /\ slots' + Holding(Slotted)' = Workers
  BY DEF ServerInv, Accounts, Admitted, Slotted
<1>3. admission \in 0..2 * Workers /\ slots \in 0..Workers /\ Workers \in Nat
  BY ServerAssumption DEF ServerInv, ServerTypeOK
<1>4. /\ Holding(Admitted) \in Nat /\ Holding(Admitted)' \in Nat
      /\ request[r].pc \in Admitted => Holding(Admitted) > 0
      /\ (request[r].pc \in Admitted <=> request'[r].pc \in Admitted) => Holding(Admitted)' = Holding(Admitted)
      /\ request[r].pc \in Admitted /\ request'[r].pc \notin Admitted => Holding(Admitted)' = Holding(Admitted) - 1
      /\ request[r].pc \notin Admitted /\ request'[r].pc \in Admitted => Holding(Admitted)' = Holding(Admitted) + 1
  BY <1>1, HoldingMoves DEF Admitted
<1>5. /\ Holding(Slotted) \in Nat /\ Holding(Slotted)' \in Nat
      /\ request[r].pc \in Slotted => Holding(Slotted) > 0
      /\ (request[r].pc \in Slotted <=> request'[r].pc \in Slotted) => Holding(Slotted)' = Holding(Slotted)
      /\ request[r].pc \in Slotted /\ request'[r].pc \notin Slotted => Holding(Slotted)' = Holding(Slotted) - 1
      /\ request[r].pc \notin Slotted /\ request'[r].pc \in Slotted => Holding(Slotted)' = Holding(Slotted) + 1
  BY <1>1, HoldingMoves DEF Slotted
<1> HIDE DEF Holding
<1>6. CASE Move(r, {"new"}, {"slot"}, 1, 0) /\ admission < 2 * Workers
  BY <1>2, <1>3, <1>4, <1>5, <1>6 DEF Move, Admitted, Slotted
<1>7. CASE Move(r, {"new"}, {"over"}, 0, 0)
  BY <1>2, <1>3, <1>4, <1>5, <1>7 DEF Move, Admitted, Slotted
<1>8. CASE Move(r, {"slot"}, {"read"}, 0, 0 - 1) /\ slots > 0
  BY <1>2, <1>3, <1>4, <1>5, <1>8 DEF Move, Admitted, Slotted
<1>9. CASE Move(r, {"slot", "free"}, {"over"}, 0 - 1, 0)
  BY <1>2, <1>3, <1>4, <1>5, <1>9 DEF Move, Admitted, Slotted
<1>10. CASE Move(r, {"done"}, {"free"}, 0, 1)
  BY <1>2, <1>3, <1>4, <1>5, <1>10 DEF Move, Admitted, Slotted
<1>11. CASE Move(r, Slotted, Slotted, 0, 0)
  <2>1. request[r].pc \in Admitted /\ request'[r].pc \in Admitted
    BY <1>11 DEF Move, Admitted, Slotted
  <2> QED
    BY <1>2, <1>3, <1>4, <1>5, <1>11, <2>1 DEF Move
<1> QED
  BY <1>6, <1>7, <1>8, <1>9, <1>10, <1>11, StepMoves

-----------------------------------------------------------------------------
\* The answer of request r is one body, one error, or pieces and at most a
\* last word.
Answered(r) ==
    /\ Len(response[r]) <= MaxPieces + 1
    /\ \A i \in DOMAIN response[r] :
          response[r][i] # "piece" => i = Len(response[r]) /\ (response[r][i] \in {"error", "body"} => i = 1)

\* What a step of request r owes the invariant besides the accounts.
Owed(r) ==
    /\ request' \in [Request -> RequestType]
    /\ response' \in [Request -> Seq(Writes)]
    /\ defaults' \in 0..Len(Models) /\ DefaultServes'
    /\ Answered(r)' /\ Written(r)' /\ Passed(r)'

\* A request that has written nothing writes one word and leaves.
LEMMA FirstWord ==
    ASSUME ServerInv, NEW r \in Request, response[r] = <<>>, NEW w \in Writes, Say(r, w)
    PROVE  response' \in [Request -> Seq(Writes)] /\ Answered(r)'
<1>1. response' = [response EXCEPT ![r] = <<w>>]
  BY DEF Say
<1>2. response'[r] = <<w>> /\ response' \in [Request -> Seq(Writes)]
  BY <1>1 DEF ServerInv, ServerTypeOK
<1> QED
  BY <1>2, ServerAssumption DEF Answered

\* A stream writes a piece or its last word after its pieces.
LEMMA NextWord ==
    ASSUME ServerInv, NEW r \in Request, ReqAt(r, "serve"), NEW w \in Writes \ {"error", "body"}, Say(r, w)
    PROVE  response' \in [Request -> Seq(Writes)] /\ Answered(r)'
<1>1. /\ response[r] \in Seq(Writes) /\ Len(response[r]) <= MaxPieces
      /\ \A i \in DOMAIN response[r] : response[r][i] = "piece"
  BY DEF ServerInv, ServerTypeOK, Written, ReqAt
<1>2. response'[r] = Append(response[r], w) /\ response' \in [Request -> Seq(Writes)]
  BY <1>1 DEF Say, ServerInv, ServerTypeOK
<1> QED
  BY <1>1, <1>2, ServerAssumption DEF Answered

\* The models and the positions of a scan are numbered.
LEMMA Lengths ==
    /\ Len(Models) \in Nat /\ ScanEnd \in Nat /\ ScanEnd = 2 * Len(Models)
    /\ DOMAIN Models = 1..Len(Models)
    /\ \A k \in 1..ScanEnd : ModelAt(k) \in DOMAIN Models
    /\ \A i \in DOMAIN Models : Models[i].supports \in BOOLEAN /\ Models[i].declares \in {"lane", "other", "nothing"}
<1>0. Models \in Seq([declares : {"lane", "other", "nothing"}, supports : BOOLEAN])
  BY ServerAssumption
<1>1. Len(Models) \in Nat /\ DOMAIN Models = 1..Len(Models)
  BY <1>0, LenProperties
<1>2. ScanEnd \in Nat /\ ScanEnd = 2 * Len(Models)
  BY <1>1 DEF ScanEnd
<1>3. \A k \in 1..ScanEnd : ModelAt(k) \in DOMAIN Models
  BY <1>1, <1>2 DEF ModelAt
<1>4. \A i \in DOMAIN Models : Models[i] \in [declares : {"lane", "other", "nothing"}, supports : BOOLEAN]
  <2>1. Models \in [1..Len(Models) -> [declares : {"lane", "other", "nothing"}, supports : BOOLEAN]]
    BY <1>0, LenProperties
  <2> QED
    BY <2>1, <1>1
<1> QED
  BY <1>1, <1>2, <1>3, <1>4

\* Where a request may be.
Places == {"new", "slot", "read", "lease", "scan", "serve", "release", "done", "free", "over"}

\* A request that only moves keeps its type.
LEMMA Goes ==
    ASSUME ServerInv, NEW r \in Request, NEW p \in Places, request' = [request EXCEPT ![r].pc = p]
    PROVE  request' \in [Request -> RequestType] /\ request'[r].pc = p
<1>1. request \in [Request -> RequestType]
  BY DEF ServerInv, ServerTypeOK
<1>2. [request[r] EXCEPT !.pc = p] \in RequestType
  BY <1>1 DEF RequestType, Places
<1>3. request' = [request EXCEPT ![r] = [request[r] EXCEPT !.pc = p]]
  BY <1>1
<1> QED
  BY <1>1, <1>2, <1>3 DEF RequestType

\* A step that keeps what it has written, or sends it, owes no more.
LEMMA ServerQuietStep ==
    ASSUME ServerInv, NEW r \in Request,
           request' \in [Request -> RequestType],
           request'[r].pc \notin {"serve", "scan"},
           defaults' = defaults,
           response' = response \/ response' = [response EXCEPT ![r] = <<>>],
           request'[r].pc \in {"new", "slot", "read", "lease", "over"} => response'[r] = <<>>
    PROVE  Owed(r)
<1>1. defaults' \in 0..Len(Models) /\ DefaultServes'
  BY DEF ServerInv, ServerTypeOK, DefaultServes
<1>2. response' \in [Request -> Seq(Writes)]
  <2>1. response \in [Request -> Seq(Writes)] /\ <<>> \in Seq(Writes)
    BY DEF ServerInv, ServerTypeOK
  <2> QED
    BY <2>1
<1>3. Answered(r)'
  <2>1. response'[r] = response[r] \/ response'[r] = <<>>
    BY DEF ServerInv, ServerTypeOK
  <2> QED
    BY <2>1, ServerAssumption DEF ServerInv, ServerTypeOK, OneResponse, Answered
<1>4. Written(r)' /\ Passed(r)'
  BY DEF Written, Passed, ReqAt
<1> QED
  BY <1>1, <1>2, <1>3, <1>4 DEF Owed

\* A request that is answered with an error before it has written anything.
LEMMA Refused ==
    ASSUME ServerInv, NEW r \in Request, request[r].pc \in {"read", "lease", "scan"},
           NoLease(r), defaults' = defaults
    PROVE  Owed(r)
<1>1. response[r] = <<>>
  BY DEF ServerInv, Written
<1>2. response' \in [Request -> Seq(Writes)] /\ Answered(r)'
  BY <1>1, FirstWord DEF NoLease, Writes
<1>3. request' \in [Request -> RequestType] /\ request'[r].pc = "done"
  BY Goes DEF NoLease, ReqGoto, Places
<1>4. defaults' \in 0..Len(Models) /\ DefaultServes'
  BY DEF ServerInv, ServerTypeOK, DefaultServes
<1> QED
  BY <1>2, <1>3, <1>4 DEF Owed, Written, Passed, ReqAt

\* admit and the deferred calls.
LEMMA AdmitStep ==
    ASSUME ServerInv, NEW r \in Request,
           Admit(r) \/ TakeSlot(r) \/ CancelWaiting(r) \/ Release(r) \/ GiveSlot(r) \/ GiveToken(r)
    PROVE  Owed(r)
<1>1. /\ request' \in [Request -> RequestType]
      /\ request'[r].pc \notin {"new", "lease", "serve", "scan"}
      /\ request'[r].pc \in {"slot", "over", "read"} => response'[r] = <<>>
  <2>1. CASE Admit(r) \/ TakeSlot(r) \/ CancelWaiting(r) \/ GiveSlot(r)
    <3>1. \E p \in Places \ {"new", "lease", "serve", "scan"} :
             /\ request' = [request EXCEPT ![r].pc = p]
             /\ p \in {"slot", "over", "read"} => request[r].pc \in {"new", "slot"}
             /\ response' = response
      BY <2>1 DEF Admit, TakeSlot, CancelWaiting, GiveSlot, ReqAt, ReqGoto, Places
    <3> QED
      BY <3>1, Goes DEF ServerInv, Written
  <2>2. CASE Release(r)
    <3>0. request[r] \in RequestType /\ 0 \in 0..Len(Models)
      BY Lengths DEF ServerInv, ServerTypeOK
    <3>1. [request[r] EXCEPT !.pc = "done", !.lease = 0] \in RequestType
      BY <3>0 DEF RequestType
    <3>2. request' = [request EXCEPT ![r] = [request[r] EXCEPT !.pc = "done", !.lease = 0]]
      BY <2>2 DEF Release, ServerInv, ServerTypeOK
    <3> QED
      BY <3>1, <3>2 DEF ServerInv, ServerTypeOK, RequestType
  <2>3. CASE GiveToken(r)
    <3>1. Unread("over") \in RequestType
      BY ServerAssumption DEF Unread, RequestType, Kinds, Nameless, Unknown, ScanEnd
    <3> QED
      BY <2>3, <3>1 DEF GiveToken, ServerInv, ServerTypeOK, Unread
  <2> QED
    BY <2>1, <2>2, <2>3
<1>2. /\ defaults' = defaults
      /\ response' = response \/ response' = [response EXCEPT ![r] = <<>>]
  BY DEF Admit, TakeSlot, CancelWaiting, GiveSlot, Release, GiveToken
<1> QED
  BY <1>1, <1>2, ServerQuietStep

\* The handlers up to the lease.
LEMMA ReadStep ==
    ASSUME ServerInv, NEW r \in Request, ReadBody(r) \/ Refuse(r)
    PROVE  Owed(r)
<1>1. request[r] \in RequestType /\ request \in [Request -> RequestType]
  BY DEF ServerInv, ServerTypeOK
<1>2. CASE ReadBody(r)
  <2>1. PICK name \in 0..Unknown : request' = [request EXCEPT ![r].pc = "lease", ![r].name = name]
    BY <1>2 DEF ReadBody
  <2>2. [request[r] EXCEPT !.pc = "lease", !.name = name] \in RequestType
    BY <1>1 DEF RequestType
  <2>3. request' = [request EXCEPT ![r] = [request[r] EXCEPT !.pc = "lease", !.name = name]]
    BY <1>1, <2>1
  <2>4. request' \in [Request -> RequestType] /\ request'[r].pc = "lease"
    BY <1>1, <2>2, <2>3 DEF RequestType
  <2>5. response[r] = <<>> /\ response' = response /\ defaults' = defaults
    BY <1>2 DEF ReadBody, ReqAt, ServerInv, Written
  <2> QED
    BY <2>4, <2>5, ServerQuietStep
<1>3. CASE Refuse(r)
  BY <1>3, Refused DEF Refuse, ReqAt, NoLease
<1> QED
  BY <1>2, <1>3

\* A request that is granted the lease of model i.
LEMMA Granted ==
    ASSUME ServerInv, NEW r \in Request, request[r].pc \in {"lease", "scan"},
           NEW i \in DOMAIN Models, Leased(r, i), response' = response,
           defaults' \in 0..Len(Models) /\ DefaultServes'
    PROVE  Owed(r)
<1>1. request[r] \in RequestType /\ request \in [Request -> RequestType]
  BY DEF ServerInv, ServerTypeOK
<1>2. PICK kind \in Kinds : request' = [request EXCEPT ![r].pc = "serve", ![r].lease = i, ![r].kind = kind]
  BY DEF Leased
<1>3. [request[r] EXCEPT !.pc = "serve", !.lease = i, !.kind = kind] \in RequestType
  <2>1. i \in 0..Len(Models)
    BY Lengths
  <2> QED
    BY <1>1, <2>1 DEF RequestType
<1>4. request' = [request EXCEPT ![r] = [request[r] EXCEPT !.pc = "serve", !.lease = i, !.kind = kind]]
  BY <1>1, <1>2
<1>5. request' \in [Request -> RequestType] /\ request'[r].pc = "serve"
  BY <1>1, <1>3, <1>4 DEF RequestType
<1>6. response[r] = <<>>
  BY DEF ServerInv, Written
<1>7. response' \in [Request -> Seq(Writes)] /\ Answered(r)' /\ Written(r)'
  BY <1>5, <1>6, ServerAssumption DEF ServerInv, ServerTypeOK, Answered, Written
<1> QED
  BY <1>5, <1>7 DEF Owed, Passed, ReqAt

\* acquire of a model that is named, or of the default.
LEMMA AcquireStep ==
    ASSUME ServerInv, NEW r \in Request, AcquireNamed(r) \/ AcquireDefault(r)
    PROVE  Owed(r)
<1>0. defaults \in 0..Len(Models) /\ DefaultServes /\ request[r].name \in 0..Unknown
  BY DEF ServerInv, ServerTypeOK, RequestType
<1>1. defaults' = defaults
  BY DEF AcquireNamed, AcquireDefault
<1>2. defaults' \in 0..Len(Models) /\ DefaultServes'
  BY <1>0, <1>1 DEF DefaultServes
<1>3. request[r].pc = "lease"
  BY DEF AcquireNamed, AcquireDefault, ReqAt
<1>4. CASE NoLease(r)
  BY <1>1, <1>3, <1>4, Refused
<1>5. CASE AcquireNamed(r) /\ ~NoLease(r)
  <2>1. request[r].name \in DOMAIN Models
    BY <1>0, <1>5, Lengths DEF AcquireNamed, Nameless, Unknown
  <2>2. Leased(r, request[r].name) /\ response' = response
    BY <1>5 DEF AcquireNamed
  <2> QED
    BY <1>2, <1>3, <2>1, <2>2, Granted
<1>6. CASE AcquireDefault(r) /\ ~NoLease(r) /\ defaults # 0
  <2>1. defaults \in DOMAIN Models
    BY <1>0, <1>6, Lengths
  <2>2. Leased(r, defaults) /\ response' = response
    BY <1>6 DEF AcquireDefault
  <2> QED
    BY <1>2, <1>3, <2>1, <2>2, Granted
<1>7. CASE AcquireDefault(r) /\ defaults = 0
  <2>1. request' = [request EXCEPT ![r].pc = "scan", ![r].at = 1] /\ response' = response
    BY <1>7 DEF AcquireDefault
  <2>2. request[r] \in RequestType /\ request \in [Request -> RequestType] /\ 1 \in 1..ScanEnd + 1
    BY Lengths DEF ServerInv, ServerTypeOK
  <2>3. [request[r] EXCEPT !.pc = "scan", !.at = 1] \in RequestType
    BY <2>2 DEF RequestType
  <2>4. request' = [request EXCEPT ![r] = [request[r] EXCEPT !.pc = "scan", !.at = 1]]
    BY <2>1, <2>2
  <2>5. request' \in [Request -> RequestType] /\ request'[r].pc = "scan" /\ request'[r].at = 1
    BY <2>2, <2>3, <2>4 DEF RequestType
  <2>6. Passed(r)'
    BY <2>5 DEF Passed
  <2>7. response[r] = <<>>
    BY <1>3 DEF ServerInv, Written
  <2> QED
    BY <1>2, <2>1, <2>5, <2>6, <2>7, ServerAssumption DEF Owed, Written, Answered, ServerInv, ServerTypeOK
<1> QED
  BY <1>4, <1>5, <1>6, <1>7

\* A scan that goes on to the next position.
LEMMA ScanGoesOn ==
    ASSUME ServerInv, NEW r \in Request, ReqAt(r, "scan"), request[r].at <= ScanEnd,
           NEW failed \in BOOLEAN, TryNext(r, failed),
           Eligible(request[r].at) /\ ~failed => ~Models[ModelAt(request[r].at)].supports,
           defaults' = defaults, response' = response
    PROVE  Owed(r)
<1> DEFINE v == [request[r] EXCEPT !.at = @ + 1, !.err = @ \/ failed]
<1>1. request[r] \in RequestType /\ request \in [Request -> RequestType]
  BY DEF ServerInv, ServerTypeOK
<1>2. request[r].at \in 1..ScanEnd /\ request[r].at + 1 \in 1..ScanEnd + 1 /\ request[r].err \in BOOLEAN
  BY <1>1, Lengths DEF RequestType
<1>3. (request[r].err \/ failed) \in BOOLEAN
  OBVIOUS
<1>4. v \in RequestType /\ v.pc = "scan" /\ v.at = request[r].at + 1 /\ (v.err <=> request[r].err \/ failed)
  BY <1>1, <1>2, <1>3 DEF RequestType, ReqAt
<1>5. request' = [request EXCEPT ![r] = v]
  BY <1>1 DEF TryNext
<1>6. request' \in [Request -> RequestType] /\ request'[r] = v
  BY <1>1, <1>4, <1>5
<1>7. Passed(r)'
  <2>1. SUFFICES ASSUME ~v.err, NEW k \in 1..ScanEnd, k < v.at, Eligible(k)
                 PROVE  ~Models[ModelAt(k)].supports
    BY <1>6 DEF Passed
  <2>2. ~request[r].err /\ ~failed
    BY <1>4, <2>1
  <2>3. k < request[r].at \/ k = request[r].at
    BY <1>2, <1>4, <2>1, Lengths
  <2>4. CASE k < request[r].at
    BY <2>1, <2>2, <2>4 DEF ServerInv, Passed
  <2>5. CASE k = request[r].at
    BY <2>1, <2>2, <2>5
  <2> QED
    BY <2>3, <2>4, <2>5
<1>8. response[r] = <<>>
  BY DEF ServerInv, Written, ReqAt
<1>9. response' \in [Request -> Seq(Writes)] /\ Answered(r)' /\ Written(r)'
  BY <1>4, <1>6, <1>8, ServerAssumption DEF ServerInv, ServerTypeOK, Answered, Written
<1>10. defaults' \in 0..Len(Models) /\ DefaultServes'
  BY DEF ServerInv, ServerTypeOK, DefaultServes
<1> QED
  BY <1>6, <1>7, <1>9, <1>10 DEF Owed

\* acquire of whichever model provides the lane.
LEMMA ScanStep ==
    ASSUME ServerInv, NEW r \in Request, ScanModel(r) \/ ScanSkips(r) \/ ScanEnds(r)
    PROVE  Owed(r)
<1>1. CASE ScanSkips(r)
  BY <1>1, ScanGoesOn DEF ScanSkips
<1>2. CASE ScanEnds(r)
  BY <1>2, Refused DEF ScanEnds, ReqAt
<1>3. CASE ScanModel(r)
  <2> DEFINE i == ModelAt(request[r].at)
  <2>1. request[r].at \in 1..ScanEnd /\ i \in DOMAIN Models
    <3>1. request[r].at \in 1..ScanEnd + 1
      BY DEF ServerInv, ServerTypeOK, RequestType
    <3> QED
      BY <1>3, <3>1, Lengths DEF ScanModel
  <2>2. ReqAt(r, "scan") /\ request[r].at <= ScanEnd /\ Eligible(request[r].at) /\ response' = response
    BY <1>3 DEF ScanModel
  <2>3. CASE Models[i].supports /\ Leased(r, i) /\ defaults' = Record(i, TRUE)
    <3>1. defaults' \in 0..Len(Models) /\ DefaultServes'
      BY <2>1, <2>3, Lengths DEF Record, DefaultServes
    <3> QED
      BY <2>1, <2>2, <2>3, <3>1, Granted DEF ReqAt
  <2>4. CASE TryNext(r, Models[i].supports \/ Models[i].declares = "lane") /\ defaults' = Record(i, FALSE)
    <3>1. (Models[i].supports \/ Models[i].declares = "lane") \in BOOLEAN
      OBVIOUS
    <3>2. defaults' = defaults
      BY <2>4 DEF Record
    <3> QED
      BY <2>2, <2>4, <3>1, <3>2, ScanGoesOn
  <2> QED
    BY <1>3, <2>3, <2>4 DEF ScanModel
<1> QED
  BY <1>1, <1>2, <1>3

\* The handlers.
LEMMA ServeStep ==
    ASSUME ServerInv, NEW r \in Request,
           \/ Transcription(r) \/ Classes(r) \/ Completion(r) \/ Wav(r)
           \/ RefuseStream(r) \/ StreamPiece(r) \/ StreamEnds(r) \/ StreamFails(r)
    PROVE  Owed(r)
<1>1. defaults' = defaults /\ ReqAt(r, "serve")
  BY DEF Transcription, Classes, Completion, Wav, AnswerWhole, RefuseStream, StreamPiece, StreamEnds, StreamFails
<1>2. defaults' \in 0..Len(Models) /\ DefaultServes'
  BY <1>1 DEF ServerInv, ServerTypeOK, DefaultServes
<1>3. CASE StreamPiece(r)
  <2>1. request' = request
    BY <1>3 DEF StreamPiece
  <2>2. /\ response[r] \in Seq(Writes) /\ Len(response[r]) <= MaxPieces
        /\ \A i \in DOMAIN response[r] : response[r][i] = "piece"
    BY <1>1 DEF ServerInv, ServerTypeOK, Written, ReqAt
  <2>3. Len(response[r]) < MaxPieces
    BY <1>3, <2>2, AllPieces DEF StreamPiece
  <2>4. response' \in [Request -> Seq(Writes)] /\ Answered(r)'
    BY <1>1, <1>3, NextWord DEF StreamPiece, Writes
  <2>5. response'[r] = Append(response[r], "piece")
    BY <1>3 DEF StreamPiece, Say, ServerInv, ServerTypeOK
  <2>6. Stream(r)'
    BY <1>3, <2>1 DEF StreamPiece, Stream
  <2>7. Written(r)'
    BY <1>1, <2>1, <2>2, <2>3, <2>5, <2>6, ServerAssumption DEF Written, ReqAt
  <2> QED
    BY <1>1, <1>2, <2>1, <2>4, <2>7 DEF Owed, Passed, ReqAt, ServerInv, ServerTypeOK
<1>4. CASE ~StreamPiece(r)
  <2>1. ReqGoto(r, "release")
    BY <1>4 DEF Transcription, Classes, Completion, Wav, AnswerWhole, RefuseStream, StreamEnds, StreamFails
  <2>2. request' \in [Request -> RequestType] /\ request'[r].pc = "release"
    BY <2>1, Goes DEF ReqGoto, Places
  <2>3. \/ response[r] = <<>> /\ \E w \in Writes : Say(r, w)
        \/ \E w \in Writes \ {"error", "body"} : Say(r, w)
        \/ response' = response
    BY <1>1, <1>4 DEF Transcription, Classes, Completion, Wav, AnswerWhole, RefuseStream, StreamEnds, StreamFails, TellFailure,
        Writes, ServerInv, Written, Stream, ReqAt
  <2>4. response' \in [Request -> Seq(Writes)] /\ Answered(r)'
    <3>1. CASE response' = response
      BY <3>1 DEF ServerInv, ServerTypeOK, OneResponse, Answered
    <3> QED
      BY <1>1, <2>3, <3>1, FirstWord, NextWord
  <2> QED
    BY <1>2, <2>2, <2>4 DEF Owed, Written, Passed, ReqAt
<1> QED
  BY <1>3, <1>4

-----------------------------------------------------------------------------
\* The server begins with every slot free and no request answered.
LEMMA ServerInitInv == ServerInit => ServerInv
<1> SUFFICES ASSUME ServerInit PROVE ServerInv
  OBVIOUS
<1>1. Unread("new") \in RequestType
  BY Lengths DEF Unread, RequestType, Kinds, Nameless, Unknown
<1>2. \A r \in Request : request[r] = Unread("new") /\ request[r].pc = "new" /\ response[r] = <<>>
  BY DEF ServerInit, Unread
<1>3. ServerTypeOK
  <2>1. response \in [Request -> Seq(Writes)] /\ \A r \in Request : Len(response[r]) = 0
    BY DEF ServerInit
  <2> QED
    BY <1>1, <2>1, ServerAssumption, Lengths DEF ServerInit, ServerTypeOK
<1>4. Accounts
  <2>1. \A pcs : "new" \notin pcs => {r \in Request : request[r].pc \in pcs} = {}
    BY <1>2
  <2>2. \A pcs : "new" \notin pcs => Holding(pcs) = 0
    BY <2>1, FS_EmptySet DEF Holding
  <2> QED
    BY <2>2, ServerAssumption DEF ServerInit, Accounts
<1>5. OneResponse /\ DefaultServes
  BY <1>2 DEF OneResponse, DefaultServes, ServerInit
<1>6. \A r \in Request : Written(r) /\ Passed(r)
  BY <1>2 DEF Written, Passed, ReqAt
<1> QED
  BY <1>3, <1>4, <1>5, <1>6 DEF ServerInv

\* Every step of a handler, and a client that goes while it waits, keeps it.
LEMMA ServerNextInv == ServerInv /\ [ServerNext]_serverVars => ServerInv'
<1> SUFFICES ASSUME ServerInv, [ServerNext]_serverVars PROVE ServerInv'
  OBVIOUS
<1>1. CASE UNCHANGED serverVars
  BY <1>1 DEF serverVars, ServerInv, ServerTypeOK, Accounts, Holding, OneResponse, DefaultServes, Written, Stream, Passed, ReqAt
<1>2. ASSUME NEW r \in Request, HandlerStep(r) \/ CancelWaiting(r) PROVE ServerInv'
  <2>1. Owed(r)
    BY <1>2, AdmitStep, ReadStep, AcquireStep, ScanStep, ServeStep DEF HandlerStep
  <2>2. Accounts' /\ admission' \in 0..2 * Workers /\ slots' \in 0..Workers
    BY <1>2, AccountsStep
  <2>3. \A q \in Request \ {r} : request'[q] = request[q] /\ response'[q] = response[q]
    BY <1>2, StepMoves
  <2>4. \A q \in Request \ {r} : Written(q)' /\ Passed(q)' /\ Answered(q)'
    BY <2>3 DEF ServerInv, ServerTypeOK, OneResponse, Written, Stream, Passed, ReqAt, Answered
  <2>5. \A q \in Request : Written(q)' /\ Passed(q)' /\ Answered(q)'
    BY <2>1, <2>4 DEF Owed
  <2>6. ServerTypeOK'
    BY <2>1, <2>2, <2>5 DEF Owed, ServerTypeOK, Answered
  <2>7. OneResponse'
    BY <2>5 DEF OneResponse, Answered
  <2> QED
    BY <2>1, <2>2, <2>5, <2>6, <2>7 DEF ServerInv, Owed
<1> QED
  BY <1>1, <1>2 DEF ServerNext

\* A scan that met no error has passed every model that could provide the lane.
LEMMA ScanTells == ServerInv => ScanFinds
<1> SUFFICES ASSUME ServerInv, NEW r \in Request, ReqAt(r, "scan"), request[r].at > ScanEnd, ~request[r].err,
                    NEW i \in DOMAIN Models
             PROVE  ~Models[i].supports
  BY DEF ScanFinds
<1>1. \A k \in 1..ScanEnd : Eligible(k) => ~Models[ModelAt(k)].supports
  <2>1. request[r].at \in Nat
    BY Lengths DEF ServerInv, ServerTypeOK, RequestType
  <2> QED
    BY <2>1, Lengths DEF ServerInv, Passed
<1>2. CASE Models[i].declares = "lane"
  <2>1. i \in 1..ScanEnd /\ ModelAt(i) = i /\ Eligible(i)
    BY <1>2, Lengths DEF ModelAt, Eligible
  <2> QED
    BY <1>1, <2>1
<1>3. CASE Models[i].declares = "nothing"
  <2>1. i + Len(Models) \in 1..ScanEnd /\ ModelAt(i + Len(Models)) = i /\ Eligible(i + Len(Models))
    BY <1>3, Lengths DEF ModelAt, Eligible
  <2> QED
    BY <1>1, <2>1
<1>4. CASE Models[i].declares = "other"
  BY <1>4, ServerAssumption
<1> QED
  BY <1>2, <1>3, <1>4, Lengths

\* admit, the handlers, acquire and done together: whatever is cancelled,
\* refused or fails, a request gives back what it took, is answered once, and
\* is told that no model provides its lane only when none does.
THEOREM RequestsServed == ServerSpec => []ServerSafe
<1>1. ServerInv => ServerSafe
  BY ScanTells DEF ServerInv, ServerSafe
<1> QED
  BY <1>1, ServerInitInv, ServerNextInv, PTL DEF ServerSpec
=============================================================================
