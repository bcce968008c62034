------------------------- MODULE UpdatePipeline_proofs -------------------------
(***************************************************************************)
(* What UpdatePipeline guarantees for every number of sources, attempts,   *)
(* replicas, versions, faults and requests, and every kind of concept and  *)
(* deployment.                                                             *)
(***************************************************************************)
EXTENDS UpdatePipeline, FiniteSetTheorems, TLAPS

\* The steps of Next, one per kind of event, for the case analyses below.
LEMMA NextCases ==
    ASSUME Next
    PROVE  \/ \E s \in Source : Publish(s)
           \/ \E m \in Msg : VisibilityTimeout(m)
           \/ \E a \in Attempt, m \in Msg : Receive(a, m)
           \/ \E a \in Attempt : Send(a)
           \/ \E a \in Attempt : GetConcordance(a)
           \/ \E a \in Attempt, s \in Source : GetConcept(a, s)
           \/ \E a \in Attempt : GiveUpReading(a)
           \/ \E a \in Attempt : WriteNeo4j(a)
           \/ \E a \in Attempt : Purge(a)
           \/ \E a \in Attempt : PurgeRelated(a)
           \/ \E a \in Attempt : WriteElastic(a)
           \/ \E a \in Attempt : PublishEvents(a)
           \/ \E a \in Attempt : AddRecordToStream(a)
           \/ \E a \in Attempt : RemoveMessage(a)
           \/ \E a \in Attempt : Return(a)
           \/ \E a \in Attempt : Leak(a)
           \/ \E a \in Attempt : Expire(a)
           \/ \E r \in Replica : Crash(r)
BY DEF Next, Step

\* A call costs at most one of the faults that are left.
LEMMA ReturnsFaults ==
    ASSUME TypeOK, NEW a \in Attempt, NEW o \in Outcome, Returns(a, o)
    PROVE  faults' \in 0..MaxFaults
BY PipelineAssumption DEF TypeOK, Returns, Outcome

\* Every variable keeps its type.
THEOREM TypeCorrect == Spec => []TypeOK
<1>1. Init => TypeOK
  <2>1. Init => overlapped \in BOOLEAN
    BY DEF Init
  <2> QED
    BY <2>1, PipelineAssumption DEF Init, TypeOK, View, V0, Msg, Idle
<1>2. TypeOK /\ [Next]_vars => TypeOK'
  <2> SUFFICES ASSUME TypeOK, [Next]_vars PROVE TypeOK'
    OBVIOUS
  <2> USE DEF TypeOK, View, V0, Idle, Active, After4j, GoTo
  <2>1. ASSUME NEW s \in Source, Publish(s) PROVE TypeOK'
    BY <2>1, PipelineAssumption DEF Publish, stores, Msg
  <2>2. ASSUME NEW m \in Msg, VisibilityTimeout(m) PROVE TypeOK'
    BY <2>2 DEF VisibilityTimeout, stores
  <2>3. ASSUME NEW a \in Attempt, NEW m \in Msg, Receive(a, m) PROVE TypeOK'
    BY <2>3, PipelineAssumption DEF Receive, Received, Start, stores
  <2>4. ASSUME NEW a \in Attempt, Send(a) PROVE TypeOK'
    BY <2>4, PipelineAssumption DEF Send, Start, stores
  <2>5. ASSUME NEW a \in Attempt, GetConcordance(a) PROVE TypeOK'
    BY <2>5, PipelineAssumption
       DEF GetConcordance, AfterConcordance, Returns, stores
  <2>6. ASSUME NEW a \in Attempt, NEW s \in Source, GetConcept(a, s)
        PROVE  TypeOK'
    <3>1. PICK o \in {"ok", "failed"} : GetConcept(a, s)!2!(o)
      BY <2>6 DEF GetConcept
    <3>2. faults' \in 0..MaxFaults
      BY <3>1, ReturnsFaults DEF Outcome
    <3>3. [view[a] EXCEPT ![s] = VersionRead(a, s)] \in View
      BY DEF VersionRead
    <3>4. view' \in [Attempt -> View]
      <4>1. CASE o = "ok"
        <5>1. view' = [view EXCEPT ![a] = [@ EXCEPT ![s] = VersionRead(a, s)]]
          BY <3>1, <4>1
        <5> QED
          BY <5>1, <3>3
      <4>2. CASE o # "ok"
        BY <3>1, <4>2
      <4> QED
        BY <4>1, <4>2
    <3>5. unread' \in [Attempt -> SUBSET Source]
      <4>1. CASE o = "ok"
        <5>1. unread' = [unread EXCEPT ![a] = @ \ {s}]
          BY <3>1, <4>1
        <5> QED
          BY <5>1
      <4>2. CASE o # "ok"
        <5>1. unread' = unread
          BY <3>1, <4>2
        <5> QED
          BY <5>1
      <4> QED
        BY <4>1, <4>2
    <3>6. pc' \in [Attempt -> Idle \cup Active]
      BY <3>1
    <3> QED
      BY <2>6, <3>2, <3>4, <3>5, <3>6 DEF GetConcept, stores
  <2>7. ASSUME NEW a \in Attempt, WriteNeo4j(a) PROVE TypeOK'
    <3>1. PICK o \in Outcome : WriteNeo4j(a)!2!(o)
      BY <2>7 DEF WriteNeo4j
    <3>2. faults' \in 0..MaxFaults
      BY <3>1, ReturnsFaults
    <3>3. neo' \in View /\ neoWritten' \subseteq View
      BY <3>1
    <3>4. cached' \subseteq {"concept", "related"}
      BY <3>1 DEF StaleUrls
    <3>5. pc' \in [Attempt -> Idle \cup Active]
      BY <3>1 DEF AfterNeo4j, Succeed
    <3>6. \A b \in Attempt : pc'[b] = "remove" => msg'[b] # NoMsg
      BY <2>7, <3>1 DEF WriteNeo4j, AfterNeo4j, Succeed
    <3> QED
      BY <2>7, <3>2, <3>3, <3>4, <3>5, <3>6 DEF WriteNeo4j
  <2>8. ASSUME NEW a \in Attempt, Purge(a) PROVE TypeOK'
    BY <2>8, PipelineAssumption
       DEF Purge, SendToPurger, AfterPurge, Returns
  <2>9. ASSUME NEW a \in Attempt, PurgeRelated(a) PROVE TypeOK'
    BY <2>9, PipelineAssumption
       DEF PurgeRelated, SendToPurger, AfterPurge, Returns
  <2>10. ASSUME NEW a \in Attempt, WriteElastic(a) PROVE TypeOK'
    BY <2>10, PipelineAssumption DEF WriteElastic, AfterElastic, Returns
  <2>11. ASSUME NEW a \in Attempt, PublishEvents(a) PROVE TypeOK'
    BY <2>11, PipelineAssumption DEF PublishEvents, AfterEvents, Returns
  <2>12. ASSUME NEW a \in Attempt, AddRecordToStream(a) PROVE TypeOK'
    BY <2>12, PipelineAssumption DEF AddRecordToStream, Succeed, Returns
  <2>13. ASSUME NEW a \in Attempt, RemoveMessage(a) PROVE TypeOK'
    <3>1. PICK o \in Outcome : RemoveMessage(a)!2!(o)
      BY <2>13 DEF RemoveMessage
    <3>2. faults' \in 0..MaxFaults
      BY <3>1, ReturnsFaults
    <3>3. queue' \in [Msg -> {"none", "visible", "hidden", "removed"}]
      BY <3>1
    <3>4. pc' \in [Attempt -> Idle \cup Active]
      BY <3>1
    <3> QED
      BY <2>13, <3>2, <3>3, <3>4 DEF RemoveMessage, stores
  <2>14. ASSUME NEW a \in Attempt, Return(a) PROVE TypeOK'
    BY <2>14 DEF Return, stores
  <2>15. ASSUME NEW a \in Attempt, Leak(a) PROVE TypeOK'
    BY <2>15 DEF Leak, stores
  <2>16. ASSUME NEW a \in Attempt, Expire(a) PROVE TypeOK'
    BY <2>16, PipelineAssumption DEF Expire, stores
  <2>17. ASSUME NEW r \in Replica, Crash(r) PROVE TypeOK'
    BY <2>17, PipelineAssumption DEF Crash, stores
  <2>18. ASSUME NEW a \in Attempt, GiveUpReading(a) PROVE TypeOK'
    BY <2>18 DEF GiveUpReading, stores
  <2>19. CASE UNCHANGED vars
    BY <2>19 DEF vars, stores
  <2> QED
    BY <2>1, <2>2, <2>3, <2>4, <2>5, <2>6, <2>7, <2>8, <2>9, <2>10, <2>11,
       <2>12, <2>13, <2>14, <2>15, <2>16, <2>17, <2>18, <2>19,
       NextCases
<1> QED
  BY <1>1, <1>2, PTL DEF Spec
--------------------------------------------------------------------------------
(* The inductive invariant, in the order an attempt works.                      *)

\* The calls an attempt makes once it has fetched every source.
Built == After4j \cup {"neo4j", "remove"}

\* An attempt never gets ahead of the bucket nor behind the message that
\* started it: the object was there before its message, and is read after it.
ReadInv ==
    /\ \A m \in Msg : queue[m] # "none" => m[2] <= s3[m[1]]
    /\ \A a \in Attempt, s \in Source : view[a][s] <= s3[s]
    /\ \A a \in Attempt :
         /\ msg[a] # NoMsg => queue[msg[a]] # "none"
         /\ pc[a] \in Built => unread[a] = {}
         /\ msg[a] # NoMsg /\ pc[a] \in Built \cup {"sources"} =>
              msg[a][1] \in unread[a] \/ Covers(view[a], msg[a])

\* Past the Neo4j write, the view of an attempt is one Neo4j was given.
WriteInv ==
    /\ neo \in neoWritten
    /\ \A w \in neoWritten, s \in Source : w[s] <= s3[s]
    /\ \A a \in Attempt :
         pc[a] \in After4j \cup {"remove", "replyOk"} => view[a] \in neoWritten
    /\ RemovedReachedGraph

\* The notifications follow the stores, in the order of ProcessMessage.
NotifyInv ==
    /\ NotifiedReachedStores
    /\ \A a \in Attempt :
         /\ Indexed /\ pc[a] \in {"sns", "kinesis"} => view[a] \in esWritten
         /\ pc[a] = "kinesis" => view[a] \in sns

\* A deadline that passed was counted, and nothing else loses an update.
FaultInv ==
    /\ \A a \in Attempt :
         /\ ctx[a] = "expired" => faults # 0
         /\ pc[a] = "elastic" => IsTypeAllowedInElastic
    /\ NothingLostWithoutFault

LEMMA ReadInvariant == Spec => []ReadInv
<1>1. Init => ReadInv
  BY PipelineAssumption DEF Init, ReadInv, View, V0, Msg, Built, After4j
<1>2. TypeOK /\ ReadInv /\ [Next]_vars => ReadInv'
  <2> SUFFICES ASSUME TypeOK, ReadInv, [Next]_vars PROVE ReadInv'
    OBVIOUS
  <2> USE PipelineAssumption
      DEF TypeOK, ReadInv, Built, After4j, Covers, GoTo
  <2>1. ASSUME NEW s \in Source, Publish(s) PROVE ReadInv'
    BY <2>1 DEF Publish, Msg, View
  <2>2. ASSUME NEW m \in Msg, VisibilityTimeout(m) PROVE ReadInv'
    BY <2>2 DEF VisibilityTimeout
  <2>3. ASSUME NEW a \in Attempt, NEW m \in Msg, Receive(a, m) PROVE ReadInv'
    BY <2>3 DEF Receive, Received, Start, View, V0
  <2>4. ASSUME NEW a \in Attempt, Send(a) PROVE ReadInv'
    BY <2>4 DEF Send, Start, View, V0
  <2>5. ASSUME NEW a \in Attempt, GetConcordance(a) PROVE ReadInv'
    BY <2>5 DEF GetConcordance, AfterConcordance, Msg
  <2>6. ASSUME NEW a \in Attempt, NEW s \in Source, GetConcept(a, s)
        PROVE  ReadInv'
    <3>1. PICK o \in {"ok", "failed"} : GetConcept(a, s)!2!(o)
      BY <2>6 DEF GetConcept
    <3>2. UNCHANGED <<s3, queue, msg>>
      BY <2>6 DEF GetConcept
    <3>3. CASE o = "failed"
      BY <2>6, <3>1, <3>2, <3>3 DEF GetConcept
    <3>4. CASE o = "ok"
      <4>1. view'[a][s] = s3[s]
        BY <3>1, <3>4 DEF VersionRead, View
      <4>2. \A b \in Attempt, u \in Source :
              b # a \/ u # s => view'[b][u] = view[b][u]
        BY <3>1, <3>4 DEF View
      <4>3. /\ unread'[a] = unread[a] \ {s}
            /\ \A b \in Attempt : b # a => unread'[b] = unread[b]
        BY <3>1, <3>4
      <4>4. /\ pc[a] = "sources"
            /\ pc'[a] = IF unread[a] = {s} THEN "neo4j" ELSE "sources"
            /\ \A b \in Attempt : b # a => pc'[b] = pc[b]
        BY <2>6, <3>1, <3>4 DEF GetConcept
      <4>5. \A b \in Attempt, u \in Source : view'[b][u] <= s3'[u]
        <5>1. view'[a][s] <= s3[s]
          BY <4>1 DEF View
        <5>2. \A b \in Attempt, u \in Source :
                b # a \/ u # s => view'[b][u] <= s3[u]
          BY <4>2
        <5> QED
          BY <3>2, <5>1, <5>2
      <4>6. ASSUME NEW b \in Attempt, msg[b] # NoMsg,
                   pc'[b] \in Built \cup {"sources"},
                   msg[b][1] \notin unread'[b]
            PROVE  view'[b][msg[b][1]] >= msg[b][2]
        <5>1. /\ msg[b] \in Msg /\ msg[b][1] \in Source
              /\ msg[b][2] \in Nat /\ msg[b][2] <= s3[msg[b][1]]
          BY <4>6 DEF Msg
        <5>2. CASE b = a /\ msg[b][1] = s
          BY <4>1, <5>1, <5>2 DEF View
        <5>3. CASE b # a \/ msg[b][1] # s
          BY <4>2, <4>3, <4>4, <4>6, <5>1, <5>3
        <5> QED
          BY <5>2, <5>3
      <4>7. \A b \in Attempt : pc'[b] \in Built => unread'[b] = {}
        BY <4>3, <4>4
      <4> QED
        BY <3>2, <4>4, <4>5, <4>6, <4>7
    <3> QED
      BY <3>1, <3>3, <3>4
  <2>7. ASSUME NEW a \in Attempt, WriteNeo4j(a) PROVE ReadInv'
    BY <2>7 DEF WriteNeo4j, AfterNeo4j, Succeed
  <2>8. ASSUME NEW a \in Attempt, Purge(a) PROVE ReadInv'
    BY <2>8 DEF Purge, SendToPurger, AfterPurge
  <2>9. ASSUME NEW a \in Attempt, PurgeRelated(a) PROVE ReadInv'
    BY <2>9 DEF PurgeRelated, SendToPurger, AfterPurge
  <2>10. ASSUME NEW a \in Attempt, WriteElastic(a) PROVE ReadInv'
    BY <2>10 DEF WriteElastic, AfterElastic
  <2>11. ASSUME NEW a \in Attempt, PublishEvents(a) PROVE ReadInv'
    BY <2>11 DEF PublishEvents, AfterEvents
  <2>12. ASSUME NEW a \in Attempt, AddRecordToStream(a) PROVE ReadInv'
    BY <2>12 DEF AddRecordToStream, Succeed
  <2>13. ASSUME NEW a \in Attempt, RemoveMessage(a) PROVE ReadInv'
    BY <2>13 DEF RemoveMessage
  <2>14. ASSUME NEW a \in Attempt, Return(a) PROVE ReadInv'
    BY <2>14 DEF Return
  <2>15. ASSUME NEW a \in Attempt, Leak(a) PROVE ReadInv'
    BY <2>15 DEF Leak
  <2>16. ASSUME NEW a \in Attempt, Expire(a) PROVE ReadInv'
    BY <2>16 DEF Expire
  <2>17. ASSUME NEW r \in Replica, Crash(r) PROVE ReadInv'
    BY <2>17 DEF Crash
  <2>18. ASSUME NEW a \in Attempt, GiveUpReading(a) PROVE ReadInv'
    BY <2>18 DEF GiveUpReading, stores
  <2>19. CASE UNCHANGED vars
    BY <2>19 DEF vars
  <2> QED
    BY <2>1, <2>2, <2>3, <2>4, <2>5, <2>6, <2>7, <2>8, <2>9, <2>10, <2>11,
       <2>12, <2>13, <2>14, <2>15, <2>16, <2>17, <2>18, <2>19,
       NextCases
<1> QED
  BY <1>1, <1>2, TypeCorrect, PTL DEF Spec

LEMMA WriteInvariant == Spec => []WriteInv
<1>1. Init => WriteInv
  BY PipelineAssumption
     DEF Init, WriteInv, RemovedReachedGraph, View, V0, After4j
<1>2. TypeOK /\ ReadInv /\ WriteInv /\ [Next]_vars => WriteInv'
  <2> SUFFICES ASSUME TypeOK, ReadInv, WriteInv, [Next]_vars
               PROVE  WriteInv'
    OBVIOUS
  <2> USE PipelineAssumption DEF TypeOK, ReadInv, WriteInv, Built, After4j,
                                 RemovedReachedGraph,
      GoTo
  <2>1. ASSUME NEW s \in Source, Publish(s) PROVE WriteInv'
    BY <2>1 DEF Publish, stores, Msg, View
  <2>2. ASSUME NEW m \in Msg, VisibilityTimeout(m) PROVE WriteInv'
    BY <2>2 DEF VisibilityTimeout, stores
  <2>3. ASSUME NEW a \in Attempt, NEW m \in Msg, Receive(a, m) PROVE WriteInv'
    BY <2>3 DEF Receive, Received, Start, stores
  <2>4. ASSUME NEW a \in Attempt, Send(a) PROVE WriteInv'
    BY <2>4 DEF Send, Start, stores
  <2>5. ASSUME NEW a \in Attempt, GetConcordance(a) PROVE WriteInv'
    BY <2>5 DEF GetConcordance, AfterConcordance, stores
  <2>6. ASSUME NEW a \in Attempt, NEW s \in Source, GetConcept(a, s)
        PROVE  WriteInv'
    <3>1. PICK o \in {"ok", "failed"} : GetConcept(a, s)!2!(o)
      BY <2>6 DEF GetConcept
    <3>2. UNCHANGED <<s3, queue, neo, neoWritten>>
      BY <2>6 DEF GetConcept, stores
    <3>3. ASSUME NEW b \in Attempt,
                 pc'[b] \in After4j \cup {"remove", "replyOk"}
          PROVE  pc'[b] = pc[b] /\ view'[b] = view[b]
      BY <2>6, <3>1, <3>3 DEF GetConcept
    <3> QED
      BY <3>2, <3>3
  <2>7. ASSUME NEW a \in Attempt, WriteNeo4j(a) PROVE WriteInv'
    BY <2>7 DEF WriteNeo4j, AfterNeo4j, Succeed
  <2>8. ASSUME NEW a \in Attempt, Purge(a) PROVE WriteInv'
    BY <2>8 DEF Purge, SendToPurger, AfterPurge
  <2>9. ASSUME NEW a \in Attempt, PurgeRelated(a) PROVE WriteInv'
    BY <2>9 DEF PurgeRelated, SendToPurger, AfterPurge
  <2>10. ASSUME NEW a \in Attempt, WriteElastic(a) PROVE WriteInv'
    BY <2>10 DEF WriteElastic, AfterElastic
  <2>11. ASSUME NEW a \in Attempt, PublishEvents(a) PROVE WriteInv'
    BY <2>11 DEF PublishEvents, AfterEvents
  <2>12. ASSUME NEW a \in Attempt, AddRecordToStream(a) PROVE WriteInv'
    BY <2>12 DEF AddRecordToStream, Succeed
  <2>13. ASSUME NEW a \in Attempt, RemoveMessage(a) PROVE WriteInv'
    BY <2>13 DEF RemoveMessage, stores
  <2>14. ASSUME NEW a \in Attempt, Return(a) PROVE WriteInv'
    BY <2>14 DEF Return, stores
  <2>15. ASSUME NEW a \in Attempt, Leak(a) PROVE WriteInv'
    BY <2>15 DEF Leak, stores
  <2>16. ASSUME NEW a \in Attempt, Expire(a) PROVE WriteInv'
    BY <2>16 DEF Expire, stores
  <2>17. ASSUME NEW r \in Replica, Crash(r) PROVE WriteInv'
    BY <2>17 DEF Crash, stores
  <2>18. ASSUME NEW a \in Attempt, GiveUpReading(a) PROVE WriteInv'
    BY <2>18 DEF GiveUpReading, stores
  <2>19. CASE UNCHANGED vars
    BY <2>19 DEF vars, stores
  <2> QED
    BY <2>1, <2>2, <2>3, <2>4, <2>5, <2>6, <2>7, <2>8, <2>9, <2>10, <2>11,
       <2>12, <2>13, <2>14, <2>15, <2>16, <2>17, <2>18, <2>19,
       NextCases
<1> QED
  BY <1>1, <1>2, TypeCorrect, ReadInvariant, PTL DEF Spec

LEMMA NotifyInvariant == Spec => []NotifyInv
<1>1. Init => NotifyInv
  BY DEF Init, NotifyInv, NotifiedReachedStores
<1>2. TypeOK /\ WriteInv /\ NotifyInv /\ [Next]_vars => NotifyInv'
  <2> SUFFICES ASSUME TypeOK, WriteInv, NotifyInv, [Next]_vars
               PROVE  NotifyInv'
    OBVIOUS
  <2> USE PipelineAssumption DEF TypeOK, WriteInv, NotifyInv,
                                 NotifiedReachedStores, After4j, GoTo
  <2>1. ASSUME NEW s \in Source, Publish(s) PROVE NotifyInv'
    BY <2>1 DEF Publish, stores
  <2>2. ASSUME NEW m \in Msg, VisibilityTimeout(m) PROVE NotifyInv'
    BY <2>2 DEF VisibilityTimeout, stores
  <2>3. ASSUME NEW a \in Attempt, NEW m \in Msg, Receive(a, m) PROVE NotifyInv'
    BY <2>3 DEF Receive, Received, Start, stores
  <2>4. ASSUME NEW a \in Attempt, Send(a) PROVE NotifyInv'
    BY <2>4 DEF Send, Start, stores
  <2>5. ASSUME NEW a \in Attempt, GetConcordance(a) PROVE NotifyInv'
    BY <2>5 DEF GetConcordance, AfterConcordance, stores
  <2>6. ASSUME NEW a \in Attempt, NEW s \in Source, GetConcept(a, s)
        PROVE  NotifyInv'
    BY <2>6 DEF GetConcept, stores
  <2>7. ASSUME NEW a \in Attempt, WriteNeo4j(a) PROVE NotifyInv'
    BY <2>7 DEF WriteNeo4j, AfterNeo4j, Succeed
  <2>8. ASSUME NEW a \in Attempt, Purge(a) PROVE NotifyInv'
    BY <2>8 DEF Purge, SendToPurger, AfterPurge, Indexed, IsTypeAllowedInElastic
  <2>9. ASSUME NEW a \in Attempt, PurgeRelated(a) PROVE NotifyInv'
    BY <2>9 DEF PurgeRelated, SendToPurger, AfterPurge, Indexed,
                IsTypeAllowedInElastic
  <2>10. ASSUME NEW a \in Attempt, WriteElastic(a) PROVE NotifyInv'
    BY <2>10 DEF WriteElastic, AfterElastic, Indexed
  <2>11. ASSUME NEW a \in Attempt, PublishEvents(a) PROVE NotifyInv'
    BY <2>11 DEF PublishEvents, AfterEvents
  <2>12. ASSUME NEW a \in Attempt, AddRecordToStream(a) PROVE NotifyInv'
    BY <2>12 DEF AddRecordToStream, Succeed
  <2>13. ASSUME NEW a \in Attempt, RemoveMessage(a) PROVE NotifyInv'
    BY <2>13 DEF RemoveMessage, stores
  <2>14. ASSUME NEW a \in Attempt, Return(a) PROVE NotifyInv'
    BY <2>14 DEF Return, stores
  <2>15. ASSUME NEW a \in Attempt, Leak(a) PROVE NotifyInv'
    BY <2>15 DEF Leak, stores
  <2>16. ASSUME NEW a \in Attempt, Expire(a) PROVE NotifyInv'
    BY <2>16 DEF Expire, stores
  <2>17. ASSUME NEW r \in Replica, Crash(r) PROVE NotifyInv'
    BY <2>17 DEF Crash, stores
  <2>18. ASSUME NEW a \in Attempt, GiveUpReading(a) PROVE NotifyInv'
    BY <2>18 DEF GiveUpReading, stores
  <2>19. CASE UNCHANGED vars
    BY <2>19 DEF vars, stores
  <2> QED
    BY <2>1, <2>2, <2>3, <2>4, <2>5, <2>6, <2>7, <2>8, <2>9, <2>10, <2>11,
       <2>12, <2>13, <2>14, <2>15, <2>16, <2>17, <2>18, <2>19,
       NextCases
<1> QED
  BY <1>1, <1>2, TypeCorrect, WriteInvariant, PTL DEF Spec

LEMMA FaultInvariant == Spec => []FaultInv
<1>1. Init => FaultInv
  BY DEF Init, FaultInv, NothingLostWithoutFault
<1>2. TypeOK /\ WriteInv /\ FaultInv /\ [Next]_vars => FaultInv'
  <2> SUFFICES ASSUME TypeOK, WriteInv, FaultInv, [Next]_vars
               PROVE  FaultInv'
    OBVIOUS
  <2> USE PipelineAssumption DEF TypeOK, WriteInv, FaultInv,
                                 NothingLostWithoutFault, Carries,
                                 Announceable, After4j, GoTo
  <2>1. ASSUME NEW s \in Source, Publish(s) PROVE FaultInv'
    BY <2>1 DEF Publish, stores
  <2>2. ASSUME NEW m \in Msg, VisibilityTimeout(m) PROVE FaultInv'
    BY <2>2 DEF VisibilityTimeout, stores
  <2>3. ASSUME NEW a \in Attempt, NEW m \in Msg, Receive(a, m) PROVE FaultInv'
    BY <2>3 DEF Receive, Received, Start, stores
  <2>4. ASSUME NEW a \in Attempt, Send(a) PROVE FaultInv'
    BY <2>4 DEF Send, Start, stores
  <2>5. ASSUME NEW a \in Attempt, GetConcordance(a) PROVE FaultInv'
    BY <2>5 DEF GetConcordance, AfterConcordance, Returns, stores
  <2>6. ASSUME NEW a \in Attempt, NEW s \in Source, GetConcept(a, s)
        PROVE  FaultInv'
    <3>1. PICK o \in {"ok", "failed"} : GetConcept(a, s)!2!(o)
      BY <2>6 DEF GetConcept
    <3>2. UNCHANGED <<ctx, neoWritten, kinesis>>
      BY <2>6 DEF GetConcept, stores
    <3>3. faults' # 0 <=> faults # 0 \/ faults' # faults
      BY <3>1 DEF Returns
    <3>4. ASSUME NEW b \in Attempt, NEW w, Carries(b, w)
          PROVE  Carries(b, w)'
      BY <2>6, <3>1, <3>4 DEF GetConcept
    <3>5. \A b \in Attempt : pc'[b] = "elastic" => pc[b] = "elastic"
      BY <2>6, <3>1 DEF GetConcept
    <3> QED
      BY <3>2, <3>3, <3>4, <3>5
  <2>7. ASSUME NEW a \in Attempt, WriteNeo4j(a) PROVE FaultInv'
    BY <2>7 DEF WriteNeo4j, AfterNeo4j, Succeed, Returns, Outcome
  <2>8. ASSUME NEW a \in Attempt, Purge(a) PROVE FaultInv'
    BY <2>8 DEF Purge, SendToPurger, AfterPurge, Returns, Outcome
  <2>9. ASSUME NEW a \in Attempt, PurgeRelated(a) PROVE FaultInv'
    BY <2>9 DEF PurgeRelated, SendToPurger, AfterPurge, Returns, Outcome
  <2>10. ASSUME NEW a \in Attempt, WriteElastic(a) PROVE FaultInv'
    BY <2>10 DEF WriteElastic, AfterElastic, Returns, Outcome
  <2>11. ASSUME NEW a \in Attempt, PublishEvents(a) PROVE FaultInv'
    BY <2>11 DEF PublishEvents, AfterEvents, Returns, Outcome
  <2>12. ASSUME NEW a \in Attempt, AddRecordToStream(a) PROVE FaultInv'
    BY <2>12 DEF AddRecordToStream, Succeed, Returns, Outcome
  <2>13. ASSUME NEW a \in Attempt, RemoveMessage(a) PROVE FaultInv'
    BY <2>13 DEF RemoveMessage, Returns, stores
  <2>14. ASSUME NEW a \in Attempt, Return(a) PROVE FaultInv'
    BY <2>14 DEF Return, stores
  <2>15. ASSUME NEW a \in Attempt, Leak(a) PROVE FaultInv'
    BY <2>15 DEF Leak, Abandoned, stores
  <2>16. ASSUME NEW a \in Attempt, Expire(a) PROVE FaultInv'
    BY <2>16 DEF Expire, stores
  <2>17. ASSUME NEW r \in Replica, Crash(r) PROVE FaultInv'
    BY <2>17 DEF Crash, stores
  <2>18. ASSUME NEW a \in Attempt, GiveUpReading(a) PROVE FaultInv'
    BY <2>18 DEF GiveUpReading, stores
  <2>19. CASE UNCHANGED vars
    BY <2>19 DEF vars, stores
  <2> QED
    BY <2>1, <2>2, <2>3, <2>4, <2>5, <2>6, <2>7, <2>8, <2>9, <2>10, <2>11,
       <2>12, <2>13, <2>14, <2>15, <2>16, <2>17, <2>18, <2>19,
       NextCases
<1> QED
  BY <1>1, <1>2, TypeCorrect, WriteInvariant, PTL DEF Spec

\* While attempts have come one after the other, what Neo4j holds is the newest
\* view it was given and never newer than what the attempt has read so far.
SerialInv ==
    /\ \A m \in Msg : m[2] <= s3[m[1]] => queue[m] # "none"
    /\ ~overlapped =>
         /\ \A a, b \in Attempt : pc[a] \notin Idle /\ pc[b] \notin Idle => a = b
         /\ \A w \in neoWritten, s \in Source : w[s] <= neo[s]
         /\ \A a \in Attempt, s \in Source :
              pc[a] \in {"sources", "neo4j"} /\ s \notin unread[a]
                => neo[s] <= view[a][s]

\* The calls between the write to Neo4j and the end of the one to Elasticsearch.
BeforeIndexed == {"purge", "purgeRelated", "elastic"}

\* What Elasticsearch and Varnish are behind with is still to be done by the
\* attempt that changed Neo4j.
SettleInv ==
    /\ cached \subseteq StaleUrls
    /\ ~overlapped /\ faults = 0 /\ NeoNamed =>
         /\ \A a \in Attempt : pc[a] \in BeforeIndexed => view[a] = neo
         /\ Indexed /\ es # neo => \E a \in Attempt : pc[a] \in BeforeIndexed
         /\ "concept" \in cached => \E a \in Attempt : pc[a] = "purge"
         /\ "related" \in cached =>
              \E a \in Attempt : pc[a] \in {"purge", "purgeRelated"}

\* An attempt that starts alone finds nobody under way and has read nothing.
LEMMA StartSerial ==
    ASSUME TypeOK, SerialInv, NEW a \in Attempt, NEW m, Start(a, m),
           UNCHANGED <<s3, neo, neoWritten>>,
           \A n \in Msg : queue[n] # "none" => queue'[n] # "none"
    PROVE  SerialInv'
<1>1. /\ pc[a] = "idle"
      /\ pc'[a] \in {"replyErr", "concord"}
      /\ \A b \in Attempt : b # a => pc'[b] = pc[b]
      /\ \A b \in Attempt : b # a => view'[b] = view[b] /\ unread'[b] = unread[b]
  BY DEF Start, GoTo, TypeOK
<1>2. ~overlapped' => ~overlapped /\ \A b \in Attempt : b # a => pc[b] \in Idle
  BY DEF Start
<1>3. ~overlapped' =>
        \A b, c \in Attempt : pc'[b] \notin Idle /\ pc'[c] \notin Idle => b = c
  BY <1>1, <1>2
<1>4. ~overlapped' => \A w \in neoWritten', s \in Source : w[s] <= neo'[s]
  BY <1>2 DEF SerialInv
<1>5. ~overlapped' =>
        \A b \in Attempt, s \in Source :
           pc'[b] \in {"sources", "neo4j"} /\ s \notin unread'[b]
             => neo'[s] <= view'[b][s]
  BY <1>1, <1>2 DEF SerialInv
<1>6. \A n \in Msg : n[2] <= s3'[n[1]] => queue'[n] # "none"
  BY DEF SerialInv
<1> QED
  BY <1>3, <1>4, <1>5, <1>6 DEF SerialInv

LEMMA SerialInvariant == Spec => []SerialInv
<1>1. Init => SerialInv
  BY PipelineAssumption DEF Init, SerialInv, View, V0, Msg, Idle
<1>2. TypeOK /\ ReadInv /\ WriteInv /\ SerialInv /\ [Next]_vars => SerialInv'
  <2> SUFFICES ASSUME TypeOK, ReadInv, WriteInv, SerialInv, [Next]_vars
               PROVE  SerialInv'
    OBVIOUS
  <2> USE PipelineAssumption
      DEF TypeOK, SerialInv, Idle, GoTo
  <2>1. ASSUME NEW s \in Source, Publish(s) PROVE SerialInv'
    <3>1. ASSUME NEW m \in Msg, m[2] <= s3'[m[1]] PROVE queue'[m] # "none"
      <4>1. m = <<m[1], m[2]>> /\ m[1] \in Source /\ m[2] \in Nat
        BY DEF Msg
      <4>2. CASE m[2] <= s3[m[1]]
        BY <2>1, <4>2 DEF Publish
      <4>3. CASE ~(m[2] <= s3[m[1]])
        BY <2>1, <3>1, <4>1, <4>3 DEF Publish, View
      <4> QED
        BY <4>2, <4>3
    <3> QED
      BY <2>1, <3>1 DEF Publish, stores
  <2>2. ASSUME NEW m \in Msg, VisibilityTimeout(m) PROVE SerialInv'
    BY <2>2 DEF VisibilityTimeout, stores
  <2>3. ASSUME NEW a \in Attempt, NEW m \in Msg, Receive(a, m) PROVE SerialInv'
    <3>1. Start(a, m)
      BY <2>3 DEF Receive
    <3>2. /\ UNCHANGED <<s3, neo, neoWritten>>
          /\ \A n \in Msg : queue[n] # "none" => queue'[n] # "none"
      BY <2>3 DEF Receive, Received, stores
    <3> QED
      BY <3>1, <3>2, StartSerial
  <2>4. ASSUME NEW a \in Attempt, Send(a) PROVE SerialInv'
    <3>1. Start(a, NoMsg)
      BY <2>4 DEF Send
    <3>2. UNCHANGED <<s3, queue, neo, neoWritten>>
      BY <2>4 DEF Send, stores
    <3> QED
      BY <3>1, <3>2, StartSerial
  <2>5. ASSUME NEW a \in Attempt, GetConcordance(a) PROVE SerialInv'
    BY <2>5 DEF GetConcordance, AfterConcordance, Returns, stores
  <2>6. ASSUME NEW a \in Attempt, NEW s \in Source, GetConcept(a, s) PROVE SerialInv'
    <3>1. PICK o \in {"ok", "failed"} : GetConcept(a, s)!2!(o)
      BY <2>6 DEF GetConcept
    <3>2. UNCHANGED <<s3, queue, neo, neoWritten, overlapped>>
      BY <2>6 DEF GetConcept, stores
    <3>3. /\ pc[a] = "sources"
          /\ \A b \in Attempt : b # a => pc'[b] = pc[b]
      BY <2>6, <3>1 DEF GetConcept
    <3>4. CASE o = "failed"
      BY <3>1, <3>2, <3>3, <3>4
    <3>5. CASE o = "ok"
      <4>1. /\ view'[a][s] = s3[s]
            /\ \A u \in Source : u # s => view'[a][u] = view[a][u]
            /\ unread'[a] = unread[a] \ {s}
        BY <3>1, <3>5 DEF VersionRead, View
      <4>2. neo[s] <= s3[s]
        BY DEF WriteInv
      <4>3. \A b \in Attempt : b # a => view'[b] = view[b] /\ unread'[b] = unread[b]
        BY <3>1, <3>5
      <4>4. ~overlapped => \A u \in Source :
              u \notin unread'[a] => neo[u] <= view'[a][u]
        BY <3>3, <4>1, <4>2
      <4>5. ~overlapped => \A b \in Attempt : b # a => pc[b] \in Idle
        BY <3>3
      <4> QED
        BY <3>2, <3>3, <4>3, <4>4, <4>5
    <3> QED
      BY <3>1, <3>4, <3>5
  <2>7. ASSUME NEW a \in Attempt, WriteNeo4j(a) PROVE SerialInv'
    <3>1. PICK o \in Outcome : WriteNeo4j(a)!2!(o)
      BY <2>7 DEF WriteNeo4j
    <3>2. UNCHANGED <<s3, queue, overlapped, unread, view>>
      BY <2>7 DEF WriteNeo4j
    <3>3. /\ pc[a] = "neo4j" /\ pc'[a] \notin {"sources", "neo4j"}
          /\ \A b \in Attempt : b # a => pc'[b] = pc[b]
      BY <2>7, <3>1 DEF WriteNeo4j, AfterNeo4j, Succeed
    <3>4. CASE o = "failed"
      BY <3>1, <3>2, <3>3, <3>4
    <3>5. CASE o # "failed"
      <4>1. neo' = view[a] /\ neoWritten' = neoWritten \cup {view[a]}
        BY <3>1, <3>5
      <4>2. ~overlapped => \A s \in Source : neo[s] <= view[a][s]
        BY <3>3 DEF ReadInv, Built
      <4>3. ~overlapped => \A w \in neoWritten', s \in Source : w[s] <= neo'[s]
        BY <4>1, <4>2 DEF View
      <4>4. ~overlapped => \A b \in Attempt : pc'[b] \notin {"sources", "neo4j"}
        BY <3>3
      <4> QED
        BY <3>2, <3>3, <4>3, <4>4
    <3> QED
      BY <3>4, <3>5
  <2>8. ASSUME NEW a \in Attempt, Purge(a) PROVE SerialInv'
    BY <2>8 DEF Purge, SendToPurger, AfterPurge, Returns, Outcome
  <2>9. ASSUME NEW a \in Attempt, PurgeRelated(a) PROVE SerialInv'
    BY <2>9 DEF PurgeRelated, SendToPurger, AfterPurge, Returns,
           Outcome
  <2>10. ASSUME NEW a \in Attempt, WriteElastic(a) PROVE SerialInv'
    BY <2>10 DEF WriteElastic, AfterElastic, Returns, Outcome
  <2>11. ASSUME NEW a \in Attempt, PublishEvents(a) PROVE SerialInv'
    BY <2>11 DEF PublishEvents, AfterEvents, Returns, Outcome
  <2>12. ASSUME NEW a \in Attempt, AddRecordToStream(a) PROVE SerialInv'
    BY <2>12 DEF AddRecordToStream, Succeed, Returns, Outcome
  <2>13. ASSUME NEW a \in Attempt, RemoveMessage(a) PROVE SerialInv'
    BY <2>13 DEF RemoveMessage, Returns, Outcome, stores
  <2>14. ASSUME NEW a \in Attempt, Return(a) PROVE SerialInv'
    BY <2>14 DEF Return, stores
  <2>15. ASSUME NEW a \in Attempt, Leak(a) PROVE SerialInv'
    BY <2>15 DEF Leak, stores
  <2>16. ASSUME NEW a \in Attempt, Expire(a) PROVE SerialInv'
    BY <2>16 DEF Expire, stores
  <2>17. ASSUME NEW r \in Replica, Crash(r) PROVE SerialInv'
    BY <2>17 DEF Crash, stores
  <2>18. ASSUME NEW a \in Attempt, GiveUpReading(a) PROVE SerialInv'
    BY <2>18 DEF GiveUpReading, stores
  <2>19. CASE UNCHANGED vars
    BY <2>19 DEF vars, stores
  <2> QED
    BY <2>1, <2>2, <2>3, <2>4, <2>5, <2>6, <2>7, <2>8, <2>9, <2>10, <2>11,
       <2>12, <2>13, <2>14, <2>15, <2>16, <2>17, <2>18, <2>19,
       NextCases
<1> QED
  BY <1>1, <1>2, TypeCorrect, ReadInvariant, WriteInvariant, PTL DEF Spec

LEMMA SettleInvariant == Spec => []SettleInv
<1>1. Init => SettleInv
  BY DEF Init, SettleInv, BeforeIndexed, StaleUrls, Idle
<1>2. TypeOK /\ FaultInv /\ SerialInv /\ SettleInv /\ [Next]_vars => SettleInv'
  <2> SUFFICES ASSUME TypeOK, FaultInv, SerialInv, SettleInv, [Next]_vars
               PROVE  SettleInv'
    OBVIOUS
  <2> USE PipelineAssumption
      DEF TypeOK, FaultInv, SettleInv, BeforeIndexed, GoTo
  <2>1. ASSUME NEW s \in Source, Publish(s) PROVE SettleInv'
    BY <2>1 DEF Publish, stores, Msg, View
  <2>2. ASSUME NEW m \in Msg, VisibilityTimeout(m) PROVE SettleInv'
    BY <2>2 DEF VisibilityTimeout, stores
  <2>3. ASSUME NEW a \in Attempt, NEW m \in Msg, Receive(a, m) PROVE SettleInv'
    BY <2>3 DEF Receive, Received, Start, stores
  <2>4. ASSUME NEW a \in Attempt, Send(a) PROVE SettleInv'
    BY <2>4 DEF Send, Start, stores
  <2>5. ASSUME NEW a \in Attempt, GetConcordance(a) PROVE SettleInv'
    BY <2>5 DEF GetConcordance, AfterConcordance, Returns, stores
  <2>6. ASSUME NEW a \in Attempt, NEW s \in Source, GetConcept(a, s) PROVE SettleInv'
    BY <2>6 DEF GetConcept, Returns, stores
  <2>7. ASSUME NEW a \in Attempt, WriteNeo4j(a) PROVE SettleInv'
    <3>1. PICK o \in Outcome : WriteNeo4j(a)!2!(o)
      BY <2>7 DEF WriteNeo4j
    <3>2. UNCHANGED <<overlapped, view, es>> /\ pc[a] = "neo4j"
      BY <2>7 DEF WriteNeo4j
    <3>3. cached' \subseteq StaleUrls
      BY <3>1
    <3>4. ASSUME ~overlapped', faults' = 0, NeoNamed
          PROVE  /\ o = "ok"
                 /\ \A b \in Attempt : b # a => pc[b] \in Idle /\ pc'[b] = pc[b]
      <4>1. o = "ok"
        BY <3>1, <3>4 DEF Returns, Outcome
      <4> QED
        BY <3>1, <3>2, <3>4, <4>1 DEF SerialInv, Idle
    <3>5. CASE neo = view[a]
      <4>1. neo' = neo /\ cached' = cached
        BY <3>1, <3>5
      <4>2. pc'[a] \notin BeforeIndexed /\ (faults' = 0 => faults = 0)
        BY <3>1, <3>5 DEF AfterNeo4j, Succeed, Returns, Outcome
      <4> QED
        BY <3>2, <3>3, <3>4, <4>1, <4>2 DEF Idle
    <3>6. CASE neo # view[a]
      <4>1. ASSUME ~overlapped', faults' = 0, NeoNamed
            PROVE  pc'[a] = "purge" /\ neo' = view[a]
        BY <3>1, <3>4, <3>6, <4>1 DEF AfterNeo4j
      <4> QED
        BY <3>2, <3>3, <3>4, <4>1 DEF Idle
    <3> QED
      BY <3>5, <3>6
  <2>8. ASSUME NEW a \in Attempt, Purge(a) PROVE SettleInv'
    <3>1. PICK o \in Outcome :
            /\ Returns(a, o)
            /\ cached' = IF o = "failed" THEN cached ELSE cached \ {"concept"}
      BY <2>8 DEF Purge, SendToPurger
    <3>2. UNCHANGED <<overlapped, view, es, neo, ctx>> /\ pc[a] = "purge"
      BY <2>8 DEF Purge, SendToPurger
    <3>3. /\ pc'[a] = IF HasRelated THEN "purgeRelated" ELSE AfterPurge
          /\ \A b \in Attempt : b # a => pc'[b] = pc[b]
      BY <2>8 DEF Purge, SendToPurger, AfterPurge
    <3>4. cached' \subseteq StaleUrls /\ ("related" \in cached' => HasRelated)
      BY <3>1 DEF StaleUrls
    <3>5. faults' = 0 => faults = 0 /\ cached' = cached \ {"concept"}
      BY <3>1 DEF Returns, Outcome
    <3> QED
      BY <3>2, <3>3, <3>4, <3>5 DEF AfterPurge, Indexed
  <2>9. ASSUME NEW a \in Attempt, PurgeRelated(a) PROVE SettleInv'
    <3>1. PICK o \in Outcome :
            /\ Returns(a, o)
            /\ cached' = IF o = "failed" THEN cached ELSE cached \ {"related"}
      BY <2>9 DEF PurgeRelated, SendToPurger
    <3>2. UNCHANGED <<overlapped, view, es, neo, ctx>> /\ pc[a] = "purgeRelated"
      BY <2>9 DEF PurgeRelated, SendToPurger
    <3>3. /\ pc'[a] = AfterPurge
          /\ \A b \in Attempt : b # a => pc'[b] = pc[b]
      BY <2>9 DEF PurgeRelated, SendToPurger, AfterPurge
    <3>4. cached' \subseteq StaleUrls
      BY <3>1
    <3>5. faults' = 0 => faults = 0 /\ cached' = cached \ {"related"}
      BY <3>1 DEF Returns, Outcome
    <3> QED
      BY <3>2, <3>3, <3>4, <3>5 DEF AfterPurge, Indexed
  <2>10. ASSUME NEW a \in Attempt, WriteElastic(a) PROVE SettleInv'
    <3>1. PICK o \in Outcome : WriteElastic(a)!2!(o)
      BY <2>10 DEF WriteElastic
    <3>2. /\ UNCHANGED <<overlapped, view, neo, cached, ctx>>
          /\ pc[a] = "elastic" /\ pc'[a] \notin BeforeIndexed
          /\ \A b \in Attempt : b # a => pc'[b] = pc[b]
      BY <2>10 DEF WriteElastic, AfterElastic
    <3>3. faults' = 0 => faults = 0 /\ o = "ok"
      BY <3>1 DEF Returns, Outcome
    <3>4. Indexed /\ faults' = 0 => es' = view[a]
      BY <3>1, <3>3 DEF Indexed
    <3> QED
      BY <3>2, <3>3, <3>4
  <2>11. ASSUME NEW a \in Attempt, PublishEvents(a) PROVE SettleInv'
    BY <2>11 DEF PublishEvents, AfterEvents, Returns, Outcome
  <2>12. ASSUME NEW a \in Attempt, AddRecordToStream(a) PROVE SettleInv'
    BY <2>12 DEF AddRecordToStream, Succeed, Returns, Outcome
  <2>13. ASSUME NEW a \in Attempt, RemoveMessage(a) PROVE SettleInv'
    BY <2>13 DEF RemoveMessage, Returns, Outcome, stores
  <2>14. ASSUME NEW a \in Attempt, Return(a) PROVE SettleInv'
    BY <2>14 DEF Return, stores
  <2>15. ASSUME NEW a \in Attempt, Leak(a) PROVE SettleInv'
    BY <2>15 DEF Leak, Abandoned, stores
  <2>16. ASSUME NEW a \in Attempt, Expire(a) PROVE SettleInv'
    BY <2>16 DEF Expire, stores
  <2>17. ASSUME NEW r \in Replica, Crash(r) PROVE SettleInv'
    BY <2>17 DEF Crash, stores
  <2>18. ASSUME NEW a \in Attempt, GiveUpReading(a) PROVE SettleInv'
    BY <2>18 DEF GiveUpReading, stores
  <2>19. CASE UNCHANGED vars
    BY <2>19 DEF vars, stores
  <2> QED
    BY <2>1, <2>2, <2>3, <2>4, <2>5, <2>6, <2>7, <2>8, <2>9, <2>10, <2>11,
       <2>12, <2>13, <2>14, <2>15, <2>16, <2>17, <2>18, <2>19,
       NextCases
<1> QED
  BY <1>1, <1>2, TypeCorrect, FaultInvariant, SerialInvariant, PTL DEF Spec

--------------------------------------------------------------------------------
(* The theorems.                                                                *)

\* A set that grows only with a count, one element at a time, is bounded by it.
LEMMA CountedGrowth ==
    ASSUME NEW S, NEW T, NEW m \in Nat, NEW n \in Nat,
           IsFiniteSet(S), Cardinality(S) <= m,
           \/ n >= m /\ T \subseteq S
           \/ n = m + 1 /\ \E x : T \subseteq S \cup {x}
    PROVE  Cardinality(T) <= n
<1>1. Cardinality(S) \in Nat
  BY FS_CardinalityType
<1>2. CASE n >= m /\ T \subseteq S
  <2>1. Cardinality(T) <= Cardinality(S) /\ Cardinality(T) \in Nat
    BY <1>2, FS_Subset, FS_CardinalityType
  <2> QED
    BY <1>1, <1>2, <2>1
<1>3. ASSUME NEW x, n = m + 1, T \subseteq S \cup {x}
      PROVE  Cardinality(T) <= n
  <2>1. /\ IsFiniteSet(S \cup {x})
        /\ Cardinality(S \cup {x}) \in {Cardinality(S), Cardinality(S) + 1}
    BY FS_AddElement
  <2>2. Cardinality(T) <= Cardinality(S \cup {x}) /\ Cardinality(T) \in Nat
    BY <1>3, <2>1, FS_Subset, FS_CardinalityType
  <2> QED
    BY <1>1, <1>3, <2>1, <2>2
<1> QED
  BY <1>2, <1>3

\* The attempts whose own goroutine has lost its receiver, or may.
Deserted == {a \in Attempt : pc[a] = "leaked" \/
                              (pc[a] \in Active /\ ctx[a] = "expired")}

\* Those whose reading goroutine has, or may.
Unheard == orphaned \cup {a \in Attempt : /\ pc[a] \in {"concord", "sources"}
                                          /\ ctx[a] = "expired"}

\* Each of them had its deadline pass, which was counted.
DesertedInv == Cardinality(Deserted) <= faults /\ Cardinality(Unheard) <= faults

LEMMA DesertedStep ==
    ASSUME TypeOK, DesertedInv, faults' \in Nat,
           \/ /\ faults' >= faults
              /\ Deserted' \subseteq Deserted /\ Unheard' \subseteq Unheard
           \/ /\ faults' = faults + 1
              /\ \E a \in Attempt : /\ Deserted' \subseteq Deserted \cup {a}
                                    /\ Unheard' \subseteq Unheard \cup {a}
    PROVE  DesertedInv'
<1>1. faults \in Nat
  BY PipelineAssumption DEF TypeOK
<1>2. IsFiniteSet(Deserted) /\ IsFiniteSet(Unheard)
  <2>1. Deserted \subseteq Attempt /\ Unheard \subseteq Attempt
    BY DEF Deserted, Unheard, TypeOK
  <2> QED
    BY <2>1, PipelineAssumption, FS_Subset
<1>3. Cardinality(Deserted') <= faults'
  <2>1. \/ faults' >= faults /\ Deserted' \subseteq Deserted
        \/ faults' = faults + 1 /\ \E a : Deserted' \subseteq Deserted \cup {a}
    OBVIOUS
  <2> QED
    BY <1>1, <1>2, <2>1, CountedGrowth DEF DesertedInv
<1>4. Cardinality(Unheard') <= faults'
  <2>1. \/ faults' >= faults /\ Unheard' \subseteq Unheard
        \/ faults' = faults + 1 /\ \E a : Unheard' \subseteq Unheard \cup {a}
    OBVIOUS
  <2> QED
    BY <1>1, <1>2, <2>1, CountedGrowth DEF DesertedInv
<1> QED
  BY <1>3, <1>4 DEF DesertedInv

\* No goroutine leaks, neither one that reads nor one that runs an attempt,
\* without a deadline that passed.
THEOREM LeaksBounded == Spec => []LeaksAreBounded
<1>1. Init => DesertedInv
  <2> SUFFICES ASSUME Init PROVE DesertedInv
    OBVIOUS
  <2>1. Deserted = {} /\ Unheard = {}
    BY DEF Init, Deserted, Unheard, Active, After4j
  <2> QED
    BY <2>1, FS_EmptySet DEF Init, DesertedInv
<1>2. TypeOK /\ TypeOK' /\ DesertedInv /\ [Next]_vars => DesertedInv'
  <2> SUFFICES ASSUME TypeOK, TypeOK', DesertedInv, [Next]_vars
               PROVE  DesertedInv'
    OBVIOUS
  <2> USE DEF TypeOK, GoTo
  <2>0. faults \in Nat /\ faults' \in Nat
    BY PipelineAssumption
  <2>1. ASSUME faults' >= faults, orphaned' \subseteq orphaned,
               \A a \in Attempt :
                 \/ pc'[a] = pc[a] /\ ctx'[a] = ctx[a]
                 \/ pc'[a] = "idle"
                 \/ pc'[a] \in Active /\ ctx'[a] = "live"
                 \/ /\ pc[a] \in Active /\ pc'[a] \in Active
                    /\ ctx'[a] = ctx[a]
                    /\ pc'[a] \in {"concord", "sources"}
                         => pc[a] \in {"concord", "sources"}
        PROVE  DesertedInv'
    <3>1. Deserted' \subseteq Deserted
      BY <2>1 DEF Deserted, Active, After4j
    <3>2. Unheard' \subseteq Unheard
      BY <2>1 DEF Unheard
    <3> QED
      BY <2>0, <2>1, <3>1, <3>2, DesertedStep
  <2>2. ASSUME UNCHANGED <<pc, ctx, faults, orphaned>> PROVE DesertedInv'
    BY <2>0, <2>1, <2>2
  <2>3. ASSUME NEW a \in Attempt, NEW m, Start(a, m), UNCHANGED faults
        PROVE  DesertedInv'
    <3>1. /\ pc'[a] \in {"replyErr", "concord"} /\ ctx'[a] = "live"
          /\ \A b \in Attempt : b # a => pc'[b] = pc[b] /\ ctx'[b] = ctx[b]
          /\ orphaned' = orphaned
      BY <2>3 DEF Start
    <3> QED
      BY <2>0, <2>1, <2>3, <3>1 DEF Active
  <2>4. ASSUME NEW a \in Attempt, NEW o \in Outcome, Returns(a, o)
        PROVE  faults' >= faults
    BY <2>0, <2>4 DEF Returns
  <2>5. ASSUME NEW a \in Attempt,
               \/ GetConcordance(a) \/ \E s \in Source : GetConcept(a, s)
               \/ WriteNeo4j(a) \/ Purge(a) \/ PurgeRelated(a)
               \/ WriteElastic(a) \/ PublishEvents(a) \/ AddRecordToStream(a)
               \/ RemoveMessage(a)
        PROVE  DesertedInv'
    <3>1. faults' >= faults
      BY <2>0, <2>4, <2>5
         DEF GetConcordance, GetConcept, WriteNeo4j, Purge, PurgeRelated,
             SendToPurger, WriteElastic, PublishEvents, AddRecordToStream,
             RemoveMessage, Outcome
    <3>2. /\ pc[a] \in Active /\ pc'[a] \in Active
          /\ pc'[a] \in {"concord", "sources"}
               => pc[a] \in {"concord", "sources"}
          /\ \A b \in Attempt : b # a => pc'[b] = pc[b]
          /\ UNCHANGED <<ctx, orphaned>>
      BY <2>5
         DEF GetConcordance, AfterConcordance, GetConcept, WriteNeo4j,
             AfterNeo4j, Purge, PurgeRelated, AfterPurge, SendToPurger,
             WriteElastic, AfterElastic, PublishEvents, AfterEvents,
             AddRecordToStream, RemoveMessage, Succeed, Active, After4j
    <3> QED
      BY <2>1, <3>1, <3>2
  <2>6. ASSUME NEW a \in Attempt, Return(a) PROVE DesertedInv'
    BY <2>0, <2>1, <2>6 DEF Return
  <2>7. ASSUME NEW a \in Attempt, Leak(a) PROVE DesertedInv'
    <3>1. /\ a \in Deserted /\ UNCHANGED <<ctx, faults, orphaned>>
          /\ \A b \in Attempt : b # a => pc'[b] = pc[b]
          /\ pc'[a] = "leaked"
      BY <2>7 DEF Leak, Abandoned, Deserted, Active
    <3>2. Deserted' \subseteq Deserted /\ Unheard' \subseteq Unheard
      BY <3>1 DEF Deserted, Unheard
    <3> QED
      BY <2>0, <3>1, <3>2, DesertedStep
  <2>8. ASSUME NEW a \in Attempt, GiveUpReading(a) PROVE DesertedInv'
    <3>1. /\ a \in Deserted /\ a \in Unheard /\ UNCHANGED <<ctx, faults>>
          /\ \A b \in Attempt : b # a => pc'[b] = pc[b]
          /\ pc'[a] = "replyErr" /\ orphaned' = orphaned \cup {a}
      BY <2>8 DEF GiveUpReading, Deserted, Unheard, Active
    <3>2. Deserted' \subseteq Deserted /\ Unheard' \subseteq Unheard
      BY <3>1 DEF Deserted, Unheard
    <3> QED
      BY <2>0, <3>1, <3>2, DesertedStep
  <2>9. ASSUME NEW a \in Attempt, Expire(a) PROVE DesertedInv'
    <3>1. /\ faults' = faults + 1 /\ UNCHANGED <<pc, orphaned>>
          /\ \A b \in Attempt : b # a => ctx'[b] = ctx[b]
      BY <2>9 DEF Expire
    <3>2. /\ Deserted' \subseteq Deserted \cup {a}
          /\ Unheard' \subseteq Unheard \cup {a}
      BY <3>1 DEF Deserted, Unheard
    <3> QED
      BY <2>0, <3>1, <3>2, DesertedStep
  <2>10. ASSUME NEW r \in Replica, Crash(r) PROVE DesertedInv'
    <3>1. /\ faults' = faults + 1 /\ UNCHANGED ctx
          /\ \A a \in Attempt : pc'[a] \in {"idle", pc[a]}
          /\ orphaned' \subseteq orphaned
      BY <2>10 DEF Crash
    <3> QED
      BY <2>0, <2>1, <3>1
  <2> QED
    BY <2>2, <2>3, <2>5, <2>6, <2>7, <2>8, <2>9, <2>10, NextCases
       DEF Publish, VisibilityTimeout, Receive, Send, vars
<1>3. TypeOK /\ DesertedInv => LeaksAreBounded
  <2> SUFFICES ASSUME TypeOK, DesertedInv PROVE LeaksAreBounded
    OBVIOUS
  <2> DEFINE leaked == {a \in Attempt : pc[a] = "leaked"}
  <2>1. /\ leaked \subseteq Deserted /\ orphaned \subseteq Unheard
        /\ faults \in Nat
    BY PipelineAssumption DEF Deserted, Unheard, TypeOK
  <2>2. IsFiniteSet(Deserted) /\ IsFiniteSet(Unheard)
    <3>1. Deserted \subseteq Attempt /\ Unheard \subseteq Attempt
      BY DEF Deserted, Unheard, TypeOK
    <3> QED
      BY <3>1, PipelineAssumption, FS_Subset
  <2>3. Cardinality(leaked) <= faults
    BY <2>1, <2>2, CountedGrowth DEF DesertedInv
  <2>4. Cardinality(orphaned) <= faults
    BY <2>1, <2>2, CountedGrowth DEF DesertedInv
  <2> QED
    BY <2>3, <2>4 DEF LeaksAreBounded
<1> QED
  BY <1>1, <1>2, <1>3, TypeCorrect, PTL DEF Spec

\* Without faults, and in a set-up that announces at all, what is removed has
\* been announced once nothing is left to do, however the attempts overlapped.
THEOREM SettledIsNotified ==
    Spec => [](Announceable /\ faults = 0 /\ Quiescent => RemovedIsNotified)
<1>1. WriteInv /\ FaultInv
        => (Announceable /\ faults = 0 /\ Quiescent => RemovedIsNotified)
  <2> SUFFICES ASSUME WriteInv, FaultInv, Announceable, faults = 0, Quiescent,
                      NEW m \in Msg, queue[m] = "removed"
               PROVE  \E w \in kinesis : Covers(w, m)
    BY DEF RemovedIsNotified
  <2>1. PICK w \in neoWritten : Covers(w, m)
    BY DEF WriteInv, RemovedReachedGraph
  <2>2. w \in kinesis \/ \E a \in Attempt : Carries(a, w)
    BY DEF FaultInv, NothingLostWithoutFault
  <2>3. \A a \in Attempt : pc[a] \notin After4j
    BY DEF Quiescent, Idle, After4j
  <2> QED
    BY <2>1, <2>2, <2>3 DEF Carries
<1> QED
  BY <1>1, WriteInvariant, FaultInvariant, PTL

\* Deleting a message never forgets an update of the graph.
THEOREM NoUpdateForgotten == Spec => []RemovedReachedGraph
BY WriteInvariant, PTL DEF WriteInv

\* Consumers hear of an aggregate after the stores have it.
THEOREM NotificationsFollowStores == Spec => []NotifiedReachedStores
BY NotifyInvariant, PTL DEF NotifyInv

\* Without a fault, what Neo4j accepted is announced or about to be.
THEOREM NoLossWithoutFault == Spec => []NothingLostWithoutFault
BY FaultInvariant, PTL DEF FaultInv

\* An attempt that reports success wrote what it read to Neo4j.
THEOREM SuccessMeansWritten == Spec => []OkMeansWritten
<1>1. WriteInv => OkMeansWritten
  BY DEF WriteInv, OkMeansWritten
<1> QED
  BY <1>1, WriteInvariant, PTL

\* The pipeline implements UpdatePromise: each of its steps publishes, stores,
\* announces or settles as the promise allows, or changes nothing it speaks of.
THEOREM ImplementsPromise == Spec => PromiseSafety
<1>1. Init => Promise!Init
  BY DEF Init, Promise!Init, V0, Promise!V0
<1>2. TypeOK /\ ReadInv /\ WriteInv /\ WriteInv' /\ NotifyInv /\ [Next]_vars
        => [Promise!Next]_(Promise!vars)
  <2> DEFINE Settled == {m \in Msg : queue[m] = "removed"}
  <2> SUFFICES ASSUME TypeOK, ReadInv, WriteInv, WriteInv', NotifyInv,
                      [Next]_vars
               PROVE  [Promise!Next]_(Promise!vars)
    OBVIOUS
  <2>0. /\ Promise!View = View /\ Promise!Update = Msg
        /\ \A w, m : Promise!Covers(w, m) = Covers(w, m)
    BY DEF Promise!View, View, Promise!Update, Msg, Promise!Covers, Covers
  <2>s. ASSUME UNCHANGED <<s3, neoWritten, kinesis, queue>>
        PROVE  UNCHANGED Promise!vars
    BY <2>s DEF Promise!vars
  <2>1. ASSUME NEW s \in Source, Publish(s) PROVE Promise!Publish(s)
    <3>1. queue[<<s, s3[s] + 1>>] # "removed"
      BY <2>1, PipelineAssumption DEF Publish, ReadInv, TypeOK, Msg, View
    <3>2. Settled' = Settled
      BY <2>1, <3>1 DEF Publish, TypeOK
    <3> QED
      BY <2>1, <3>2 DEF Publish, Promise!Publish, stores
  <2>2. ASSUME NEW m \in Msg, VisibilityTimeout(m)
        PROVE  UNCHANGED Promise!vars
    BY <2>2 DEF VisibilityTimeout, Promise!vars, TypeOK, stores
  <2>3. ASSUME NEW a \in Attempt, NEW m \in Msg, Receive(a, m)
        PROVE  UNCHANGED Promise!vars
    BY <2>3 DEF Receive, Received, Promise!vars, TypeOK, stores
  <2>4. ASSUME NEW a \in Attempt, WriteNeo4j(a)
        PROVE  Promise!Store(view[a]) \/ UNCHANGED Promise!vars
    <3>1. neoWritten' = neoWritten \/ neoWritten' = neoWritten \cup {view[a]}
      BY <2>4 DEF WriteNeo4j, Outcome
    <3>2. UNCHANGED <<s3, kinesis, queue>>
      BY <2>4 DEF WriteNeo4j
    <3>3. \A s \in Source : view[a][s] <= s3[s]
      BY DEF ReadInv
    <3> QED
      BY <3>1, <3>2, <3>3, <2>s DEF Promise!Store
  <2>5. ASSUME NEW a \in Attempt, AddRecordToStream(a)
        PROVE  Promise!Announce(view[a]) \/ UNCHANGED Promise!vars
    <3>1. kinesis' = kinesis \/ kinesis' = kinesis \cup {view[a]}
      BY <2>5 DEF AddRecordToStream
    <3>2. view[a] \in neoWritten
      BY <2>5 DEF AddRecordToStream, WriteInv, After4j
    <3>3. UNCHANGED <<s3, neoWritten, queue>>
      BY <2>5 DEF AddRecordToStream
    <3> QED
      BY <3>1, <3>2, <3>3, <2>s DEF Promise!Announce
  <2>6. ASSUME NEW a \in Attempt, RemoveMessage(a)
        PROVE  \/ \E m \in Msg : Promise!Settle(m)
               \/ UNCHANGED Promise!vars
    <3>1. PICK m \in Msg : m = msg[a]
      BY <2>6 DEF RemoveMessage, TypeOK
    <3>2. queue' = queue \/ queue' = [queue EXCEPT ![m] = "removed"]
      BY <2>6, <3>1 DEF RemoveMessage
    <3>3. UNCHANGED <<s3, neoWritten, kinesis>>
      BY <2>6 DEF RemoveMessage, stores
    <3>4. CASE queue' = queue
      BY <3>3, <3>4, <2>s
    <3>5. CASE queue' = [queue EXCEPT ![m] = "removed"]
      <4>1. Settled' = Settled \cup {m}
        BY <3>5 DEF TypeOK
      <4>2. \E w \in neoWritten : Covers(w, m)
        BY <3>3, <3>5 DEF WriteInv, RemovedReachedGraph, TypeOK
      <4> QED
        BY <3>3, <4>1, <4>2, <2>0 DEF Promise!Settle
    <3> QED
      BY <3>2, <3>4, <3>5
  <2>7. ASSUME NEW a \in Attempt,
               \/ Send(a) \/ GetConcordance(a)
               \/ \E s \in Source : GetConcept(a, s)
               \/ Purge(a) \/ PurgeRelated(a) \/ WriteElastic(a)
               \/ PublishEvents(a) \/ Return(a) \/ Leak(a) \/ Expire(a)
               \/ GiveUpReading(a)
        PROVE  UNCHANGED Promise!vars
    BY <2>7, <2>s
       DEF Send, GetConcordance, GetConcept, Purge, PurgeRelated,
           SendToPurger, WriteElastic, PublishEvents, Return, Leak, Expire,
           GiveUpReading, stores
  <2>8. ASSUME NEW r \in Replica, Crash(r) PROVE UNCHANGED Promise!vars
    BY <2>8, <2>s DEF Crash, stores
  <2>9. CASE UNCHANGED vars
    BY <2>9, <2>s DEF vars, stores
  <2>10. \A a \in Attempt : view[a] \in View
    BY DEF TypeOK
  <2> QED
    BY <2>0, <2>1, <2>2, <2>3, <2>4, <2>5, <2>6, <2>7, <2>8, <2>9, <2>10,
       NextCases DEF Promise!Next
<1> QED
  BY <1>1, <1>2, TypeCorrect, ReadInvariant, WriteInvariant, NotifyInvariant,
     PTL DEF Spec, PromiseSafety, Promise!Spec

\* An attempt that goes on where it was keeps its reading.
LEMMA SameReading ==
    ASSUME NEW a \in Attempt, ReadPhase(a)' = ReadPhase(a),
           view'[a] = view[a], unread'[a] = unread[a]
    PROVE  UNCHANGED <<ReadPhase(a), Unread(a), Got(a)>>
BY DEF Unread, Got

\* The steps of one reader beside others that do nothing.
LEMMA ReaderBegins ==
    ASSUME NEW a \in Attempt, UNCHANGED s3,
           ReadPhase(a) = "idle", ReadPhase(a)' = "reading",
           Unread(a)' = Source, Got(a)' = Got(a),
           \A b \in Attempt : b # a =>
               UNCHANGED <<ReadPhase(b), Unread(b), Got(b)>>
    PROVE  Reads!Next
<1>1. Reads!Begin(a, Source)
  BY DEF Reads!Begin
<1> QED
  BY <1>1 DEF Reads!Next

LEMMA ReaderReads ==
    ASSUME NEW a \in Attempt, NEW s \in Source, UNCHANGED s3,
           ReadPhase(a) = "reading", s \in Unread(a),
           ReadPhase(a)' = IF Unread(a) = {s} THEN "read" ELSE "reading",
           Unread(a)' = Unread(a) \ {s},
           Got(a)' = Got(a) \cup {[uuid |-> s, version |-> s3[s]]},
           \A b \in Attempt : b # a =>
               UNCHANGED <<ReadPhase(b), Unread(b), Got(b)>>
    PROVE  Reads!Next
<1> DEFINE phase  == [b \in Attempt |-> ReadPhase(b)]
           to(end) == [b \in Attempt |-> IF b = a THEN end ELSE ReadPhase(b)]
<1>1. phase' = to(IF Unread(a) = {s} THEN "read" ELSE "reading")
  OBVIOUS
<1>2. to("reading") = phase /\ to("read") = [phase EXCEPT ![a] = "read"]
  OBVIOUS
<1>3. \/ phase' = phase
      \/ Unread(a) = {s} /\ phase' = [phase EXCEPT ![a] = "read"]
  BY <1>1, <1>2
<1>4. Reads!Read(a, s)
  <2>1. phase[a] = "reading"
    OBVIOUS
  <2> HIDE DEF phase
  <2> QED
    BY <2>1, <1>3 DEF Reads!Read, phase
<1> QED
  BY <1>4 DEF Reads!Next

\* A step that leaves the bucket alone, and of each attempt what it has read or
\* else the attempt without a reading, is a step of the readers that leave.
LEMMA ReadersLeave ==
    ASSUME UNCHANGED s3,
           \A a \in Attempt :
             \/ ReadPhase(a)' = "idle"
             \/ /\ ReadPhase(a)' = ReadPhase(a)
                /\ view'[a] = view[a] /\ unread'[a] = unread[a]
    PROVE  Reads!Next
<1> DEFINE left == {a \in Attempt : ReadPhase(a)' = "idle"}
<1>1. ASSUME NEW a \in left
      PROVE  ReadPhase(a)' = "idle" /\ Unread(a)' = {} /\ Got(a)' = {}
  BY <1>1 DEF Unread, Got
<1>2. ASSUME NEW a \in Attempt, a \notin left
      PROVE  UNCHANGED <<ReadPhase(a), Unread(a), Got(a)>>
  BY <1>2 DEF Unread, Got
<1>3. left \subseteq Attempt
  OBVIOUS
<1>4. Reads!Leave(left)
  <2> HIDE DEF left
  <2> QED
    BY <1>1, <1>2, <1>3 DEF Reads!Leave
<1> QED
  BY <1>3, <1>4 DEF Reads!Next

\* Each attempt reads the sources as SourceReads says, however many run at once.
THEOREM ImplementsReads == Spec => ReadsOwnSources
<1>1. Init => Reads!Init
  BY PipelineAssumption
     DEF Init, Reads!Init, ReadPhase, Unread, Got, V0, View, After4j
<1>2. TypeOK /\ [Next]_vars => [Reads!Next]_(Reads!vars)
  <2> SUFFICES ASSUME TypeOK, [Next]_vars PROVE [Reads!Next]_(Reads!vars)
    OBVIOUS
  <2> USE DEF TypeOK, GoTo
  <2>1. ASSUME UNCHANGED <<s3, view, unread>>,
               \A a \in Attempt : \/ pc'[a] = pc[a]
                                 \/ ReadPhase(a)' \in {"idle", ReadPhase(a)}
        PROVE  Reads!Next
    <3>1. \A a \in Attempt : pc'[a] = pc[a] => ReadPhase(a)' = ReadPhase(a)
      BY DEF ReadPhase
    <3> QED
      BY <2>1, <3>1, ReadersLeave
  <2>2. ASSUME NEW s \in Source, Publish(s) PROVE Reads!Next
    <3>1. s3[s] + 1 \in 0..MaxVersion
      BY <2>2, PipelineAssumption DEF Publish, View
    <3>2. \A a \in Attempt : UNCHANGED <<ReadPhase(a), Unread(a), Got(a)>>
      BY <2>2 DEF Publish, ReadPhase, Unread, Got
    <3>3. Reads!Change(s, s3[s] + 1)
      BY <2>2, <3>2 DEF Publish, Reads!Change
    <3> QED
      BY <3>1, <3>3 DEF Reads!Next
  <2>3. ASSUME NEW a \in Attempt, NEW m, Start(a, m), UNCHANGED s3
        PROVE  Reads!Next
    <3>1. ReadPhase(a)' = "idle"
      BY <2>3 DEF Start, ReadPhase, After4j
    <3>2. \A b \in Attempt \ {a} : /\ ReadPhase(b)' = ReadPhase(b)
                                   /\ view'[b] = view[b]
                                   /\ unread'[b] = unread[b]
      BY <2>3 DEF Start, ReadPhase
    <3> QED
      BY <2>3, <3>1, <3>2, ReadersLeave
  <2>4. ASSUME NEW a \in Attempt, GetConcordance(a) PROVE Reads!Next
    <3>1. PICK o \in {"ok", "failed"} : GetConcordance(a)!2!(o)
      BY <2>4 DEF GetConcordance
    <3>2. /\ pc[a] = "concord" /\ UNCHANGED <<s3, view>>
          /\ pc' = [pc EXCEPT ![a] = AfterConcordance(a, o)]
          /\ unread' = [unread EXCEPT ![a] = IF o = "ok" THEN Source ELSE {}]
      BY <2>4, <3>1 DEF GetConcordance
    <3>3. \A b \in Attempt \ {a} : /\ ReadPhase(b)' = ReadPhase(b)
                                   /\ view'[b] = view[b]
                                   /\ unread'[b] = unread[b]
      BY <3>2 DEF ReadPhase
    <3>4. CASE o = "ok"
      <4>1. /\ ReadPhase(a) = "idle" /\ ReadPhase(a)' = "reading"
            /\ Unread(a)' = Source /\ Got(a) = {} /\ Got(a)' = {}
        BY <3>2, <3>4 DEF AfterConcordance, ReadPhase, Unread, Got, After4j
      <4>2. \A b \in Attempt \ {a} :
               UNCHANGED <<ReadPhase(b), Unread(b), Got(b)>>
        BY <3>3, SameReading
      <4> QED
        BY <3>2, <4>1, <4>2, ReaderBegins
    <3>5. CASE o = "failed"
      <4>1. ReadPhase(a)' = "idle"
        BY <3>2, <3>5 DEF AfterConcordance, ReadPhase, After4j
      <4> QED
        BY <3>2, <3>3, <4>1, ReadersLeave
    <3> QED
      BY <3>4, <3>5
  <2>5. ASSUME NEW a \in Attempt, NEW s \in Source, GetConcept(a, s)
        PROVE  Reads!Next
    <3>1. PICK o \in {"ok", "failed"} : GetConcept(a, s)!2!(o)
      BY <2>5 DEF GetConcept
    <3>2. /\ pc[a] = "sources" /\ s \in unread[a] /\ UNCHANGED s3
          /\ ReadPhase(a) = "reading"
      <4>1. pc[a] = "sources" /\ s \in unread[a] /\ UNCHANGED s3
        BY <2>5 DEF GetConcept
      <4> QED
        BY <4>1 DEF ReadPhase, After4j
    <3>3. \A b \in Attempt \ {a} : /\ ReadPhase(b)' = ReadPhase(b)
                                   /\ view'[b] = view[b]
                                   /\ unread'[b] = unread[b]
      BY <3>1 DEF ReadPhase
    <3>4. CASE o = "failed"
      <4>1. ReadPhase(a)' = "idle"
        BY <3>1, <3>4 DEF ReadPhase, After4j
      <4> QED
        BY <3>2, <3>3, <4>1, ReadersLeave
    <3>5. CASE o = "ok"
      <4>1. /\ view'[a] = [view[a] EXCEPT ![s] = s3[s]]
            /\ unread'[a] = unread[a] \ {s}
            /\ pc'[a] = IF unread[a] = {s} THEN "neo4j" ELSE "sources"
        BY <3>1, <3>5 DEF VersionRead
      <4>2. /\ ReadPhase(a)' = IF unread[a] = {s} THEN "read" ELSE "reading"
            /\ Unread(a) = unread[a] /\ Unread(a)' = unread[a] \ {s}
        BY <3>2, <4>1 DEF ReadPhase, Unread
      <4>3. Got(a)' = Got(a) \cup {[uuid |-> s, version |-> s3[s]]}
        <5>1. Got(a) = {[uuid |-> u, version |-> view[a][u]] :
                           u \in Source \ unread[a]}
          BY <3>2 DEF Got
        <5>2. Got(a)' = {[uuid |-> u, version |-> view'[a][u]] :
                            u \in Source \ unread'[a]}
          BY <4>2 DEF Got
        <5>3. Source \ unread'[a] = (Source \ unread[a]) \cup {s}
          BY <4>1
        <5>4. /\ view'[a][s] = s3[s]
              /\ \A u \in Source \ unread[a] : view'[a][u] = view[a][u]
          BY <3>2, <4>1 DEF View
        <5> QED
          BY <5>1, <5>2, <5>3, <5>4
      <4>4. \A b \in Attempt \ {a} :
               UNCHANGED <<ReadPhase(b), Unread(b), Got(b)>>
        BY <3>3, SameReading
      <4> QED
        BY <3>2, <4>2, <4>3, <4>4, ReaderReads
    <3> QED
      BY <3>4, <3>5
  <2>6. ASSUME NEW a \in Attempt,
               \/ WriteNeo4j(a) \/ Purge(a) \/ PurgeRelated(a)
               \/ WriteElastic(a) \/ PublishEvents(a) \/ AddRecordToStream(a)
               \/ RemoveMessage(a)
        PROVE  Reads!Next
    <3>1. /\ pc[a] \in {"neo4j", "remove"} \cup After4j
          /\ pc'[a] \in {"remove", "replyOk", "replyErr"} \cup After4j
          /\ \A b \in Attempt : b # a => pc'[b] = pc[b]
          /\ UNCHANGED <<s3, view, unread>>
      BY <2>6
         DEF WriteNeo4j, AfterNeo4j, Purge, PurgeRelated, AfterPurge,
             SendToPurger, WriteElastic, AfterElastic, PublishEvents,
             AfterEvents, AddRecordToStream, RemoveMessage, Succeed, After4j,
             stores
    <3>2. ReadPhase(a)' \in {"idle", ReadPhase(a)}
      BY <3>1 DEF ReadPhase, After4j
    <3> QED
      BY <2>1, <3>1, <3>2
  <2>7. ASSUME NEW a \in Attempt, Return(a) \/ Leak(a) \/ GiveUpReading(a)
        PROVE  Reads!Next
    <3>1. ReadPhase(a)' = "idle"
      BY <2>7 DEF Return, Leak, GiveUpReading, ReadPhase, After4j
    <3> QED
      BY <2>1, <2>7, <3>1 DEF Return, Leak, GiveUpReading
  <2>8. ASSUME NEW r \in Replica, Crash(r) PROVE Reads!Next
    <3>1. \A a \in Attempt : pc'[a] = pc[a] \/ ReadPhase(a)' = "idle"
      BY <2>8 DEF Crash, ReadPhase, After4j
    <3> QED
      BY <2>1, <2>8, <3>1 DEF Crash
  <2>9. ASSUME UNCHANGED <<s3, pc, view, unread>> PROVE Reads!Next
    BY <2>1, <2>9
  <2> QED
    BY <2>2, <2>3, <2>4, <2>5, <2>6, <2>7, <2>8, <2>9, NextCases
       DEF VisibilityTimeout, Receive, Send, Expire, vars
<1> QED
  BY <1>1, <1>2, TypeCorrect, PTL DEF Spec, ReadsOwnSources, Reads!Spec

\* Neo4j never goes back to an older version of a source while no two attempts
\* have been under way at once.
THEOREM NoRegression == Spec => GraphNeverRegresses
<1>1. TypeOK /\ ReadInv /\ SerialInv /\ [Next]_vars
        => [~overlapped' => \A s \in Source : neo'[s] >= neo[s]]_vars
  <2> SUFFICES ASSUME TypeOK, ReadInv, SerialInv, [Next]_vars, ~overlapped',
                      NEW s \in Source
               PROVE  neo'[s] >= neo[s]
    OBVIOUS
  <2>1. CASE neo' = neo
    BY <2>1 DEF TypeOK, View
  <2>2. CASE \E a \in Attempt : WriteNeo4j(a)
    <3>1. PICK a \in Attempt : WriteNeo4j(a)
      BY <2>2
    <3>2. ~overlapped /\ pc[a] = "neo4j" /\ (neo' = neo \/ neo' = view[a])
      BY <3>1 DEF WriteNeo4j
    <3>3. neo[s] <= view[a][s]
      BY <3>2 DEF ReadInv, Built, SerialInv
    <3> QED
      BY <3>2, <3>3 DEF TypeOK, View
  <2> QED
    BY <2>1, <2>2, NextCases
       DEF Publish, VisibilityTimeout, Receive, Send, GetConcordance,
           GetConcept, Purge, PurgeRelated, SendToPurger, WriteElastic,
           PublishEvents, AddRecordToStream, RemoveMessage, Return, Leak,
           GiveUpReading, Expire, Crash, vars, stores
<1> QED
  BY <1>1, TypeCorrect, ReadInvariant, SerialInvariant, PTL
     DEF Spec, GraphNeverRegresses

\* Attempts that come one after the other leave Neo4j with the newest version of
\* every source once all is processed, whatever failed on the way.
THEOREM RetriesLeaveLatest == Spec => []RetriesReachLatest
<1>1. TypeOK /\ WriteInv /\ SerialInv => RetriesReachLatest
  <2> SUFFICES ASSUME TypeOK, WriteInv, SerialInv, Quiescent, ~overlapped
               PROVE  neo = s3
    BY DEF RetriesReachLatest
  <2>1. ASSUME NEW s \in Source PROVE neo[s] = s3[s]
    <3>1. neo[s] \in Nat /\ s3[s] \in 0..MaxVersion /\ neo[s] <= s3[s]
      BY PipelineAssumption DEF TypeOK, View, WriteInv
    <3>2. CASE s3[s] = 0
      BY <3>1, <3>2
    <3>3. CASE s3[s] # 0
      <4>1. <<s, s3[s]>> \in Msg
        BY <3>1, <3>3, PipelineAssumption DEF Msg
      <4>2. queue[<<s, s3[s]>>] = "removed"
        BY <3>1, <4>1 DEF SerialInv, Quiescent
      <4>3. PICK w \in neoWritten : w[s] >= s3[s]
        BY <4>1, <4>2 DEF WriteInv, RemovedReachedGraph, Covers
      <4>4. w[s] <= neo[s] /\ w[s] \in Nat
        BY PipelineAssumption DEF SerialInv, TypeOK, View
      <4> QED
        BY <3>1, <4>3, <4>4, PipelineAssumption
    <3> QED
      BY <3>2, <3>3
  <2> QED
    BY <2>1 DEF TypeOK, View
<1> QED
  BY <1>1, TypeCorrect, WriteInvariant, SerialInvariant, PTL

\* If they meet no fault either, they leave nothing behind the graph.
THEOREM SettledCurrent == Spec => []SettledIsCurrent
<1>1. TypeOK /\ SettleInv => SettledIsCurrent
  BY DEF SettledIsCurrent, SettleInv, BeforeIndexed, Quiescent, Idle, TypeOK
<1> QED
  BY <1>1, TypeCorrect, SettleInvariant, PTL
================================================================================
