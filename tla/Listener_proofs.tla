---------------------------- MODULE Listener_proofs ----------------------------
(***************************************************************************)
(* What Listener guarantees for every number of workers, requests and      *)
(* messages.                                                               *)
(***************************************************************************)
EXTENDS Listener, TLAPS

\* Every variable keeps its type, and no batch holds a malformed message.
THEOREM TypeCorrect == Spec => []TypeOK
<1>1. Init => TypeOK
  <2> SUFFICES ASSUME Init PROVE TypeOK
    OBVIOUS
  <2>1. {healthy, shutdown, sick, passed} \subseteq BOOLEAN
    BY Zenon DEF Init, HealthyAtStart
  <2> QED
    BY <2>1 DEF Init, TypeOK
<1>2. TypeOK /\ [Next]_vars => TypeOK'
  <2> SUFFICES ASSUME TypeOK, [Next]_vars PROVE TypeOK'
    OBVIOUS
  <2> USE ListenerAssumption DEF TypeOK, MoveTo, At, flags, polls
  <2>1. ASSUME NEW w \in Worker, CheckShutdown(w) PROVE TypeOK'
    BY <2>1 DEF CheckShutdown, Stops
  <2>2. ASSUME NEW w \in Worker, CheckHealth(w) PROVE TypeOK'
    BY <2>2 DEF CheckHealth
  <2>3. ASSUME NEW w \in Worker, BeginPoll(w) PROVE TypeOK'
    BY <2>3 DEF BeginPoll
  <2>4. ASSUME NEW w \in Worker, EndPoll(w) PROVE TypeOK'
    BY <2>4 DEF EndPoll, Notifications, AfterPoll
  <2>5. ASSUME NEW w \in Worker, EndWait(w) PROVE TypeOK'
    BY <2>5 DEF EndWait, AllDone
  <2>6. ASSUME NEW w \in Worker, NEW m \in Msg, Finish(w, m) PROVE TypeOK'
    BY <2>6 DEF Finish
  <2>7. ASSUME NEW w \in Worker, NEW m \in Msg, Deadline(w, m) PROVE TypeOK'
    BY <2>7 DEF Deadline, TimesOut
  <2>8. ASSUME NEW m \in Msg, LateEnd(m) PROVE TypeOK'
    BY <2>8 DEF LateEnd
  <2>9. ASSUME NEW m \in Msg, VisibilityTimeout(m) PROVE TypeOK'
    BY <2>9 DEF VisibilityTimeout
  <2>10. ASSUME NEW r \in Request, RunHealthChecks(r) PROVE TypeOK'
    BY <2>10 DEF RunHealthChecks
  <2>11. ASSUME NEW r \in Request, Feedback(r) PROVE TypeOK'
    BY <2>11 DEF Feedback
  <2>12. CASE DependencyChanges
    BY <2>12 DEF DependencyChanges
  <2>13. CASE Interrupt
    BY <2>13 DEF Interrupt
  <2>14. CASE Done
    BY <2>14 DEF Done
  <2>15. CASE WorkersStopped
    BY <2>15 DEF WorkersStopped, AllStopped
  <2>16. CASE Exit
    BY <2>16 DEF Exit
  <2>17. ASSUME NEW r \in Request, HealthRequest(r) PROVE TypeOK'
    BY <2>17 DEF HealthRequest
  <2>18. CASE UNCHANGED vars
    BY <2>18 DEF vars
  <2> QED
    BY <2>1, <2>2, <2>3, <2>4, <2>5, <2>6, <2>7, <2>8, <2>9, <2>10,
       <2>11, <2>12, <2>13, <2>14, <2>15, <2>16, <2>17, <2>18
    DEF Next, WorkerStep
<1> QED
  BY <1>1, <1>2, PTL DEF Spec

\* The inductive invariant: what a worker may still do after a flag changed
\* depends on whether it has read the flag since, which its place in the loop
\* tells.
Inv ==
    /\ \A w \in Worker :
         /\ ~shutdown => shutdownPolls[w] = 0
         /\ healthy => unhealthyPolls[w] = 0
         /\ wpc[w] = "healthy" => shutdownPolls[w] = 0 /\ unhealthyPolls[w] = 0
         /\ wpc[w] = "running" => shutdownPolls[w] = 0
    /\ healthy => passed
    /\ \A w \in Worker :
         ~passed => wpc[w] \notin {"healthy", "polling", "waiting"}
    /\ ~passed => late = {}
    /\ main \in {"closing", "exited"} => AllStopped
    /\ OneStalePoll
    /\ NoReadBeforeHealthy
    /\ BatchesDoNotOverlap

LEMMA Invariant == Spec => []Inv
<1>1. Init => Inv
  BY DEF Init, Inv, HealthyAtStart, OneStalePoll, NoReadBeforeHealthy,
         BatchesDoNotOverlap
<1>2. TypeOK /\ Inv /\ [Next]_vars => Inv'
  <2> SUFFICES ASSUME TypeOK, Inv, [Next]_vars PROVE Inv'
    OBVIOUS
  <2> USE ListenerAssumption DEF TypeOK, Inv, OneStalePoll, NoReadBeforeHealthy,
      BatchesDoNotOverlap, AllStopped, MoveTo, At, Alive, flags, polls
  <2>1. ASSUME NEW w \in Worker, CheckShutdown(w) PROVE Inv'
    BY <2>1 DEF CheckShutdown, Stops
  <2>2. ASSUME NEW w \in Worker, CheckHealth(w) PROVE Inv'
    BY <2>2 DEF CheckHealth
  <2>3. ASSUME NEW w \in Worker, BeginPoll(w) PROVE Inv'
    BY <2>3 DEF BeginPoll
  <2>4. ASSUME NEW w \in Worker, EndPoll(w) PROVE Inv'
    BY <2>4 DEF EndPoll, Notifications, AfterPoll
  <2>5. ASSUME NEW w \in Worker, EndWait(w) PROVE Inv'
    BY <2>5 DEF EndWait, AllDone
  <2>6. ASSUME NEW w \in Worker, NEW m \in Msg, Finish(w, m) PROVE Inv'
    BY <2>6 DEF Finish
  <2>7. ASSUME NEW w \in Worker, NEW m \in Msg, Deadline(w, m) PROVE Inv'
    BY <2>7 DEF Deadline, TimesOut
  <2>8. ASSUME NEW m \in Msg, LateEnd(m) PROVE Inv'
    BY <2>8 DEF LateEnd
  <2>9. ASSUME NEW m \in Msg, VisibilityTimeout(m) PROVE Inv'
    BY <2>9 DEF VisibilityTimeout
  <2>10. ASSUME NEW r \in Request, RunHealthChecks(r) PROVE Inv'
    BY <2>10 DEF RunHealthChecks
  <2>11. ASSUME NEW r \in Request, Feedback(r) PROVE Inv'
    BY <2>11 DEF Feedback
  <2>12. CASE DependencyChanges
    BY <2>12 DEF DependencyChanges
  <2>13. CASE Interrupt
    BY <2>13 DEF Interrupt
  <2>14. CASE Done
    BY <2>14 DEF Done
  <2>15. CASE WorkersStopped
    BY <2>15 DEF WorkersStopped, AllStopped
  <2>16. CASE Exit
    BY <2>16 DEF Exit
  <2>17. ASSUME NEW r \in Request, HealthRequest(r) PROVE Inv'
    BY <2>17 DEF HealthRequest
  <2>18. CASE UNCHANGED vars
    BY <2>18 DEF vars
  <2> QED
    BY <2>1, <2>2, <2>3, <2>4, <2>5, <2>6, <2>7, <2>8, <2>9, <2>10,
       <2>11, <2>12, <2>13, <2>14, <2>15, <2>16, <2>17, <2>18
    DEF Next, WorkerStep
<1> QED
  BY <1>1, <1>2, TypeCorrect, PTL DEF Spec

\* After a flag turned against it, a worker polls at most once more.
THEOREM StalePollOnce == Spec => []OneStalePoll
BY Invariant, PTL DEF Inv

\* Nothing is read from the queue before a health check has passed.
THEOREM HealthBeforeRead == Spec => []NoReadBeforeHealthy
BY Invariant, PTL DEF Inv

\* A worker never mixes two batches.
THEOREM OneBatchAtATime == Spec => []BatchesDoNotOverlap
BY Invariant, PTL DEF Inv

\* The process exits only when its workers have stopped with nothing to wait for.
THEOREM ExitIsDrained == Spec => []ExitDrained
<1>1. Inv => ExitDrained
  BY DEF Inv, ExitDrained, AllStopped, BatchesDoNotOverlap
<1> QED
  BY <1>1, Invariant, PTL

\* shutdown is a gate: what a worker has read of it lets it begin one poll.
THEOREM ObeysStopGate == Spec => StopGateHolds
<1>1. Init => StopGate!Init
  BY DEF Init, StopGate!Init, Among
<1>2. TypeOK /\ [Next]_vars => [StopGate!Next]_(StopGate!vars)
  <2> SUFFICES ASSUME TypeOK, [Next]_vars
               PROVE  [StopGate!Next]_(StopGate!vars)
    OBVIOUS
  <2> USE DEF TypeOK, MoveTo, At, Among, flags, StopGate!vars
  <2>1. ASSUME NEW w \in Worker, CheckShutdown(w)
        PROVE  StopGate!Pass(w) \/ UNCHANGED StopGate!vars
    BY <2>1 DEF CheckShutdown, Stops, StopGate!Pass
  <2>2. ASSUME NEW w \in Worker, CheckHealth(w)
        PROVE  StopGate!TurnBack(w) \/ UNCHANGED StopGate!vars
    BY <2>2 DEF CheckHealth, StopGate!TurnBack
  <2>3. ASSUME NEW w \in Worker, BeginPoll(w) PROVE StopGate!Begin(w)
    BY <2>3 DEF BeginPoll, StopGate!Begin
  <2>4. ASSUME NEW w \in Worker, EndPoll(w)
        PROVE  StopGate!End(w) \/ UNCHANGED StopGate!vars
    BY <2>4 DEF EndPoll, AfterPoll, StopGate!End
  <2>5. ASSUME NEW w \in Worker, EndWait(w) PROVE StopGate!End(w)
    BY <2>5 DEF EndWait, StopGate!End
  <2>6. CASE Done
    BY <2>6 DEF Done, StopGate!Close, StopGate!Next
  <2>7. ASSUME UNCHANGED <<wpc, shutdown>> PROVE UNCHANGED StopGate!vars
    BY <2>7
  <2> QED
    BY <2>1, <2>2, <2>3, <2>4, <2>5, <2>6, <2>7
       DEF Next, WorkerStep, StopGate!Next, Finish, Deadline, LateEnd,
           VisibilityTimeout, HealthRequest, RunHealthChecks, Feedback,
           DependencyChanges, Interrupt, WorkersStopped, Exit, vars
<1> QED
  BY <1>1, <1>2, TypeCorrect, PTL DEF Spec, StopGateHolds, StopGate!Spec

\* healthy is a gate too, one that the health requests open and close.
THEOREM ObeysHealthGate == Spec => HealthGateHolds
<1>1. Init => HealthGate!Init
  BY DEF Init, HealthyAtStart, HealthGate!Init, Among
<1>2. TypeOK /\ [Next]_vars => [HealthGate!Next]_(HealthGate!vars)
  <2> SUFFICES ASSUME TypeOK, [Next]_vars
               PROVE  [HealthGate!Next]_(HealthGate!vars)
    OBVIOUS
  <2> USE DEF TypeOK, MoveTo, At, Among, flags, HealthGate!vars
  <2>1. ASSUME NEW w \in Worker, CheckShutdown(w)
        PROVE  UNCHANGED HealthGate!vars
    BY <2>1 DEF CheckShutdown
  <2>2. ASSUME NEW w \in Worker, CheckHealth(w)
        PROVE  HealthGate!Pass(w) \/ UNCHANGED HealthGate!vars
    BY <2>2 DEF CheckHealth, HealthGate!Pass
  <2>3. ASSUME NEW w \in Worker, BeginPoll(w) PROVE HealthGate!Begin(w)
    BY <2>3 DEF BeginPoll, HealthGate!Begin
  <2>4. ASSUME NEW w \in Worker, EndPoll(w)
        PROVE  HealthGate!End(w) \/ UNCHANGED HealthGate!vars
    BY <2>4 DEF EndPoll, AfterPoll, HealthGate!End
  <2>5. ASSUME NEW w \in Worker, EndWait(w) PROVE HealthGate!End(w)
    BY <2>5 DEF EndWait, HealthGate!End
  <2>6. ASSUME NEW r \in Request, Feedback(r)
        PROVE  HealthGate!Open \/ HealthGate!Close
    BY <2>6 DEF Feedback, HealthGate!Open, HealthGate!Close
  <2>7. ASSUME UNCHANGED <<wpc, healthy>> PROVE UNCHANGED HealthGate!vars
    BY <2>7
  <2> QED
    BY <2>1, <2>2, <2>3, <2>4, <2>5, <2>6, <2>7
       DEF Next, WorkerStep, HealthGate!Next, Finish, Deadline, LateEnd,
           VisibilityTimeout, HealthRequest, RunHealthChecks, Done,
           DependencyChanges, Interrupt, WorkersStopped, Exit, vars
<1> QED
  BY <1>1, <1>2, TypeCorrect, PTL DEF Spec, HealthGateHolds, HealthGate!Spec
================================================================================
