------------------------- MODULE ListenerTiming_proofs -------------------------
(***************************************************************************)
(* What ListenerTiming guarantees for every number of workers, messages    *)
(* and requests, and for all wait times and timeouts that keep             *)
(* TimingAssumption.                                                       *)
(***************************************************************************)
EXTENDS ListenerTiming, Listener_proofs

\* The clocks only restrict Listener: whatever holds of it holds here.
THEOREM TimedImplementsListener == TimedSpec => Spec
<1>1. TimedInit => Init
  BY DEF TimedInit
<1>2. [TimedNext]_tvars => [Next]_vars
  BY DEF TimedNext, Proceed, Next, Accept, Answer, Probe, ProbeEnds, Tick, Kill,
         tvars
<1> QED
  BY <1>1, <1>2, PTL DEF TimedSpec, Spec

LEMMA ListenerFacts == TimedSpec => [](TypeOK /\ Inv)
BY TimedImplementsListener, TypeCorrect, Invariant, PTL

\* Every clock stays within its range.
THEOREM TimingTypeCorrect == TimedSpec => []TimingTypeOK
<1>1. TimedInit => TimingTypeOK
  <2>1. TimedInit => {probed, killed} \subseteq BOOLEAN
    BY DEF TimedInit
  <2> QED
    BY <2>1, TimingAssumption DEF TimedInit, TimingTypeOK, Closed, Grace
<1>2. TimingTypeOK /\ [TimedNext]_tvars => TimingTypeOK'
  <2> SUFFICES ASSUME TimingTypeOK, [TimedNext]_tvars PROVE TimingTypeOK'
    OBVIOUS
  <2> USE TimingAssumption DEF TimingTypeOK, Closed, Grace
  <2>1. ASSUME Proceed PROVE TimingTypeOK'
    <3>1. left' \in [Worker -> 0..WaitTime]
      BY <2>1 DEF Proceed, SetWorkerClocks, UpdateDeadline
    <3>2. hidden' \in [Msg -> 0..Visibility]
      BY <2>1 DEF Proceed, SetMessageClocks
    <3> QED
      BY <2>1, <3>1, <3>2 DEF Proceed
  <2>2. ASSUME NEW c \in Client, Accept(c) PROVE TimingTypeOK'
    BY <2>2 DEF Accept
  <2>3. ASSUME NEW c \in Client, Answer(c) PROVE TimingTypeOK'
    BY <2>3 DEF Answer
  <2>4. ASSUME Tick PROVE TimingTypeOK'
    BY <2>4 DEF Tick, Less
  <2>5. ASSUME Kill PROVE TimingTypeOK'
    BY <2>5 DEF Kill, clocks
  <2>6. CASE Probe \/ ProbeEnds
    BY <2>6 DEF Probe, ProbeEnds, clocks
  <2>7. CASE UNCHANGED tvars
    BY <2>7 DEF tvars, clocks
  <2> QED
    BY <2>1, <2>2, <2>3, <2>4, <2>5, <2>6, <2>7 DEF TimedNext
<1> QED
  BY <1>1, <1>2, PTL DEF TimedSpec

\* A message in a batch is hidden for longer than the batch can last, or has
\* been deleted: SQS shows it to nobody else.
HideInv ==
    /\ \A w \in Worker, m \in Msg : m \in batch[w] =>
         \/ queue[m] = "removed"
         \/ queue[m] = "hidden" /\ hidden[m] > left[w]
    /\ OneWorkerPerMessage

LEMMA HideInvariant == TimedSpec => []HideInv
<1>1. TimedInit => HideInv
  BY DEF TimedInit, Init, HideInv, OneWorkerPerMessage
<1>2. TypeOK /\ Inv /\ TimingTypeOK /\ HideInv /\ [TimedNext]_tvars => HideInv'
  <2> SUFFICES ASSUME TypeOK, Inv, TimingTypeOK, HideInv, [TimedNext]_tvars
               PROVE  HideInv'
    OBVIOUS
  <2> USE TimingAssumption, ListenerAssumption
      DEF TypeOK, TimingTypeOK, HideInv, OneWorkerPerMessage, SetWorkerClocks,
          SetMessageClocks, UpdateDeadline, MoveTo, At, Alive, vars, flags,
          polls, clocks
  <2>1. ASSUME Proceed PROVE HideInv'
    <3>1. ASSUME NEW w \in Worker, CheckShutdown(w) PROVE HideInv'
      BY <2>1, <3>1 DEF Proceed, CheckShutdown, Stops
    <3>2. ASSUME NEW w \in Worker, CheckHealth(w) PROVE HideInv'
      BY <2>1, <3>2 DEF Proceed, CheckHealth
    <3>3. ASSUME NEW w \in Worker, BeginPoll(w) PROVE HideInv'
      BY <2>1, <3>3 DEF Proceed, BeginPoll, Inv, BatchesDoNotOverlap
    <3>4. ASSUME NEW w \in Worker, EndPoll(w) PROVE HideInv'
      BY <2>1, <3>4 DEF Proceed, EndPoll, Notifications, AfterPoll
    <3>5. ASSUME NEW w \in Worker, EndWait(w) PROVE HideInv'
      BY <2>1, <3>5 DEF Proceed, EndWait, AllDone
    <3>6. ASSUME NEW w \in Worker, NEW m \in Msg, Finish(w, m) PROVE HideInv'
      BY <2>1, <3>6 DEF Proceed, Finish
    <3>7. ASSUME NEW w \in Worker, NEW m \in Msg, left[w] = 0, Deadline(w, m)
          PROVE  HideInv'
      BY <2>1, <3>7 DEF Proceed, Deadline, TimesOut
    <3>8. ASSUME NEW m \in Msg, LateEnd(m) PROVE HideInv'
      BY <2>1, <3>8 DEF Proceed, LateEnd
    <3>9. ASSUME NEW m \in Msg, hidden[m] = 0, VisibilityTimeout(m)
          PROVE  HideInv'
      BY <2>1, <3>9 DEF Proceed, VisibilityTimeout
    <3>10. ASSUME NEW r \in Request, RunHealthChecks(r) PROVE HideInv'
      BY <2>1, <3>10 DEF Proceed, RunHealthChecks
    <3>11. ASSUME NEW r \in Request, Feedback(r) PROVE HideInv'
      BY <2>1, <3>11 DEF Proceed, Feedback
    <3>12. ASSUME DependencyChanges PROVE HideInv'
      BY <2>1, <3>12 DEF Proceed, DependencyChanges
    <3>13. ASSUME Interrupt PROVE HideInv'
      BY <2>1, <3>13 DEF Proceed, Interrupt
    <3>14. ASSUME Done PROVE HideInv'
      BY <2>1, <3>14 DEF Proceed, Done
    <3>15. ASSUME WorkersStopped PROVE HideInv'
      BY <2>1, <3>15 DEF Proceed, WorkersStopped
    <3>16. ASSUME ShutdownReturns, Exit PROVE HideInv'
      BY <2>1, <3>16 DEF Proceed, Exit
    <3>17. ASSUME NEW r \in Request, HealthRequest(r) PROVE HideInv'
      BY <2>1, <3>17 DEF Proceed, HealthRequest
    <3> QED
      BY <2>1, <3>1, <3>2, <3>3, <3>4, <3>5, <3>6, <3>7, <3>8,
         <3>9, <3>10, <3>11, <3>12, <3>13, <3>14, <3>15, <3>16, <3>17
      DEF Proceed, WorkerStep
  <2>2. ASSUME NEW c \in Client, Accept(c) PROVE HideInv'
    BY <2>2 DEF Accept, Accepting, Serving
  <2>3. ASSUME NEW c \in Client, Answer(c) PROVE HideInv'
    BY <2>3 DEF Answer
  <2>4. ASSUME Tick PROVE HideInv'
    <3>1. \A w \in Worker : batch[w] # {} => left[w] > 0
      BY <2>4 DEF Tick, NothingDue, Waits, Inv, BatchesDoNotOverlap
    <3> QED
      BY <2>4, <3>1 DEF Tick, Less
  <2>5. ASSUME Kill PROVE HideInv'
    BY <2>5 DEF Kill
  <2>6. CASE Probe \/ ProbeEnds
    BY <2>6 DEF Probe, ProbeEnds, clocks
  <2>7. CASE UNCHANGED tvars
    BY <2>7 DEF tvars
  <2> QED
    BY <2>1, <2>2, <2>3, <2>4, <2>5, <2>6, <2>7 DEF TimedNext
<1> QED
  BY <1>1, <1>2, ListenerFacts, TimingTypeCorrect, PTL DEF TimedSpec

\* How long a worker can still take after the signal, by its place in the loop.
GraceInv ==
    /\ main \in {"serving", "interrupted"} => since = 0 /\ ~shutdown
    /\ main \in {"waiting", "closing", "exited"} => shutdown
    /\ shutdown => \A w \in Worker :
         /\ wpc[w] \in {"running", "healthy"} => since = 0
         /\ wpc[w] = "polling" => since + left[w] <= WaitTime
         /\ wpc[w] = "waiting" => since + left[w] <= WaitTime + HttpTimeout
         /\ wpc[w] = "loop" => since <= WaitTime + HttpTimeout
    /\ DrainedByGrace

LEMMA GraceInvariant == TimedSpec => []GraceInv
<1>1. TimedInit => GraceInv
  BY DEF TimedInit, Init, GraceInv, DrainedByGrace
<1>2. TypeOK /\ Inv /\ TimingTypeOK /\ GraceInv /\ [TimedNext]_tvars => GraceInv'
  <2> SUFFICES ASSUME TypeOK, Inv, TimingTypeOK, GraceInv, [TimedNext]_tvars
               PROVE  GraceInv'
    OBVIOUS
  <2> USE TimingAssumption, ListenerAssumption
      DEF TypeOK, TimingTypeOK, GraceInv, DrainedByGrace, RequestOpen, Closed,
          Grace, SetWorkerClocks, UpdateDeadline, MoveTo, At, Alive, vars, flags,
          polls, clocks
  <2>1. ASSUME Proceed PROVE GraceInv'
    <3>1. ASSUME NEW w \in Worker, CheckShutdown(w) PROVE GraceInv'
      BY <2>1, <3>1 DEF Proceed, CheckShutdown, Stops
    <3>2. ASSUME NEW w \in Worker, CheckHealth(w) PROVE GraceInv'
      BY <2>1, <3>2 DEF Proceed, CheckHealth
    <3>3. ASSUME NEW w \in Worker, BeginPoll(w) PROVE GraceInv'
      BY <2>1, <3>3 DEF Proceed, BeginPoll
    <3>4. ASSUME NEW w \in Worker, EndPoll(w) PROVE GraceInv'
      BY <2>1, <3>4 DEF Proceed, EndPoll, Notifications, AfterPoll
    <3>5. ASSUME NEW w \in Worker, EndWait(w) PROVE GraceInv'
      BY <2>1, <3>5 DEF Proceed, EndWait, AllDone
    <3>6. ASSUME NEW w \in Worker, NEW m \in Msg, Finish(w, m) PROVE GraceInv'
      BY <2>1, <3>6 DEF Proceed, Finish
    <3>7. ASSUME NEW w \in Worker, NEW m \in Msg, left[w] = 0, Deadline(w, m)
          PROVE  GraceInv'
      BY <2>1, <3>7 DEF Proceed, Deadline, TimesOut
    <3>8. ASSUME NEW m \in Msg, LateEnd(m) PROVE GraceInv'
      BY <2>1, <3>8 DEF Proceed, LateEnd
    <3>9. ASSUME NEW m \in Msg, hidden[m] = 0, VisibilityTimeout(m)
          PROVE  GraceInv'
      BY <2>1, <3>9 DEF Proceed, VisibilityTimeout
    <3>10. ASSUME NEW r \in Request, RunHealthChecks(r) PROVE GraceInv'
      BY <2>1, <3>10 DEF Proceed, RunHealthChecks
    <3>11. ASSUME NEW r \in Request, Feedback(r) PROVE GraceInv'
      BY <2>1, <3>11 DEF Proceed, Feedback
    <3>12. ASSUME DependencyChanges PROVE GraceInv'
      BY <2>1, <3>12 DEF Proceed, DependencyChanges
    <3>13. ASSUME Interrupt PROVE GraceInv'
      BY <2>1, <3>13 DEF Proceed, Interrupt
    <3>14. ASSUME Done PROVE GraceInv'
      BY <2>1, <3>14 DEF Proceed, Done
    <3>15. ASSUME WorkersStopped PROVE GraceInv'
      BY <2>1, <3>15 DEF Proceed, WorkersStopped
    <3>16. ASSUME ShutdownReturns, Exit PROVE GraceInv'
      BY <2>1, <3>16 DEF Proceed, Exit
    <3>17. ASSUME NEW r \in Request, HealthRequest(r) PROVE GraceInv'
      BY <2>1, <3>17 DEF Proceed, HealthRequest
    <3> QED
      BY <2>1, <3>1, <3>2, <3>3, <3>4, <3>5, <3>6, <3>7, <3>8,
         <3>9, <3>10, <3>11, <3>12, <3>13, <3>14, <3>15, <3>16, <3>17
      DEF Proceed, WorkerStep
  <2>2. ASSUME NEW c \in Client, Accept(c) PROVE GraceInv'
    BY <2>2 DEF Accept, Accepting, Serving
  <2>3. ASSUME NEW c \in Client, Answer(c) PROVE GraceInv'
    BY <2>3 DEF Answer
  <2>4. ASSUME Tick PROVE GraceInv'
    BY <2>4 DEF Tick, NothingDue, MainWaits, Waits, Less
  <2>5. ASSUME Kill PROVE GraceInv'
    <3>1. main \in {"waiting", "closing"} /\ shutdown
      BY <2>5 DEF Kill, NothingDue, MainWaits
    <3>2. AllStopped
      <4>1. SUFFICES ASSUME NEW w \in Worker, wpc[w] # "stopped" PROVE FALSE
        BY DEF AllStopped
      <4>2. since > WaitTime + HttpTimeout /\ Waits(w)
        BY <2>5 DEF Kill, NothingDue
      <4> QED
        BY <3>1, <4>1, <4>2 DEF Waits
    <3>3. main = "closing" /\ RequestOpen
      BY <2>5, <3>1, <3>2 DEF Kill, NothingDue, MainWaits, ShutdownReturns
    <3>4. \A w \in Worker : wpc[w] = "stopped" /\ batch[w] = {}
      BY <3>2 DEF AllStopped, Inv, BatchesDoNotOverlap
    <3> QED
      BY <2>5, <3>3, <3>4 DEF Kill
  <2>6. CASE Probe \/ ProbeEnds
    BY <2>6 DEF Probe, ProbeEnds, clocks
  <2>7. CASE UNCHANGED tvars
    BY <2>7 DEF tvars
  <2> QED
    BY <2>1, <2>2, <2>3, <2>4, <2>5, <2>6, <2>7 DEF TimedNext
<1> QED
  BY <1>1, <1>2, ListenerFacts, TimingTypeCorrect, PTL DEF TimedSpec

\* A request that is open when the server closes has less time left than
\* srv.Shutdown waits for it.
ExitInv ==
    /\ main = "closing" =>
         \A c \in Client : open[c] = Closed \/ open[c] < closing
    /\ ExitAnswersRequests

LEMMA ExitInvariant == TimedSpec => []ExitInv
<1>1. TimedInit => ExitInv
  BY DEF TimedInit, Init, ExitInv, ExitAnswersRequests
<1>2. TimingTypeOK /\ ExitInv /\ [TimedNext]_tvars => ExitInv'
  <2> SUFFICES ASSUME TimingTypeOK, ExitInv, [TimedNext]_tvars
               PROVE  ExitInv'
    OBVIOUS
  <2> USE TimingAssumption, ListenerAssumption
      DEF TimingTypeOK, ExitInv, ExitAnswersRequests, Closed, Alive, vars, clocks
  <2>1. ASSUME Proceed PROVE ExitInv'
    <3>1. ASSUME NEW w \in Worker, CheckShutdown(w) PROVE ExitInv'
      BY <2>1, <3>1 DEF Proceed, CheckShutdown, Stops
    <3>2. ASSUME NEW w \in Worker, CheckHealth(w) PROVE ExitInv'
      BY <2>1, <3>2 DEF Proceed, CheckHealth
    <3>3. ASSUME NEW w \in Worker, BeginPoll(w) PROVE ExitInv'
      BY <2>1, <3>3 DEF Proceed, BeginPoll
    <3>4. ASSUME NEW w \in Worker, EndPoll(w) PROVE ExitInv'
      BY <2>1, <3>4 DEF Proceed, EndPoll, Notifications, AfterPoll
    <3>5. ASSUME NEW w \in Worker, EndWait(w) PROVE ExitInv'
      BY <2>1, <3>5 DEF Proceed, EndWait, AllDone
    <3>6. ASSUME NEW w \in Worker, NEW m \in Msg, Finish(w, m) PROVE ExitInv'
      BY <2>1, <3>6 DEF Proceed, Finish
    <3>7. ASSUME NEW w \in Worker, NEW m \in Msg, left[w] = 0, Deadline(w, m)
          PROVE  ExitInv'
      BY <2>1, <3>7 DEF Proceed, Deadline, TimesOut
    <3>8. ASSUME NEW m \in Msg, LateEnd(m) PROVE ExitInv'
      BY <2>1, <3>8 DEF Proceed, LateEnd
    <3>9. ASSUME NEW m \in Msg, hidden[m] = 0, VisibilityTimeout(m)
          PROVE  ExitInv'
      BY <2>1, <3>9 DEF Proceed, VisibilityTimeout
    <3>10. ASSUME NEW r \in Request, RunHealthChecks(r) PROVE ExitInv'
      BY <2>1, <3>10 DEF Proceed, RunHealthChecks
    <3>11. ASSUME NEW r \in Request, Feedback(r) PROVE ExitInv'
      BY <2>1, <3>11 DEF Proceed, Feedback
    <3>12. ASSUME DependencyChanges PROVE ExitInv'
      BY <2>1, <3>12 DEF Proceed, DependencyChanges
    <3>13. ASSUME Interrupt PROVE ExitInv'
      BY <2>1, <3>13 DEF Proceed, Interrupt
    <3>14. ASSUME Done PROVE ExitInv'
      BY <2>1, <3>14 DEF Proceed, Done
    <3>15. ASSUME WorkersStopped PROVE ExitInv'
      BY <2>1, <3>15 DEF Proceed, WorkersStopped
    <3>16. ASSUME ShutdownReturns, Exit PROVE ExitInv'
      BY <2>1, <3>16 DEF Proceed, Exit, ShutdownReturns, RequestOpen
    <3>17. ASSUME NEW r \in Request, HealthRequest(r) PROVE ExitInv'
      BY <2>1, <3>17 DEF Proceed, HealthRequest
    <3> QED
      BY <2>1, <3>1, <3>2, <3>3, <3>4, <3>5, <3>6, <3>7, <3>8,
         <3>9, <3>10, <3>11, <3>12, <3>13, <3>14, <3>15, <3>16, <3>17
      DEF Proceed, WorkerStep
  <2>2. ASSUME NEW c \in Client, Accept(c) PROVE ExitInv'
    BY <2>2 DEF Accept, Accepting, Serving
  <2>3. ASSUME NEW c \in Client, Answer(c) PROVE ExitInv'
    BY <2>3 DEF Answer
  <2>4. ASSUME Tick PROVE ExitInv'
    BY <2>4 DEF Tick, NothingDue, MainWaits, Waits, Less
  <2>5. ASSUME Kill PROVE ExitInv'
    BY <2>5 DEF Kill
  <2>6. CASE Probe \/ ProbeEnds
    BY <2>6 DEF Probe, ProbeEnds, clocks
  <2>7. CASE UNCHANGED tvars
    BY <2>7 DEF tvars
  <2> QED
    BY <2>1, <2>2, <2>3, <2>4, <2>5, <2>6, <2>7 DEF TimedNext
<1> QED
  BY <1>1, <1>2, TimingTypeCorrect, PTL DEF TimedSpec

\* Two workers never wait for an update of the same message.
THEOREM OneWorker == TimedSpec => []OneWorkerPerMessage
BY HideInvariant, PTL DEF HideInv

\* A kill finds the workers drained and main waiting for an open request.
THEOREM KillFindsDrained == TimedSpec => []DrainedByGrace
BY GraceInvariant, PTL DEF GraceInv

\* One poll and one update after the signal every worker has stopped.
THEOREM WorkersStop == TimedSpec => []WorkersStopInTime
<1>1. TypeOK /\ TimingTypeOK /\ GraceInv => WorkersStopInTime
  <2> SUFFICES ASSUME TypeOK, TimingTypeOK, GraceInv,
                      since > WaitTime + HttpTimeout,
                      NEW w \in Worker
               PROVE  wpc[w] = "stopped"
    BY DEF WorkersStopInTime, AllStopped
  <2>1. shutdown /\ since # 0
    BY TimingAssumption DEF GraceInv, TypeOK, TimingTypeOK
  <2>2. /\ since \in Nat /\ left[w] \in Nat
        /\ WaitTime \in Nat /\ HttpTimeout \in Nat
    BY TimingAssumption DEF TimingTypeOK, Grace
  <2> QED
    BY <2>1, <2>2 DEF GraceInv, TypeOK
<1> QED
  BY <1>1, ListenerFacts, TimingTypeCorrect, GraceInvariant, PTL

\* An exit leaves no accepted request without an answer.
THEOREM ExitAnswers == TimedSpec => []ExitAnswersRequests
BY ExitInvariant, PTL DEF ExitInv
================================================================================
