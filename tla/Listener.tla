-------------------------------- MODULE Listener --------------------------------
(***************************************************************************)
(* One process of the aggregate-concept-transformer: the worker loops of   *)
(* ListenForNotifications, the systemHealth flags they read, the health    *)
(* requests that set one of the flags, and the shutdown sequence of main   *)
(* that sets the other and waits for the workers.                          *)
(*                                                                         *)
(* What an update does is UpdatePipeline; here it only takes time, ends    *)
(* with its message deleted or not, or hangs in a call until its deadline. *)
(* A worker waits for a whole batch; the goroutine of an update whose      *)
(* deadline passes loses its caller and may go on for a while (late).      *)
(***************************************************************************)
EXTENDS Naturals, FiniteSets

CONSTANTS
    Worker,      \* the ListenForNotifications goroutines
    Request,     \* /__health requests that can be served at a time
    Msg,         \* the messages of the queue
    Malformed,   \* those getNotificationsFromMessages skips
    MaxMessages  \* --messagesToProcess: most messages one poll returns

ASSUME ListenerAssumption ==
    /\ Malformed \subseteq Msg
    /\ MaxMessages \in Nat \ {0}

VARIABLES
    queue,     \* queue[m]: what SQS does with message m
    wpc,       \* wpc[w]: where worker w is in its loop
    batch,     \* batch[w]: the updates the WaitGroup of w still waits for
    late,      \* messages with a goroutine whose caller is gone
    healthy,   \* systemHealth.healthy
    shutdown,  \* systemHealth.shutdown
    req,       \* req[r]: whether health request r runs, or its verdict to send
    main,      \* where the action of main is
    sick,      \* some dependency fails its health check
    passed,    \* history: some health check has passed
    unhealthyPolls,  \* history: polls[w] begun since healthy became false
    shutdownPolls    \* history: polls[w] begun since shutdown became true

polls == <<unhealthyPolls, shutdownPolls>>
flags == <<healthy, shutdown, passed>>
vars == <<queue, wpc, batch, late, flags, req, main, sick, polls>>

TypeOK ==
    /\ queue \in [Msg -> {"visible", "hidden", "removed"}]
    /\ wpc \in [Worker -> {"loop", "running", "healthy", "polling",
                           "waiting", "stopped"}]
    /\ batch \in [Worker -> SUBSET (Msg \ Malformed)]
    /\ late \subseteq Msg
    /\ healthy \in BOOLEAN /\ shutdown \in BOOLEAN
    /\ req \in [Request -> {"none", "checking", "pass", "fail"}]
    /\ main \in {"serving", "interrupted", "waiting", "closing", "exited"}
    /\ sick \in BOOLEAN /\ passed \in BOOLEAN
    /\ unhealthyPolls \in [Worker -> Nat]
    /\ shutdownPolls \in [Worker -> Nat]

\* Mutant: the process starts as a healthy one.
HealthyFromStart == TRUE

\* The value NewService gives systemHealth.healthy.
HealthyAtStart == FALSE

Init ==
    /\ queue = [m \in Msg |-> "visible"]
    /\ wpc = [w \in Worker |-> "loop"]
    /\ batch = [w \in Worker |-> {}]
    /\ late = {}
    /\ healthy = HealthyAtStart /\ shutdown = FALSE
    /\ req = [r \in Request |-> "none"]
    /\ main = "serving"
    /\ sick \in BOOLEAN
    /\ passed = FALSE
    /\ unhealthyPolls = [w \in Worker |-> 0]
    /\ shutdownPolls = [w \in Worker |-> 0]

---------------------------------------------------------------------------------
(* Outside the process: the queue and the dependencies.                          *)

VisibilityTimeout(m) ==
    /\ queue[m] = "hidden"
    /\ queue' = [queue EXCEPT ![m] = "visible"]
    /\ UNCHANGED <<wpc, batch, late, flags, req, main, sick, polls>>

DependencyChanges ==
    /\ sick' = ~sick
    /\ UNCHANGED <<queue, wpc, batch, late, flags, req, main, polls>>

---------------------------------------------------------------------------------
(* The loop of a worker.  Once main has exited nothing of the process runs.      *)

Alive == main # "exited"
At(w, label) == Alive /\ wpc[w] = label
MoveTo(w, label) == wpc' = [wpc EXCEPT ![w] = label]

\* Mutant: a healthy worker does not look at the shutdown flag.
StopsUnlessHealthy == shutdown /\ ~healthy

\* What isShuttingDown returns to the worker.
Stops == shutdown

CheckShutdown(w) ==
    /\ At(w, "loop")
    /\ MoveTo(w, IF Stops THEN "stopped" ELSE "running")
    /\ UNCHANGED <<queue, batch, late, flags, req, main, sick, polls>>

CheckHealth(w) ==
    /\ At(w, "running")
    /\ MoveTo(w, IF healthy THEN "healthy" ELSE "loop")
    /\ UNCHANGED <<queue, batch, late, flags, req, main, sick, polls>>

BeginPoll(w) ==
    /\ At(w, "healthy")
    /\ MoveTo(w, "polling")
    /\ unhealthyPolls' = [unhealthyPolls EXCEPT ![w] =
                            IF healthy THEN 0 ELSE @ + 1]
    /\ shutdownPolls' = [shutdownPolls EXCEPT ![w] =
                            IF shutdown THEN @ + 1 ELSE 0]
    /\ UNCHANGED <<queue, batch, late, flags, req, main, sick>>

\* Mutant: the worker keeps polling until it gets a message.
AfterPollPersistent(b) == IF b = {} THEN "healthy" ELSE "waiting"

AfterPoll(b) == IF b = {} THEN "loop" ELSE "waiting"

\* Mutant: the WaitGroup counts the messages, not the notifications.
AllReceived(b) == b

\* The notifications among the messages b.
Notifications(b) == b \ Malformed

\* The long poll returns some visible messages, or none (none was visible,
\* or the call failed); a goroutine is started for each notification.
EndPoll(w) ==
    /\ At(w, "polling")
    /\ \E b \in SUBSET {m \in Msg : queue[m] = "visible"} :
         /\ Cardinality(b) <= MaxMessages
         /\ queue' = [m \in Msg |-> IF m \in b THEN "hidden" ELSE queue[m]]
         /\ batch' = [batch EXCEPT ![w] = Notifications(b)]
         /\ MoveTo(w, AfterPoll(Notifications(b)))
    /\ UNCHANGED <<late, flags, req, main, sick, polls>>

\* The goroutine of update m (a malformed message has none) sends its result to
\* processConceptUpdate; the message is deleted if all went well.
Finish(w, m) ==
    /\ Alive /\ m \in batch[w] /\ m \notin Malformed
    /\ \E deleted \in BOOLEAN :
         queue' = IF deleted THEN [queue EXCEPT ![m] = "removed"] ELSE queue
    /\ batch' = [batch EXCEPT ![w] = @ \ {m}]
    /\ UNCHANGED <<wpc, late, flags, req, main, sick, polls>>

\* Mutant: processConceptUpdate does not look at its context.
NoTimeout(w, m) == FALSE

\* A deadline is set when the goroutine is started, so it can always pass.
TimesOut(w, m) == m \in batch[w] /\ m \notin Malformed

\* processConceptUpdate returns at the deadline, whatever the goroutine does.
Deadline(w, m) ==
    /\ Alive /\ TimesOut(w, m)
    /\ batch' = [batch EXCEPT ![w] = @ \ {m}]
    /\ late' = late \cup {m}
    /\ UNCHANGED <<queue, wpc, flags, req, main, sick, polls>>

\* The call a late goroutine was in ends, perhaps after having deleted the
\* message; the goroutine then blocks for ever sending its result.
LateEnd(m) ==
    /\ Alive /\ m \in late
    /\ late' = late \ {m}
    /\ \E deleted \in BOOLEAN :
         queue' = IF deleted THEN [queue EXCEPT ![m] = "removed"] ELSE queue
    /\ UNCHANGED <<wpc, batch, flags, req, main, sick, polls>>

\* Mutant: the worker goes on when the first update of the batch is done.
AnyDone(w) == TRUE

\* wg.Wait() returns.
AllDone(w) == batch[w] = {}

EndWait(w) ==
    /\ At(w, "waiting") /\ AllDone(w)
    /\ MoveTo(w, "loop")
    /\ UNCHANGED <<queue, batch, late, flags, req, main, sick, polls>>

---------------------------------------------------------------------------------
(* Health requests and the goroutine of systemHealth.                            *)

Serving == main \in {"serving", "interrupted", "waiting"}

\* A GET of /__health.
HealthRequest(r) ==
    /\ Serving /\ req[r] = "none"
    /\ req' = [req EXCEPT ![r] = "checking"]
    /\ UNCHANGED <<queue, wpc, batch, late, flags, main, sick, polls>>

\* It has run the checks; its verdict is sent to the feedback channel.
RunHealthChecks(r) ==
    /\ Alive /\ req[r] = "checking"
    /\ req' = [req EXCEPT ![r] = IF sick THEN "fail" ELSE "pass"]
    /\ UNCHANGED <<queue, wpc, batch, late, flags, main, sick, polls>>

\* processChannel receives a verdict.
Feedback(r) ==
    /\ Alive /\ req[r] \in {"pass", "fail"}
    /\ healthy' = (req[r] = "pass")
    /\ passed' = (passed \/ req[r] = "pass")
    /\ unhealthyPolls' = IF healthy' = healthy THEN unhealthyPolls
                         ELSE [w \in Worker |-> 0]
    /\ req' = [req EXCEPT ![r] = "none"]
    /\ UNCHANGED <<queue, wpc, batch, late, shutdown, main, sick,
                   shutdownPolls>>

---------------------------------------------------------------------------------
(* The shutdown sequence of main.                                                *)

\* SIGINT or SIGTERM.  workerCancel, called next, stops nothing: the workers
\* take their context from context.Background().
Interrupt ==
    /\ main = "serving"
    /\ main' = "interrupted"
    /\ UNCHANGED <<queue, wpc, batch, late, flags, req, sick, polls>>

\* done <- struct{}{}: processChannel receives and sets the flag.
Done ==
    /\ main = "interrupted"
    /\ main' = "waiting"
    /\ shutdown' = TRUE
    /\ UNCHANGED <<queue, wpc, batch, late, healthy, passed, req, sick, polls>>

\* Mutant: main does not wait for the workers.
NoneRunning == TRUE

\* listenForNotificationsWG.Wait() returns.
AllStopped == \A w \in Worker : wpc[w] = "stopped"

WorkersStopped ==
    /\ main = "waiting" /\ AllStopped
    /\ main' = "closing"
    /\ UNCHANGED <<queue, wpc, batch, late, flags, req, sick, polls>>

\* srv.Shutdown returns when no request is left or its own deadline passes: a
\* health request may be cut off before its verdict is received.
Exit ==
    /\ main = "closing"
    /\ main' = "exited"
    /\ UNCHANGED <<queue, wpc, batch, late, flags, req, sick, polls>>

---------------------------------------------------------------------------------

WorkerStep(w) ==
    \/ CheckShutdown(w) \/ CheckHealth(w) \/ BeginPoll(w) \/ EndPoll(w)
    \/ EndWait(w)

Next ==
    \/ \E w \in Worker : WorkerStep(w)
    \/ \E w \in Worker, m \in Msg : Finish(w, m) \/ Deadline(w, m)
    \/ \E m \in Msg : LateEnd(m) \/ VisibilityTimeout(m)
    \/ \E r \in Request : HealthRequest(r) \/ RunHealthChecks(r) \/ Feedback(r)
    \/ DependencyChanges
    \/ Interrupt \/ Done \/ WorkersStopped \/ Exit

Spec == Init /\ [][Next]_vars

\* Goroutines are scheduled, long polls end (WaitTimeSeconds) and so do
\* deadlines.  Nothing is assumed of Finish: an update may hang in a call.
Fairness ==
    /\ \A w \in Worker : WF_vars(WorkerStep(w))
    /\ \A w \in Worker, m \in Msg : WF_vars(Deadline(w, m))
    /\ \A r \in Request : WF_vars(Feedback(r))
    /\ WF_vars(Done) /\ WF_vars(WorkersStopped) /\ WF_vars(Exit)

FairSpec == Spec /\ Fairness

---------------------------------------------------------------------------------
(* Properties.                                                                   *)

\* A worker that has read a flag may act on it once after it changed, never
\* twice: after shutdown is set, and after healthy is cleared, every worker
\* begins at most one more poll (isShuttingDown, isGood, then the poll).
OneStalePoll ==
    \A w \in Worker : shutdownPolls[w] <= 1 /\ unhealthyPolls[w] <= 1

\* "Set to false. Once health check passes app will read from SQS": no message
\* is taken from the queue before some health check has passed.
NoReadBeforeHealthy ==
    passed \/ \A m \in Msg : queue[m] = "visible"

\* When main goes on to close the HTTP server and exits, no worker polls or
\* waits any more and no update that is within its deadline is cut off.
ExitDrained ==
    main \in {"closing", "exited"} =>
        \A w \in Worker : wpc[w] = "stopped" /\ batch[w] = {}

\* A worker takes new messages only when every update of its last batch has
\* reported or timed out.
BatchesDoNotOverlap ==
    \A w \in Worker : wpc[w] # "waiting" => batch[w] = {}

\* A signal leads to the exit of the process, even if updates hang in calls
\* and whatever the health checks say.
InterruptLeadsToExit == (main = "interrupted") ~> (main = "exited")

\* As long as the process is healthy and not shutting down, every worker keeps
\* polling, even if every update hangs and messages cannot be read.
WorkersKeepPolling ==
    \A w \in Worker :
        <>[](healthy /\ main = "serving") => []<>(wpc[w] = "polling")

Among(labels) == {w \in Worker : wpc[w] \in labels}

\* The flags as gates the workers pass one after the other: shutdown is read
\* before "running", healthy before "healthy".
StopGate == INSTANCE Gate WITH
    OpenAtFirst <- TRUE, Reopens <- FALSE,
    open <- ~shutdown,
    cleared <- Among({"running", "healthy"}),
    busy <- Among({"polling", "waiting"})

HealthGate == INSTANCE Gate WITH
    OpenAtFirst <- FALSE, Reopens <- TRUE,
    open <- healthy,
    cleared <- Among({"healthy"}),
    busy <- Among({"polling", "waiting"})

\* A worker polls only if it has seen shutdown unset since its last poll and
\* its last batch; once set, shutdown stays set.
StopGateHolds == StopGate!Spec

\* A worker polls only if it has seen healthy set since its last poll and its
\* last batch, however often the health requests change it; the process starts
\* with healthy unset.
HealthGateHolds == HealthGate!Spec
=================================================================================
