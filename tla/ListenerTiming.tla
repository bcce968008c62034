---------------------------- MODULE ListenerTiming ----------------------------
(***************************************************************************)
(* Listener with its clocks: the wait time of a long poll, the deadline of *)
(* an update and of a concept request, the visibility timeout of a message *)
(* and the grace period Kubernetes grants after a signal.  main.go and the *)
(* deployment choose these five numbers apart from one another; here they  *)
(* are composed, together with the requests that the HTTP server accepts   *)
(* while main waits for its workers.                                       *)
(*                                                                         *)
(* Time is counted in units of some seconds.  A step that only computes    *)
(* takes no time: the clock waits for it, and for a deadline that has run  *)
(* out.  SQS is taken to end a long poll within its wait time.             *)
(***************************************************************************)
EXTENDS Listener

CONSTANTS
    Client,       \* the concept requests that can be open at a time
    WaitTime,     \* --waitTime: of a long poll, and of srv.Shutdown
    HttpTimeout,  \* --httpTimeout: of an update, and of a concept request
    Visibility    \* --visibilityTimeout: how long SQS hides a message

\* terminationGracePeriodSeconds of the deployment.
Grace == 2 * WaitTime

ASSUME TimingAssumption ==
    /\ {WaitTime, HttpTimeout, Visibility} \subseteq Nat \ {0}
    /\ HttpTimeout < WaitTime
    /\ HttpTimeout < Visibility

VARIABLES
    left,     \* left[w]: time left of the poll or of the batch of worker w
    hidden,   \* hidden[m]: time for which SQS goes on hiding message m
    open,     \* open[c]: time left of the concept request c, or Closed
    probed,   \* some request for /__gtg or for build information is open
    closing,  \* time left of srv.Shutdown
    since,    \* time since the signal
    killed    \* Kubernetes has killed the process

Closed == HttpTimeout + 1

clocks == <<left, hidden, open, closing, since>>
tvars == <<vars, clocks, probed, killed>>

TimingTypeOK ==
    /\ left \in [Worker -> 0..WaitTime]
    /\ hidden \in [Msg -> 0..Visibility]
    /\ open \in [Client -> 0..Closed]
    /\ closing \in 0..WaitTime
    /\ since \in 0..Grace
    /\ probed \in BOOLEAN /\ killed \in BOOLEAN

TimedInit ==
    /\ Init
    /\ left = [w \in Worker |-> 0]
    /\ hidden = [m \in Msg |-> 0]
    /\ open = [c \in Client |-> Closed]
    /\ closing = 0
    /\ since = 0
    /\ probed = FALSE /\ killed = FALSE

-------------------------------------------------------------------------------
(* The steps of the process.                                                   *)

\* Mutant: the updates get the idle timeout of the server as their deadline.
UpdateDeadlineIdle == WaitTime + HttpTimeout

UpdateDeadline == HttpTimeout

\* All updates of a batch are started at once, so one clock serves them all.
SetWorkerClocks ==
    left' = [w \in Worker |->
        CASE wpc'[w] = "polling" -> IF wpc[w] = "polling" THEN left[w]
                                    ELSE WaitTime
          [] wpc'[w] = "waiting" -> IF wpc[w] = "waiting" THEN left[w]
                                    ELSE UpdateDeadline
          [] OTHER               -> 0]

\* A message is hidden from the moment it is received.
SetMessageClocks ==
    hidden' = [m \in Msg |->
        CASE queue'[m] # "hidden" -> 0
          [] queue[m] = "visible" -> Visibility
          [] OTHER                -> hidden[m]]

\* The requests srv.Shutdown waits for: those for concepts and those for
\* /__health, /__gtg and build information.
RequestOpen ==
    \/ \E c \in Client : open[c] # Closed
    \/ \E r \in Request : req[r] # "none"
    \/ probed

\* srv.Shutdown returns when the last request is answered, or at its deadline.
ShutdownReturns == closing = 0 \/ ~RequestOpen

\* A step of Listener, a timeout only when its clock has run out.
Proceed ==
    /\ ~killed
    /\ \/ \E w \in Worker : WorkerStep(w)
       \/ \E w \in Worker, m \in Msg : Finish(w, m)
       \/ \E w \in Worker, m \in Msg : left[w] = 0 /\ Deadline(w, m)
       \/ \E m \in Msg : LateEnd(m)
       \/ \E m \in Msg : hidden[m] = 0 /\ VisibilityTimeout(m)
       \/ \E r \in Request :
            HealthRequest(r) \/ RunHealthChecks(r) \/ Feedback(r)
       \/ DependencyChanges
       \/ Interrupt \/ Done \/ WorkersStopped
       \/ ShutdownReturns /\ Exit
    /\ SetWorkerClocks /\ SetMessageClocks
    /\ closing' = IF main' = "closing" /\ main # "closing" THEN WaitTime
                  ELSE closing
    /\ UNCHANGED <<open, since, probed, killed>>

-------------------------------------------------------------------------------
(* Requests beside /__health: GET /concept/{uuid}, POST /concept/{uuid}/send,  *)
(* and the administrative ones.                                                *)

\* Mutant: requests are accepted until the process is gone.
AcceptingAlways == Alive

\* srv.Shutdown closes the listener first.
Accepting == Serving

Accept(c) ==
    /\ ~killed /\ Accepting /\ open[c] = Closed
    /\ open' = [open EXCEPT ![c] = HttpTimeout]
    /\ UNCHANGED <<vars, left, hidden, closing, since, probed, killed>>

\* The handler answers, at its deadline at the latest.
Answer(c) ==
    /\ ~killed /\ Alive /\ open[c] # Closed
    /\ open' = [open EXCEPT ![c] = Closed]
    /\ UNCHANGED <<vars, left, hidden, closing, since, probed, killed>>

\* GET /__gtg runs the health checks too, without a deadline of its own.
Probe ==
    /\ ~killed /\ Accepting /\ ~probed
    /\ probed' = TRUE
    /\ UNCHANGED <<vars, clocks, killed>>

ProbeEnds ==
    /\ ~killed /\ Alive /\ probed
    /\ probed' = FALSE
    /\ UNCHANGED <<vars, clocks, killed>>

-------------------------------------------------------------------------------
(* Time.                                                                       *)

\* What worker w does takes time: it waits, or spins until it is healthy.
Waits(w) ==
    \/ wpc[w] = "polling" /\ left[w] > 0
    \/ wpc[w] = "waiting" /\ left[w] > 0 /\ batch[w] # {}
    \/ wpc[w] = "loop" /\ ~shutdown /\ ~healthy
    \/ wpc[w] = "stopped"

MainWaits ==
    \/ main = "serving"
    \/ main = "waiting" /\ ~AllStopped
    \/ main = "closing" /\ ~ShutdownReturns

\* Nothing is due: no computation, no deadline of a request.
NothingDue ==
    /\ MainWaits
    /\ \A w \in Worker : Waits(w)
    /\ \A c \in Client : open[c] # 0

Less(t) == IF t > 0 THEN t - 1 ELSE 0

Tick ==
    /\ ~killed /\ since < Grace /\ NothingDue
    /\ left' = [w \in Worker |-> Less(left[w])]
    /\ hidden' = [m \in Msg |-> Less(hidden[m])]
    /\ open' = [c \in Client |-> IF open[c] = Closed THEN Closed
                                ELSE Less(open[c])]
    /\ closing' = Less(closing)
    /\ since' = IF main = "serving" THEN 0 ELSE since + 1
    /\ UNCHANGED <<vars, probed, killed>>

\* The grace period is over: SIGKILL.
Kill ==
    /\ ~killed /\ since = Grace /\ NothingDue
    /\ killed' = TRUE
    /\ UNCHANGED <<vars, clocks, probed>>

-------------------------------------------------------------------------------

TimedNext ==
    \/ Proceed
    \/ \E c \in Client : Accept(c) \/ Answer(c)
    \/ Probe \/ ProbeEnds
    \/ Tick \/ Kill

TimedSpec == TimedInit /\ [][TimedNext]_tvars

-------------------------------------------------------------------------------
(* Properties.                                                                 *)

\* Two workers of a process never wait for an update of the same message: an
\* update reports or times out before SQS shows its message again.
OneWorkerPerMessage ==
    \A v, w \in Worker : v # w => batch[v] \cap batch[w] = {}

\* Kubernetes kills the process only when its workers have stopped with nothing
\* to wait for and main waits in srv.Shutdown for a request, of whatever kind:
\* the one more poll a worker may begin after the signal and the updates it
\* brings fit the grace period.
DrainedByGrace ==
    killed =>
        /\ \A w \in Worker : wpc[w] = "stopped" /\ batch[w] = {}
        /\ main = "closing" /\ RequestOpen

\* A worker stops within the wait time of one poll and the deadline of one
\* update after the signal, whatever it was doing when the signal came.
WorkersStopInTime == since > WaitTime + HttpTimeout => AllStopped

\* main exits only when every concept request it accepted has been answered.
ExitAnswersRequests ==
    main = "exited" => \A c \in Client : open[c] = Closed

===============================================================================
