# A TLA+ model of the aggregate-concept-transformer

The service is told through SQS that a source concept in an S3 bucket has
changed. It asks a concordance service which concepts are the same one, fetches
them all from S3, merges them into one canonical concept, writes it to Neo4j and
Elasticsearch, purges Varnish, and announces the change on SNS and Kinesis. This
directory specifies what it does, checks it with TLC on small instances, and
proves the safety properties with TLAPS for all instances.

Line numbers refer to the repository: `service.go` and `handlers.go` are in
`src/concept/`, the other files are named with their directory below `src/`.

## The system

| Part | State | Operations | Modelled in |
| --- | --- | --- | --- |
| Update of a concept (`ProcessMessage`, `processConceptUpdate`, service.go 194-314) | a context with a deadline, a result channel, the aggregate; nothing is persisted | read concordances and sources, then Neo4j, Varnish, Elasticsearch, SNS, Kinesis, delete the message | `UpdatePipeline` |
| Aggregation (`getConcordedConcept`, `bucketConcordances`, 316-466; `s3/client.go`; `concordances/client.go`) | the map of groups, the sources so far, the transaction id | group, fetch, choose the primary concept | `Aggregation`; the names of objects in `Notifications` |
| Workers (`ListenForNotifications`, 152-192) | place in the loop, the batch of the WaitGroup | poll, start one goroutine per notification, wait | `Listener`, with time `ListenerTiming` |
| SQS client (`sqs/client.go`) | none | receive, take a batch apart, name the updates, delete | `Notifications` |
| Health gate (`systemHealth`, 48-85) | `healthy`, `shutdown` | receive a verdict, receive the done signal | `Listener` |
| Start and shutdown (`main.go` 265-349) | WaitGroup of the workers | signal, done, wait, close the server, exit | `Listener`, with time `ListenerTiming` |
| HTTP API (`handlers.go`) | one goroutine and channel per request | `GET /concept/{uuid}`, `POST /concept/{uuid}/send`, `/__health` | POST in `UpdatePipeline`, health in `Listener`, GET in `Notifications`, open requests of every kind in `ListenerTiming` |
| Writers and purger (`sendToWriter`, `sendToPurger`, 506-594) | none | PUT, POST | `UpdatePipeline` |
| SNS, Kinesis (`sns/client.go`, `kinesis/client.go`) | none | publish a batch, put a record | `UpdatePipeline` |

Parts interact in three ways. Goroutines of one process share only the two
flags, under a lock, and each waits for its own children over a channel or a
WaitGroup. Attempts at the same concept, in one batch, in several workers or in
several replicas (the deployment runs two), meet only in the outside stores: no
lock, version or conditional write relates them. And time: a deadline of 15 s
per attempt and request, a long poll of 20 s, a visibility timeout of 30 s, a
deadline of 20 s for closing the server and a grace period of 40 s come from
four options and the deployment.

What is hard here, and what the properties are for (PROJECT.json lists every
hazard at its line):

- **Partial failure and redelivery.** Six calls change six systems without a
  transaction. The only recovery is the message, and on redelivery the answer
  of Neo4j decides whether the later calls happen again (service.go 256).
- **Concurrent attempts.** What was read first may be written last.
- **Timeouts racing late answers.** `processConceptUpdate` returns at the
  deadline while its goroutine is still inside a call, which may yet take
  effect; the goroutine then blocks for ever on its unbuffered channel, and so
  does the one that was reading the sources for it.
- **Check-then-act on the flags**, a batch that waits for its slowest update,
  and a shutdown that waits for every batch.
- **Map iteration order and objects that change while they are fetched.**
- **Names made in one place and taken apart in another**: the key of an object
  becomes the name of an update, and publication, UUID and bucket are found in
  that name again, by a UUID pattern or by the first `-`.
- **A batch of messages some of which cannot be read.**

What makes each part correct: a message is deleted only when the graph has its
version; nobody is told of what the stores do not have; without a fault nothing
is forgotten; everything published is processed in the end (update). One member
per record, the right primary one, no stale member and none missing that was
there all the time, a traceable transaction id (aggregation). No read before a
health check passed, at most one more poll after a flag turned, no overlapping
batches, an exit that cuts off no update and always comes (listener and
shutdown), within the grace period (timing). The object read is the object
named, and an unreadable message costs only itself (notifications).

## The modules

- `UpdatePromise`: the abstract specification. Sources are published, the graph
  is given views of them, consumers are told of stored views, and an update is
  settled only once a view with its version is stored.
- `SourceReads`: the abstract specification of reading the sources of a concept:
  each wanted source once, as it is at that moment, without a lock.
- `Gate`: the abstract specification of a flag that lets workers begin: who saw
  it set may begin one piece of work, even if it has been cleared since.
- `UpdatePipeline`: the code's way of keeping that promise.
- `Listener`: one process, its workers, flags and shutdown.
- `ListenerTiming`: `Listener` with its clocks and with concept requests.
- `Notifications`: batches of messages, the names of updates and requests.
- `Aggregation`: one run of `getConcordedConcept`.
- `MCUpdatePipeline`, `MCNotifications`, `MCAggregation`: the values TLC needs.
- `UpdatePipeline_proofs`, `Listener_proofs`, `ListenerTiming_proofs`,
  `Notifications_proofs`, `Aggregation_proofs`: theorems.

Operators commented `Mutant:` are plausible bugs of the definition that follows
them. Substituted for it, they make the property they are aimed at fail, which
shows that the property depends on the code.

### UpdatePipeline

One canonical concept is followed; concepts share no state in the service. An
**attempt** is one goroutine running `ProcessMessage`, started by a worker
(`Receive`) or a POST (`Send`). `pc[a]` is the call it makes next, and there is
one action per call, in the order of the code. Data is versions: version `v` of
source `s` is the `v`-th object published under its key, and an aggregate is
the tuple of the versions read (a *view*). `neoWritten`, `esWritten`, `sns` and
`kinesis` are histories, used only by properties and the refinement, and so is
`overlapped`, which becomes true when an attempt starts while another one has
not ended: it lets one run ask both what races do and what holds without them.

- *Outcomes.* Each call ends `ok`, `failed` (no effect) or `lost` (it took
  effect, the caller got an error). `Returns` counts the last two as faults
  while the deadline has not passed; after it, every call returns an error and
  may have taken effect. Reads have no `lost` outcome, since it would be the
  same as `failed`. An answer of Neo4j that cannot be decoded is `lost`.
- *Neo4j* answers with changed records only if the view differs from the one it
  holds; without any, or at an address that does not contain `neo4j`
  (service.go 575), the concept is taken for unchanged (256) and the rest is
  skipped.
- *Elasticsearch* is written for the types of `isTypeAllowedInElastic`; a 404
  is a success only at an address containing `elastic` (583).
- *Purges* never fail an attempt (264-283). URLs are two groups: those of the
  changed concepts, and those of the issuer or person that is purged besides.
- *SNS* gets one batch, refused above ten entries. One it takes in part is an
  error that took effect, `lost`.
- *Timeouts.* `Expire` is the deadline or an HTTP client that goes away. The
  attempt stays where it is with an expired context, so what a call does late
  is covered. Two goroutines can be left behind, each in a send to a receiver
  that took the `ctx.Done()` branch of its `select`. `GiveUpReading` is the inner
  one: `GetConcordedConcept` returns an error, and the goroutine that runs
  `getConcordedConcept` for it blocks at service.go 368 when it ends; the attempt
  is then `orphaned`, and its place is used again only after the process has
  died. `Leak` is the outer one, which runs the attempt itself: nobody receives
  from it at service.go 202 or handlers.go 101. A deadline during the read can
  leave both.
- *SQS.* `VisibilityTimeout` may show any message again at any time after it
  was received, also while an attempt works on it and also before its deadline:
  the service only relates the two durations by its configuration. A message
  is not delivered again after it was deleted.
- *Crashes* end every attempt of a replica; nothing is persisted, so starting
  again changes nothing else. A request still travelling when its process died
  is `lost` before the crash, and is not delivered after it.

`GetConcordance` and `GetConcept` here are the error and retry control of the
read; which sources there are and how they are merged is `Aggregation`. The two
meet in `SourceReads`, which both implement: `ReadsOwnSources` maps each attempt
to a reader that has what its view says of the sources it has read
(`ReadPhase`, `Unread`, `Got`), `ReadsEachOnce` maps one run of
`getConcordedConcept` to a single reader. So the two see the bucket in the same
way, although `Aggregation` has groups, two calls per object, skipped records
and a primary concept read last, and `UpdatePipeline` has many attempts, crashes
and redeliveries. The set of sources is fixed: concordances do not change during
a behaviour.

### Listener

The worker loop is split at every read of a flag, so that a flag can change
between its check and the poll. An update only takes time: it finishes
(`Finish`), or hangs until `Deadline` and goes on as `late`. Messages in
`Malformed` are received, skipped by `getNotificationsFromMessages` and never
deleted. A health request arrives (`HealthRequest`), runs the checks
(`RunHealthChecks`), and its verdict reaches `processChannel` later
(`Feedback`), so verdicts of concurrent requests can overtake each other.
`workerCancel()` (main.go 336) is no step: workers take their context from
`context.Background()` (service.go 156). `Exit` stands for `srv.Shutdown`, with
or without its own timeout, and the exit.

Each of the two flags is a `Gate` for the polls (`StopGate`, `HealthGate`). The
gate of shutdown is open at first, never opens again, and is passed at "running";
that of health is closed at first, opens and closes, and is passed at "healthy".
The mappings say what check-then-act costs here: one poll per sight of the
flag, and that sight may be stale.

### ListenerTiming

The actions are those of `Listener`, in `Proceed`, which sets clocks: `left[w]`
when a worker begins a poll or a batch, `hidden[m]` when a message is received,
`closing` when main calls `srv.Shutdown`. `Deadline`, `VisibilityTimeout` and an
`Exit` with open requests wait for theirs. `Accept` and `Answer` are the concept
requests (GET and POST alike, both have the deadline of handlers.go 46 and 95):
they are accepted until main closes the listener, which is after the workers
have stopped. `srv.Shutdown` waits for every open request (`RequestOpen`):
those, the health requests of `Listener`, whose checks have ten seconds each
(handlers.go 147), and `/__gtg` (`Probe`, `ProbeEnds`), which has no deadline;
the model lets the last two take as long as they like. `Tick` is one unit of
time, and waits for everything that takes none: computation, and deadlines that
have run out. `Kill` is the SIGKILL at the end of the grace period, which the
deployment sets to twice the wait time.

`TimingAssumption` states the relations the configuration has to keep and
nothing in the code checks: the deadline is below the visibility timeout
(15 < 30) and below the wait time (15 < 20). SQS is taken to end a long poll
within its wait time: `ReceiveMessage` gets no deadline from the code, and the
three retries of the AWS client (sqs/client.go 41) could make a failing poll
longer. The first relation is what keeps a message with one worker, the second
is what makes the grace period enough for the workers (20 s of poll and 15 s of
batch) and the deadline of `srv.Shutdown` enough for every open concept request;
other requests may be cut off by it, as in the code. The grace period is not
enough for everything: a concept request accepted more than 25 s after the
signal may still be open when it ends (20 + 15 + 15 > 40), and a health or
good-to-go request that hangs may keep main waiting for its full 20 s
(20 + 15 + 20 > 40). So `DrainedByGrace` says that a kill finds the workers
stopped and main waiting in `srv.Shutdown` for a request of some kind, and cuts
off no update that is within its deadline.

### Notifications

A text is a sequence of tokens: a UUID written with `-` or with `/` between its
groups, a separator by itself, a word. This is as much as the two patterns
(`keyMatcher`, `UUIDMatcher`) and the cuts at `-` tell apart. A message is a
body that decodes or not, has a list of records or not, and names objects.
`Receive` is one poll, `Map` one turn of the loop of
`getNotificationsFromMessages`, `Panic` the index into an empty list, `Update`
stands for all of `UpdatePipeline` and records which object its name leads to:
the key is turned into a name (sqs/client.go 118), the name into publication and
concept (service.go 484-504), and those into a bucket and a key (service.go
407-411, s3/client.go 75-78). `Get` is a GET request, which makes a name of the
same form (handlers.go 48-50). A worker polls again only after its batch, as
`Listener` shows; deadlines are left out.

### Aggregation

`OpenBucket` takes the groups in any order (a Go map), `GetSource` the records
of a group in any order (the concordance service promises none). `GetObject`
and `HeadObject` are two steps between which an object can be published or
deleted; `object`/`newest` tell a deleted object from an old one, and the
transaction id is the version of the object `HeadObject` saw. A missing source
becomes a `Thing` (version 0), a missing primary concept an error. The empty
answer of a concordance service (`[]`) is an error; a 404 is a solo concept. A
Smartlogic record goes before a ManagedLocation one (service.go 328-343); the
README of the service only speaks of the former (README.md:124).

A record has a `row`, so that an answer which lists an entry twice has two: the
code counts entries, and refuses two of a primary authority even if they are the
same (service.go 332, 340). The constant `Nameless` is the set of published
objects whose JSON has no uuid. For a source that makes no difference here, but
whether there is a primary concept is decided by the uuid of its object
(service.go 450): `TakePrimary` and `DropPrimary` are the two cases, and a
dropped one leaves the choice of the canonical concept to the map iteration.
The properties keep the two apart: `Omitted` are the records that end up in no
aggregate. `before` and `absent` are histories: the objects there were when the
concordances came back, and the concepts that have had none at some time since,
so that `MembersAreFresh` tells a `Thing` that was really missing from one made
of an object that was there.

Left out: the merge of fields, which an external library does. The parsing of
names and the choice of the bucket are in `Notifications`.

## The runs

| Run | Instance | Shows |
| --- | --- | --- |
| `pipeline_safety` | 2 attempts in one process, 2 sources published once, 1 fault, 1 POST, an author (purges a person, indexed), a batch of exactly ten events | deletion, notification and success never run ahead of the stores; nothing is lost without a fault; without overlap the graph never regresses and ends current whatever fails, and without a fault everything does; goroutines leak only by deadlines, at most two for each; refinement of `SourceReads` |
| `pipeline_liveness` | 2 replicas, 1 source published twice, 1 fault, a type the writer has no endpoint for | refinement of `UpdatePromise`; a 404 loses nothing; every update is settled in the end |
| `listener` | 2 workers, 2 health requests, 1 message and a malformed one | the listener's safety properties; refinement of `Gate` by each flag; shutdown ends, healthy workers keep polling |
| `timing` | 2 workers, 1 health, 1 good-to-go and 1 concept request, 1 message, wait time 4, deadline 3, visibility timeout 6 | one worker per message; the workers stop within one poll and one deadline of the signal and fit the grace period; main exits with all concept requests answered |
| `notifications` | 1 worker, polls of 2 of 5 messages: three kinds of publication, one without a UUID, one with an empty list | names lead back to their objects; unreadable messages hold up nothing |
| `aggregation` | 3 concepts, each published up to twice and deleted, two of the versions without a uuid; eleven shapes of answers and the 404 | the properties of the aggregate; refinement of `SourceReads` |
| `finding_*` | see below | a statement of the documentation the code does not keep |

**Bounds.** `MaxVersion`, `MaxFaults` and `MaxSends` bound what the environment
does; the histories are bounded by them. Two attempts are enough for any race
over the stores, because a race needs one attempt to read before and write
after another; two sources are enough for views that differ in either
direction. One fault is enough to reach each failure point of each attempt,
with the redelivery after it: redeliveries are not bounded. Ten and eleven
changed records are the two sides of the SNS limit. In `Aggregation` two
versions are the least that tell an old object from a new one. The clocks of
`timing` count units of five seconds, which keep every relation between the
durations of the deployment; one message is enough to be shown to a second
worker too early, two workers to be late one after the other. In
`notifications` the five messages are the ways a batch can be read, and polls of
two put each unreadable one before and after a readable one. Safety does not
rest on these bounds: it is proved for all of them. Symmetry is used only in
`pipeline_safety`, which has no liveness property and an action property that
tells no two attempts apart.

**Deadlock** is not checked in any run: the system may stop once all versions
are published, the queue is empty and the bounds are used up, once the process
has exited, or once the aggregate is made.

**Fairness.** `UpdatePipeline`: weak fairness of each attempt's steps (Go
schedules runnable goroutines, calls return by their deadline) and of the
visibility timeout; strong fairness of receiving a given message, since workers
poll without pause and SQS returns each visible message in the end although it
may be hidden in between. Nothing is assumed of publications, faults or POSTs.
`PromiseSettles` needs an attempt that is neither leaked nor orphaned: each
costs a deadline, a fault, and there are more attempts than faults (the code
starts goroutines without limit; the model's attempts are the limit). Within the
bound faults end, as an outage does. `Listener`: weak fairness of the workers'
steps (long polls end), of deadlines, of sending a verdict and of the steps of
main. None of `Finish`: an update may hang until its deadline.
`WorkersKeepPolling` assumes that the process stays healthy, which the code
cannot ensure. `Notifications`: weak fairness of the worker's loop and of the
visibility timeout, strong fairness of receiving a given readable message, alone
or with others, as in `UpdatePipeline`. `ReadableIsFetched` excepts behaviours
in which the worker panics for ever, which is the finding below.

## What the code does not keep

Each run stops at a violated property that states a claim of the documentation.

- `finding_not_indexed`: one failed Elasticsearch write after Neo4j accepted the
  concept is never repaired. The retry finds the concept unchanged, skips the
  rest and deletes the message (README.md:7; service.go 256-258).
- `finding_stale_graph`: without any fault, two concurrent updates can leave the
  older version in Neo4j with both messages deleted (service.go 180). Overlap
  is the only cause: `RetriesReachLatest`, proved, says that attempts which come
  one after the other leave the newest version, whatever fails.
- `finding_default_address`: with the default `--neo4jWriterAddress`
  (README.md:37) every update looks unchanged, and nothing but Neo4j is ever
  written (service.go 575).
- `finding_sns_limit`: an update with more than ten change records is deleted
  without being announced (sns/client.go 67).
- `finding_panic`: a message with an empty list of records is not skipped, as
  the log line at sqs/client.go 105 says, but makes the process panic, each time
  it is shown again (sqs/client.go 104-108).
- `finding_publication`: a publication cannot be "any string" (README.md:155):
  one with a `-` that is no UUID is cut at it (service.go 498-501).

One more thing is no claim of the documentation, but a surprise: a primary
concept whose object has no uuid is dropped without an error, under the comment
"there is no primary authority concept" (service.go 450-452). The source fetched
last, in the order of a Go map, becomes the canonical concept, under the
transaction id of the dropped one. `CanonicalIsPrimary` therefore speaks of
objects with a uuid, and `EverySourceOnce` says what is left out.

The guarantees that do hold are weaker than the README of the service suggests,
and are exactly what `RemovedReachedGraph` and `NothingLostWithoutFault` say: a
deleted message has reached the *graph*; it has reached the other systems only
if no fault occurred on the way.

## What is proved

All for every value of the constants, from the assumptions `PipelineAssumption`,
`ListenerAssumption`, `TimingAssumption`, `NotificationsAssumption` and
`AggregationAssumption`, which TLC evaluates on each run. Every safety property
of a passing run is proved. `UpdatePipeline` is proved for any sets of sources,
attempts and replicas and for any kind of concept and deployment.

- `UpdatePipeline_proofs`. `TypeCorrect`, `NoUpdateForgotten`,
  `NotificationsFollowStores`, `NoLossWithoutFault`, `SuccessMeansWritten`,
  `NoRegression`, `RetriesLeaveLatest`, `SettledCurrent`, `LeaksBounded`, and
  the refinements `ImplementsPromise` and `ImplementsReads` (initial states map
  to initial states and every step to a step or a stutter).
  No invariant among these is inductive alone. The strengthening comes in
  layers, each used by the next:
  - `ReadInv`: an attempt for message `m` that has read the source of `m` holds
    its version or a newer one, because a message is queued only after its
    object.
  - `WriteInv`: past the Neo4j write an attempt's view is one Neo4j was given;
    with `ReadInv` this gives `RemovedReachedGraph`.
  - `NotifyInv`: the place of an attempt tells which stores have its view.
  - `FaultInv`: without faults, whoever changed Neo4j carries the view up to
    Kinesis, and a concurrent attempt that is told "unchanged" repeats a view
    that was already accepted. With nothing left to do nobody carries a view, so
    every deleted message has been announced: `SettledIsNotified`, for any
    overlap of attempts.
  - `SerialInv`: every published version has a message, and without overlap
    Neo4j holds the newest of all it was given and the one running attempt has
    read nothing older. With `RemovedReachedGraph` the graph is current in the
    end, with no condition on faults (`RetriesLeaveLatest`): what a failed
    attempt left undone in the graph, its message brings back.
  - `SettleInv`: without faults as well, Elasticsearch and the cache lag behind
    only while that attempt is before their step (`BeforeIndexed`).
  - `DesertedInv`: two sets, each no larger than the faults. `Deserted` are the
    attempts that have leaked, or run with an expired context and may leak;
    `Unheard` those that are orphaned, or read with an expired context and may
    be. Only `Expire` adds to either, one attempt at a time, and counts a fault.

  `ImplementsReads` has a lemma for each way a
  step can look to a reader (`SameReading`, `ReaderBegins`, `ReaderReads`,
  `ReadersLeave`), and each action is one of them; a crash makes all readers of
  a replica leave at once.
- `Listener_proofs`: `TypeCorrect`, `StalePollOnce`, `HealthBeforeRead`,
  `OneBatchAtATime`, `ExitIsDrained`. The invariant ties the poll counters to
  what the worker's place in the loop says it has read. `ObeysStopGate` and
  `ObeysHealthGate` are the two refinements of `Gate`: each action of a worker
  moves only that worker, and `Interrupt` and `Feedback` move only a flag.
- `ListenerTiming_proofs`: `TimedImplementsListener` (a step with clocks is a
  step or a stutter of `Listener`, so its theorems hold here too),
  `TimingTypeCorrect`, `OneWorker`, `KillFindsDrained`, `WorkersStop`,
  `ExitAnswers`.
  `HideInvariant`: a message some worker waits for is hidden for longer than the
  batch has left. `GraceInvariant`: the time since the signal and what a worker
  that polls or waits may still take add up to at most the grace period, with a
  case for each place in the loop; `WorkersStop` reads from it that one wait time
  and one deadline after the signal no worker can still be in the loop.
  `ExitInvariant`: no open request outlives
  `srv.Shutdown`.
- `Notifications_proofs`: `TypeCorrect`, `NotifiedIsFetched`, `NamedIsRead`. The
  last two assume plain publications (none, a UUID, or an identifier without a
  separator), which `finding_publication` shows is needed. `NamesParse` computes
  what `Identifiers` finds in each of the three forms of a name; the matches are
  sets of positions, so no induction is needed.
- `Aggregation_proofs`: `TypeCorrect`, `TransactionIdTraces`, `AggregateIsFresh`,
  `PrimaryNeverMissing`, `CanonicalIsThePrimary`, `MergedOnce`,
  `ImplementsReads`. The first invariant, `Inv`, relates every version read to
  the object at the start and to the newest one, every missing member to
  `absent`, and the transaction id to the member fetched last until the primary
  concept takes its place. `PrimaryInv` carries the record of the primary concept
  from the groups to the result, with or without a uuid; `SourcesInv` says that
  each record of an opened group is in exactly one of bucket, hands and sources.
  `MergedOnce` holds for any answer, also one that lists a concept in two groups
  or twice in one. `ImplementsReads` alone assumes that an answer lists a concept
  once (`ListedOnce`), as the concordance service does; the code does not check.
  It rests on `SourcesInv` too: the record in hand is one the reader has still to
  read (`ReaderReadsMember`), a skipped group stays unread until the end, and
  when no group is left nothing is.

Only model-checked: the liveness properties (`PromiseSettles`,
`InterruptLeadsToExit`, `WorkersKeepPolling`, `ReadableIsFetched`), since
fairness is beyond the prover.

## What is not modelled, and the plan

Not modelled: what health probes and good-to-go ask of other systems (they
change nothing there), option parsing, construction of clients, logging,
metrics, status codes and bodies of HTTP answers (a function of the outcome of
an attempt), the merge of fields (`aggregate.CreateCanonicalConcept`, an external
module), `WriteTimeout` of the server against the request timeout (two clocks of
net/http that run out together), and the second and later records of a message,
which the code never looks at.

What could be added, in order of importance:

1. Concordances that change during a behaviour: today the set of sources of a
   concept is fixed, in `UpdatePipeline` and in `SourceReads`.
2. The time a failing poll takes with the retries of the AWS client.
