---------------------------- MODULE UpdatePipeline ----------------------------
(***************************************************************************)
(* The update of one canonical concept by the aggregate-concept-           *)
(* transformer: processConceptUpdate and ProcessMessage of                 *)
(* src/concept/service.go and the POST /concept/{uuid}/send handler, one   *)
(* action per call the code makes to another service, between the SQS      *)
(* queue and the S3 bucket on one side and Neo4j, Varnish, Elasticsearch,  *)
(* SNS and Kinesis on the other.                                           *)
(*                                                                         *)
(* An attempt is one goroutine running ProcessMessage, in any replica: SQS *)
(* updates of one batch, of the workers of a process and of the replicas   *)
(* all run concurrently, and nothing in the code relates two attempts at   *)
(* the same concept.  Data is abstracted to versions: version v of source  *)
(* s is the v-th object published under its key, and an aggregate is the   *)
(* tuple of the versions it was built from (a View).                       *)
(***************************************************************************)
EXTENDS Naturals, FiniteSets

CONSTANTS
    Source,           \* source concepts concorded into the canonical concept
    Attempt,          \* goroutines that can run ProcessMessage at a time
    Replica,          \* the processes, each the set of attempts it runs
    NoMsg,            \* the message of an attempt started over HTTP
    Concept,          \* the fields of the canonical concept control depends on
    Changed,          \* number of change records Neo4j returns for an update
    NeoNamed,         \* neo4jWriterAddress contains "neo4j"
    ElasticNamed,     \* elasticsearchWriterAddress contains "elastic"
    ElasticSupports,  \* the Elasticsearch writer has an endpoint for the type
    ReadOnly,         \* the --read-only option
    MaxVersion,       \* bound: how often one source is published
    MaxFaults,        \* bound: failed, lost or timed-out calls, and crashes
    MaxSends          \* bound: POST requests

Msg  == Source \X (1..MaxVersion)
View == [Source -> 0..MaxVersion]
V0   == [s \in Source |-> 0]

SnsBatchLimit == 10   \* entries SNS accepts in one PublishBatch call

ASSUME PipelineAssumption ==
    /\ NoMsg \notin Msg
    /\ IsFiniteSet(Attempt)
    /\ Replica \subseteq SUBSET Attempt
    /\ Concept \in [type : STRING, curated : BOOLEAN, member : BOOLEAN]
    /\ Changed \in Nat \ {0}
    /\ {NeoNamed, ElasticNamed, ElasticSupports, ReadOnly} \subseteq BOOLEAN
    /\ {MaxVersion, MaxFaults, MaxSends} \subseteq Nat

VARIABLES
    s3,          \* s3[s]: version of the object of source s in the bucket
    queue,       \* queue[m]: what SQS does with the message m
    pc,          \* pc[a]: the call attempt a makes next
    msg,         \* msg[a]: the message attempt a works on, or NoMsg
    ctx,         \* ctx[a]: whether the deadline of attempt a has passed
    unread,      \* unread[a]: the sources attempt a has still to fetch
    view,        \* view[a]: the aggregate attempt a has built so far
    neo, es,     \* the view held by Neo4j and by Elasticsearch
    cached,      \* the URL groups Varnish may serve from before the last change
    neoWritten,  \* history: every view Neo4j was given
    esWritten,   \* history: every view Elasticsearch was given
    sns,         \* history: every view some change events of which SNS took
    kinesis,     \* history: every view whose updated ids went to Kinesis
    faults,      \* number of faults so far
    sends,       \* number of POST requests so far
    overlapped,  \* history: two attempts have been under way at once
    orphaned     \* attempts whose read goroutine blocks for ever in its send

stores == <<neo, es, cached, neoWritten, esWritten, sns, kinesis>>
vars == <<s3, queue, pc, msg, overlapped, orphaned, ctx, unread, view, stores,
          faults, sends>>

Outcome == {"ok", "failed", "lost"}

Idle   == {"idle", "leaked"}
After4j == {"purge", "purgeRelated", "elastic", "sns", "kinesis"}
Active == {"concord", "sources", "neo4j", "remove", "replyOk", "replyErr"}
            \cup After4j

\* The groups of URLs an update makes stale: those of the changed concepts,
\* and those of the issuer or the person ProcessMessage also purges.
HasRelated ==
    \/ Concept.type = "FinancialInstrument"
    \/ Concept.type = "Membership" /\ Concept.member
StaleUrls == {"concept"} \cup (IF HasRelated THEN {"related"} ELSE {})

IsTypeAllowedInElastic ==
    CASE Concept.type = "Membership" -> Concept.curated
      [] Concept.type # "Membership" ->
           Concept.type \notin {"FinancialInstrument", "MembershipRole",
               "BoardRole", "IndustryClassification",
               "NAICSIndustryClassification", "FTAnIIndustryClassification"}

TypeOK ==
    /\ s3 \in View
    /\ queue \in [Msg -> {"none", "visible", "hidden", "removed"}]
    /\ pc \in [Attempt -> Idle \cup Active]
    /\ msg \in [Attempt -> Msg \cup {NoMsg}]
    /\ \A a \in Attempt : pc[a] = "remove" => msg[a] # NoMsg
    /\ ctx \in [Attempt -> {"live", "expired"}]
    /\ unread \in [Attempt -> SUBSET Source]
    /\ view \in [Attempt -> View]
    /\ neo \in View /\ es \in View
    /\ cached \subseteq {"concept", "related"}
    /\ {neoWritten, esWritten, sns, kinesis} \subseteq SUBSET View
    /\ faults \in 0..MaxFaults
    /\ sends \in 0..MaxSends
    /\ overlapped \in BOOLEAN
    /\ orphaned \subseteq Attempt

\* Version 0 of every source has been propagated everywhere.
Init ==
    /\ s3 = V0
    /\ queue = [m \in Msg |-> "none"]
    /\ pc = [a \in Attempt |-> "idle"]
    /\ msg = [a \in Attempt |-> NoMsg]
    /\ ctx = [a \in Attempt |-> "live"]
    /\ unread = [a \in Attempt |-> {}]
    /\ view = [a \in Attempt |-> V0]
    /\ neo = V0 /\ es = V0
    /\ cached = {}
    /\ neoWritten = {V0} /\ esWritten = {V0} /\ sns = {V0} /\ kinesis = {V0}
    /\ faults = 0
    /\ sends = 0
    /\ overlapped = FALSE
    /\ orphaned = {}

-------------------------------------------------------------------------------
(* The bucket and the queue.                                               *)

\* An editor's system overwrites the object of s; its notification is queued
\* once the object can be read.
Publish(s) ==
    /\ s3[s] < MaxVersion
    /\ s3' = [s3 EXCEPT ![s] = @ + 1]
    /\ queue' = [queue EXCEPT ![<<s, s3[s] + 1>>] = "visible"]
    /\ UNCHANGED <<pc, msg, overlapped, orphaned, ctx, unread, view, stores,
                   faults, sends>>

\* SQS shows an unremoved message again when its visibility timeout passes,
\* whether or not the attempt that received it is still running.
VisibilityTimeout(m) ==
    /\ queue[m] = "hidden"
    /\ queue' = [queue EXCEPT ![m] = "visible"]
    /\ UNCHANGED <<s3, pc, msg, overlapped, orphaned, ctx, unread, view,
                   stores, faults, sends>>

-------------------------------------------------------------------------------
(* Attempts.                                                               *)

GoTo(a, label) == pc' = [pc EXCEPT ![a] = label]

\* What can come back from a call made with the context of a.  After the
\* deadline every call returns an error; before it an error is a fault.  A
\* "lost" call took effect although the caller got an error.
Returns(a, o) ==
    IF o = "ok"
    THEN ctx[a] = "live" /\ UNCHANGED faults
    ELSE IF ctx[a] = "expired"
         THEN UNCHANGED faults
         ELSE faults < MaxFaults /\ faults' = faults + 1

\* An attempt that lost a goroutine of its own is not used again.
Start(a, m) ==
    /\ pc[a] = "idle" /\ a \notin orphaned
    /\ GoTo(a, IF ReadOnly THEN "replyErr" ELSE "concord")
    /\ msg' = [msg EXCEPT ![a] = m]
    /\ ctx' = [ctx EXCEPT ![a] = "live"]
    /\ unread' = [unread EXCEPT ![a] = {}]
    /\ view' = [view EXCEPT ![a] = V0]
    /\ overlapped' = (overlapped \/ \E b \in Attempt \ {a} : pc[b] \notin Idle)
    /\ UNCHANGED orphaned

\* Mutant: the message is deleted when it is received.
ReceivedAtMostOnce(m) == [queue EXCEPT ![m] = "removed"]

\* A received message is hidden from other receivers for a while.
Received(m) == [queue EXCEPT ![m] = "hidden"]

\* A worker polls the queue and starts a goroutine for the message.
Receive(a, m) ==
    /\ ~ReadOnly
    /\ queue[m] = "visible"
    /\ queue' = Received(m)
    /\ Start(a, m)
    /\ UNCHANGED <<s3, stores, faults, sends>>

\* A POST to /concept/{uuid}/send.
Send(a) ==
    /\ sends < MaxSends
    /\ sends' = sends + 1
    /\ Start(a, NoMsg)
    /\ UNCHANGED <<s3, queue, stores, faults>>

\* Mutant: a request deletes a message too, and has none.
SucceedWithRemove(a) == "remove"

\* Where ProcessMessage goes when it returns nil.
Succeed(a) == IF msg[a] = NoMsg THEN "replyOk" ELSE "remove"

AfterConcordance(a, o) == IF o = "ok" THEN "sources" ELSE "replyErr"

GetConcordance(a) ==
    /\ pc[a] = "concord"
    /\ \E o \in {"ok", "failed"} :
         /\ Returns(a, o)
         /\ GoTo(a, AfterConcordance(a, o))
         /\ unread' = [unread EXCEPT ![a] = IF o = "ok" THEN Source ELSE {}]
    /\ UNCHANGED <<s3, queue, msg, overlapped, orphaned, ctx, view, stores,
                   sends>>

\* Mutant: only the source the message names is read again.
VersionReadOfMsg(a, s) ==
    IF msg[a] # NoMsg /\ msg[a][1] # s THEN view[a][s] ELSE s3[s]

\* The version of source s that attempt a gets: the object there is now.
VersionRead(a, s) == s3[s]

\* The sources are fetched one by one, in the order of a Go map iteration.
GetConcept(a, s) ==
    /\ pc[a] = "sources" /\ s \in unread[a]
    /\ \E o \in {"ok", "failed"} :
         /\ Returns(a, o)
         /\ IF o = "ok"
            THEN /\ view' = [view EXCEPT ![a][s] = VersionRead(a, s)]
                 /\ unread' = [unread EXCEPT ![a] = @ \ {s}]
                 /\ GoTo(a, IF unread[a] = {s} THEN "neo4j" ELSE "sources")
            ELSE GoTo(a, "replyErr") /\ UNCHANGED <<view, unread>>
    /\ UNCHANGED <<s3, queue, msg, overlapped, orphaned, ctx, stores, sends>>

\* GetConcordedConcept takes the ctx.Done() branch of its select: the goroutine
\* that reads for it blocks in its send for ever.  A deadline that passes after
\* the last read has ended comes to the same as one just before that read.
GiveUpReading(a) ==
    /\ pc[a] \in {"concord", "sources"} /\ ctx[a] = "expired"
    /\ orphaned' = orphaned \cup {a}
    /\ GoTo(a, "replyErr")
    /\ UNCHANGED <<s3, queue, msg, overlapped, ctx, unread, view, stores,
                   faults, sends>>

\* Mutant: an error of the writer is logged and forgotten.
AfterNeo4jForgiving(a, o) ==
    IF o = "ok" /\ NeoNamed /\ neo # view[a] THEN "purge" ELSE Succeed(a)

\* Neo4j answers with changed records only when the view differs from the one
\* it holds, and sendToWriter decodes them only from a "neo4j" address.  No
\* changed records: the concept is taken for unchanged and the rest skipped.
AfterNeo4j(a, o) ==
    IF o # "ok" THEN "replyErr"
    ELSE IF NeoNamed /\ neo # view[a] THEN "purge" ELSE Succeed(a)

WriteNeo4j(a) ==
    /\ pc[a] = "neo4j"
    /\ \E o \in Outcome :
         /\ Returns(a, o)
         /\ IF o = "failed"
            THEN UNCHANGED <<neo, neoWritten, cached>>
            ELSE /\ neo' = view[a]
                 /\ neoWritten' = neoWritten \cup {view[a]}
                 /\ cached' = IF neo = view[a] THEN cached ELSE StaleUrls
         /\ GoTo(a, AfterNeo4j(a, o))
    /\ UNCHANGED <<s3, queue, msg, overlapped, orphaned, ctx, unread, view,
                   es, esWritten, sns, kinesis, sends>>

AfterPurge == IF IsTypeAllowedInElastic THEN "elastic" ELSE "sns"

\* A purge that fails is logged and forgotten.
SendToPurger(a, label, urls, next) ==
    /\ pc[a] = label
    /\ \E o \in Outcome :
         /\ Returns(a, o)
         /\ cached' = IF o = "failed" THEN cached ELSE cached \ urls
    /\ GoTo(a, next)
    /\ UNCHANGED <<s3, queue, msg, overlapped, orphaned, ctx, unread, view,
                   neo, es, neoWritten, esWritten, sns, kinesis, sends>>

\* Mutant: the issuer or person is not purged.
PurgeConceptOnly(a) == SendToPurger(a, "purge", {"concept"}, AfterPurge)

\* The URLs of all changed concepts, then those of the issuer or the person.
Purge(a) == SendToPurger(a, "purge", {"concept"},
                IF HasRelated THEN "purgeRelated" ELSE AfterPurge)
PurgeRelated(a) == SendToPurger(a, "purgeRelated", {"related"}, AfterPurge)

\* Mutant: the answer of the writer is not looked at.
AfterElasticUnchecked(o) == "sns"
\* Mutant: a 404 is an error at every address.
AfterElasticStrict(o) == IF o = "ok" /\ ElasticSupports THEN "sns" ELSE "replyErr"

\* A 404 for an unsupported type is a success only at an "elastic" address.
AfterElastic(o) ==
    IF o = "ok" /\ (ElasticSupports \/ ElasticNamed) THEN "sns" ELSE "replyErr"

WriteElastic(a) ==
    /\ pc[a] = "elastic"
    /\ \E o \in Outcome :
         /\ Returns(a, o)
         /\ GoTo(a, AfterElastic(o))
         /\ IF o = "failed" \/ ~ElasticSupports
            THEN UNCHANGED <<es, esWritten>>
            ELSE es' = view[a] /\ esWritten' = esWritten \cup {view[a]}
    /\ UNCHANGED <<s3, queue, msg, overlapped, orphaned, ctx, unread, view,
                   neo, cached, neoWritten, sns, kinesis, sends>>

\* Mutant: the processing ends with the events.
AfterEventsDone(a, o) == IF o = "ok" THEN Succeed(a) ELSE "replyErr"

AfterEvents(a, o) == IF o = "ok" THEN "kinesis" ELSE "replyErr"

\* One batch for all change records: SNS refuses one with too many entries.
\* A batch it takes in part is an error too, and so is "lost".
PublishEvents(a) ==
    /\ pc[a] = "sns"
    /\ IF Changed <= SnsBatchLimit
       THEN \E o \in Outcome :
              /\ Returns(a, o)
              /\ GoTo(a, AfterEvents(a, o))
              /\ sns' = IF o = "failed" THEN sns ELSE sns \cup {view[a]}
       ELSE GoTo(a, "replyErr") /\ UNCHANGED <<sns, faults>>
    /\ UNCHANGED <<s3, queue, msg, overlapped, orphaned, ctx, unread, view,
                   neo, es, cached, neoWritten, esWritten, kinesis, sends>>

AddRecordToStream(a) ==
    /\ pc[a] = "kinesis"
    /\ \E o \in Outcome :
         /\ Returns(a, o)
         /\ GoTo(a, IF o = "ok" THEN Succeed(a) ELSE "replyErr")
         /\ kinesis' = IF o = "failed" THEN kinesis ELSE kinesis \cup {view[a]}
    /\ UNCHANGED <<s3, queue, msg, overlapped, orphaned, ctx, unread, view,
                   neo, es, cached, neoWritten, esWritten, sns, sends>>

RemoveMessage(a) ==
    /\ pc[a] = "remove"
    /\ \E o \in Outcome :
         /\ Returns(a, o)
         /\ GoTo(a, IF o = "ok" THEN "replyOk" ELSE "replyErr")
         /\ queue' = IF o = "failed" THEN queue
                     ELSE [queue EXCEPT ![msg[a]] = "removed"]
    /\ UNCHANGED <<s3, msg, overlapped, orphaned, ctx, unread, view, stores,
                   sends>>

\* The caller receives the result from the channel.
Return(a) ==
    /\ pc[a] \in {"replyOk", "replyErr"}
    /\ GoTo(a, "idle")
    /\ UNCHANGED <<s3, queue, msg, overlapped, orphaned, ctx, unread, view,
                   stores, faults, sends>>

\* Mutant: the caller can be gone before the deadline.
AbandonedAnyTime(a) == pc[a] \in {"replyOk", "replyErr"}

Abandoned(a) == pc[a] \in {"replyOk", "replyErr"} /\ ctx[a] = "expired"

\* The caller took the ctx.Done() branch of its select: nobody receives from
\* the unbuffered channel any more, and the goroutine blocks in its send.
Leak(a) ==
    /\ Abandoned(a)
    /\ GoTo(a, "leaked")
    /\ UNCHANGED <<s3, queue, msg, overlapped, orphaned, ctx, unread, view,
                   stores, faults, sends>>

\* The deadline of a passes, or its HTTP client goes away.
Expire(a) ==
    /\ pc[a] \in Active /\ ctx[a] = "live"
    /\ faults < MaxFaults /\ faults' = faults + 1
    /\ ctx' = [ctx EXCEPT ![a] = "expired"]
    /\ UNCHANGED <<s3, queue, pc, msg, overlapped, orphaned, unread, view,
                   stores, sends>>

\* A process dies with everything it runs, and is started again.
Crash(r) ==
    /\ \E a \in r : pc[a] \in Active
    /\ faults < MaxFaults /\ faults' = faults + 1
    /\ pc' = [a \in Attempt |-> IF a \in r THEN "idle" ELSE pc[a]]
    /\ orphaned' = orphaned \ r
    /\ UNCHANGED <<s3, queue, msg, overlapped, ctx, unread, view, stores,
                   sends>>

-------------------------------------------------------------------------------

Step(a) ==
    \/ GetConcordance(a)
    \/ \E s \in Source : GetConcept(a, s)
    \/ GiveUpReading(a)
    \/ WriteNeo4j(a)
    \/ Purge(a)
    \/ PurgeRelated(a)
    \/ WriteElastic(a)
    \/ PublishEvents(a)
    \/ AddRecordToStream(a)
    \/ RemoveMessage(a)
    \/ Return(a)
    \/ Leak(a)

Next ==
    \/ \E s \in Source : Publish(s)
    \/ \E m \in Msg : VisibilityTimeout(m)
    \/ \E a \in Attempt, m \in Msg : Receive(a, m)
    \/ \E a \in Attempt : Send(a) \/ Step(a) \/ Expire(a)
    \/ \E r \in Replica : Crash(r)

Spec == Init /\ [][Next]_vars

\* Goroutines are scheduled, the visibility timeout of SQS runs out, and a
\* message that stays visible is handed to some free worker: the workers poll
\* without pause and SQS samples every message in the end.
Fairness ==
    /\ \A a \in Attempt : WF_vars(Step(a))
    /\ \A m \in Msg : WF_vars(VisibilityTimeout(m))
    /\ \A m \in Msg : SF_vars(\E a \in Attempt : Receive(a, m))

FairSpec == Spec /\ Fairness

-------------------------------------------------------------------------------
(* Properties.                                                             *)

Covers(w, m) == w[m[1]] >= m[2]

\* A message leaves the queue only when Neo4j has been given an aggregate
\* built from the version it announces, or from a newer one: whatever
\* timeouts, redeliveries and crashes came between, deleting the message
\* (RemoveMessageFromQueue) never forgets an update of the graph.
RemovedReachedGraph ==
    \A m \in Msg : queue[m] = "removed" =>
        \E w \in neoWritten : Covers(w, m)

\* The aggregates that reach Elasticsearch at all.
Indexed == IsTypeAllowedInElastic /\ ElasticSupports

\* Consumers never hear of an aggregate before the stores they would read it
\* from have it: Kinesis after SNS, SNS after Neo4j and, for a type that is
\* indexed, after Elasticsearch.
NotifiedReachedStores ==
    /\ kinesis \subseteq sns
    /\ sns \subseteq neoWritten
    /\ Indexed => esWritten \subseteq neoWritten
    /\ Indexed => sns \subseteq esWritten

\* Attempt a has changed Neo4j to w and is still going to announce it.
Carries(a, w) == pc[a] \in After4j /\ view[a] = w

\* Nothing in the set-up keeps an update from being announced.
Announceable ==
    /\ NeoNamed
    /\ Changed <= SnsBatchLimit
    /\ IsTypeAllowedInElastic => ElasticSupports \/ ElasticNamed

\* As long as no call fails, no deadline passes and no process dies, every
\* aggregate Neo4j has accepted is announced or about to be announced by the
\* attempt that changed Neo4j: racing and repeated attempts that find the
\* concept unchanged drop nothing that nobody else carries.
NothingLostWithoutFault ==
    Announceable /\ faults = 0 =>
        \A w \in neoWritten : w \in kinesis \/ \E a \in Attempt : Carries(a, w)

\* An attempt that reports success (the 200 of SendHandler, nil to the
\* worker) wrote the aggregate it read to Neo4j.
OkMeansWritten ==
    \A a \in Attempt : pc[a] = "replyOk" => view[a] \in neoWritten

\* Nothing is queued and nothing runs.
Quiescent ==
    /\ \A m \in Msg : queue[m] \in {"none", "removed"}
    /\ \A a \in Attempt : pc[a] \in Idle

\* Once everything published has been processed, and as long as no two attempts
\* overlapped, Neo4j holds the newest version of every source, whatever failed,
\* timed out, died or was delivered again on the way.
RetriesReachLatest == Quiescent /\ ~overlapped => neo = s3

\* If in addition nothing failed and the address of Neo4j does not hide the
\* changes, Elasticsearch holds the same aggregate and no URL is cached from
\* before: redelivered messages, repeated requests and publications during an
\* update leave nothing stale.
SettledIsCurrent ==
    Quiescent /\ ~overlapped /\ faults = 0 /\ NeoNamed =>
        (Indexed => es = neo) /\ cached = {}

\* Goroutines are left blocked in a send to a receiver that is gone only by
\* deadlines that passed: each leaves at most one that read for an attempt
\* (GetConcordedConcept) and one that ran it (processConceptUpdate or
\* SendHandler), so two if it passes during the read and one if it passes later.
\* An update that ends in time, or whose results are received, leaves none.
LeaksAreBounded ==
    /\ Cardinality(orphaned) <= faults
    /\ Cardinality({a \in Attempt : pc[a] = "leaked"}) <= faults

\* Neo4j never goes back to an older version of any source as long as no two
\* attempts overlap, whatever fails and whichever process dies.
GraphNeverRegresses ==
    [][~overlapped' => \A s \in Source : neo'[s] >= neo[s]]_vars

\* Once everything published has been processed, Neo4j holds the newest version
\* of every source.
SettledIsLatest == Quiescent => neo = s3

\* Once everything published has been processed, Elasticsearch holds the
\* aggregate Neo4j holds.
SettledIsIndexed == Quiescent /\ Indexed => es = neo

\* A message is removed only when an aggregate with its version, or a newer
\* one, has been announced on Kinesis.
RemovedIsNotified ==
    \A m \in Msg : queue[m] = "removed" =>
        \E w \in kinesis : Covers(w, m)

\* The pipeline implements what it promises.
Promise == INSTANCE UpdatePromise WITH
    latest <- s3,
    stored <- neoWritten,
    announced <- kinesis,
    settled <- {m \in Msg : queue[m] = "removed"}

\* Every step of the pipeline is a step of the promise or changes none of it:
\* the graph only gets published versions, consumers only hear of stored
\* aggregates, and only stored updates are settled.
PromiseSafety == Promise!Spec

\* Every published version of every source leaves the queue in the end, as
\* long as there are more goroutines than timeouts that leak one.
PromiseSettles == Promise!Settles

ReadPhase(a) ==
    CASE pc[a] = "sources" -> "reading"
      [] pc[a] \in {"neo4j", "remove", "replyOk"} \cup After4j -> "read"
      [] OTHER -> "idle"

Unread(a) == IF ReadPhase(a) = "reading" THEN unread[a] ELSE {}

Got(a) == IF ReadPhase(a) = "idle" THEN {}
          ELSE {[uuid |-> s, version |-> view[a][s]] : s \in Source \ unread[a]}

\* An attempt reads the sources as any reader does, and has read them for as
\* long as it is under way.
Reads == INSTANCE SourceReads WITH
    Reader <- Attempt,
    object <- s3,
    phase <- [a \in Attempt |-> ReadPhase(a)],
    unread <- [a \in Attempt |-> Unread(a)],
    got <- [a \in Attempt |-> Got(a)]

\* What an attempt hands to the stores is what it has read itself, each source
\* once since it was started: nothing of another attempt, of an earlier one in
\* the same goroutine or of one that died, and nothing before all is read.
ReadsOwnSources == Reads!Spec
===============================================================================
