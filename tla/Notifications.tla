---------------------------- MODULE Notifications ----------------------------
(***************************************************************************)
(* From an object in a bucket to its update and back to the object: how    *)
(* getNotificationsFromMessages of src/sqs/client.go takes a batch apart,  *)
(* how the key of an object becomes the name of an update, and how         *)
(* GetConcordedConcept and the S3 client find publication, concept, bucket *)
(* and key in that name again.  GET /concept/{uuid}?publication= makes its *)
(* names in the same format.                                               *)
(*                                                                         *)
(* A text is a sequence of tokens <<what, how>>: a UUID written with "-"   *)
(* or with "/" between its groups, the separator - or / by itself, or a    *)
(* word with neither.                                                      *)
(***************************************************************************)
EXTENDS Naturals, Sequences, FiniteSets

CONSTANTS
    Uuid,         \* UUIDs
    Word,         \* texts without separator that are no UUID
    Sep,          \* what a separator token stands for
    Publication,  \* the publications requests are made for
    Worker,       \* the workers of the process
    Msg,          \* the messages of the queue
    Content,      \* Content[m]: the body of message m
    MaxMessages   \* --messagesToProcess

Token == (Uuid \X {"-", "/"}) \cup (Word \X {"word"}) \cup
            {<<Sep, "-">>, <<Sep, "/">>}
Text  == Seq(Token)

Object == [bucket : {"normalised", "external"}, key : Text]

\* A body can be decoded or not, lists records or not, and each record is about
\* an object of which the code reads the key alone.
Body == [decodes : BOOLEAN, listed : BOOLEAN, objects : Seq(Object)]

ASSUME NotificationsAssumption ==
    /\ Sep \notin Uuid \cup Word /\ Uuid \cap Word = {}
    /\ Publication \subseteq Text
    /\ Content \in [Msg -> Body]
    /\ MaxMessages \in Nat \ {0}

-------------------------------------------------------------------------------
(* Names.                                                                      *)

\* strings.Replace(text, from, to, -1).
Replace(text, from, to) ==
    [i \in DOMAIN text |->
        IF text[i][2] = from THEN <<text[i][1], to>> ELSE text[i]]

\* The places of the UUIDs written with the separator s.
Matches(text, s) ==
    {i \in DOMAIN text : text[i][1] \in Uuid /\ text[i][2] = s}

First(places) == CHOOSE i \in places : \A j \in places : i <= j

\* The name getNotificationsFromMessages gives the update of the object at key.
NameOf(key) == Replace(key, "/", "-")

\* strings.SplitN(name, "-", 2)[0], for a name that does not start with a UUID.
BeforeDash(name) ==
    LET dashes == {i \in DOMAIN name : name[i][2] = "-"}
    IN SubSeq(name, 1, First(dashes) - 1)

\* Mutant: the first UUID of a name is taken for the concept.
IdentifiersFirst(name) ==
    LET one == First(Matches(name, "-"))
    IN [publication |-> IF Len(name) = 1 THEN <<>> ELSE BeforeDash(name),
        concept |-> name[one]]

\* What extractIdentifiersFromKey finds in a name with a UUID: the publication,
\* empty if there is none, and the concept.
Identifiers(name) ==
    LET ms == Matches(name, "-")
        one == First(ms)
        rest == ms \ {one}
    IN IF rest # {}
       THEN [publication |-> <<name[one]>>, concept |-> name[First(rest)]]
       ELSE [publication |-> IF Len(name) = 1 THEN <<>> ELSE BeforeDash(name),
             concept |-> name[one]]

\* The object the S3 clients read for a concept of a publication.
S3Object(publication, concept) ==
    LET key == Replace(<<concept>>, "-", "/")
    IN IF publication = <<>>
       THEN [bucket |-> "normalised", key |-> key]
       ELSE [bucket |-> "external",
             key |-> publication \o << <<Sep, "/">> >> \o key]

\* The object GetConcordedConcept reads for the concept an update is about.
ObjectOf(name) ==
    LET id == Identifiers(name) IN S3Object(id.publication, id.concept)

\* Mutant: publication and concept are joined as in the keys of the bucket.
RequestNameSlash(publication, u) ==
    IF publication = <<>> THEN << <<u, "-">> >>
    ELSE publication \o << <<Sep, "/">>, <<u, "-">> >>

\* The name GetHandler gives a concept of a publication, "" being none.
RequestName(publication, u) ==
    IF publication = <<>> THEN << <<u, "-">> >>
    ELSE publication \o << <<Sep, "-">>, <<u, "-">> >>

-------------------------------------------------------------------------------
(* Batches and requests.                                                       *)

VARIABLES
    queue,     \* queue[m]: what SQS does with message m
    todo,      \* todo[w]: the messages of its batch worker w has still to map
    found,     \* found[w]: the notifications of w without a result yet
    fetched,   \* history: fetched[m]: the objects read for message m
    asked,     \* the request answered last, with the object it read
    panicked   \* history: a worker has panicked

vars == <<queue, todo, found, fetched, asked, panicked>>

\* The answer to GET /concept/{u}?publication={p}.
Answer(p, u) == [publication |-> p, concept |-> u,
                 object |-> ObjectOf(RequestName(p, u))]

\* The messages with a list of records in a body that can be decoded.
Listing == {m \in Msg : Content[m].decodes /\ Content[m].listed}

\* Records is read at index 0 after no more than a comparison with nil.
Panicking == {m \in Listing : Content[m].objects = <<>>}

\* The messages with a UUID in the key of their first record.
Readable ==
    {m \in Listing \ Panicking : Matches(Content[m].objects[1].key, "/") # {}}

\* The object the update of a readable message reads.
ObjectRead == [m \in Readable |-> ObjectOf(NameOf(Content[m].objects[1].key))]

TypeOK ==
    /\ queue \in [Msg -> {"visible", "hidden", "removed"}]
    /\ todo \in [Worker -> SUBSET Msg]
    /\ found \in [Worker -> SUBSET Readable]
    /\ fetched \in [Msg -> SUBSET {ObjectRead[m] : m \in Readable}]
    /\ asked \subseteq {Answer(p, u) : p \in Publication, u \in Uuid}
    /\ panicked \in BOOLEAN

Init ==
    /\ queue = [m \in Msg |-> "visible"]
    /\ todo = [w \in Worker |-> {}] /\ found = [w \in Worker |-> {}]
    /\ fetched = [m \in Msg |-> {}]
    /\ asked = {}
    /\ panicked = FALSE

VisibilityTimeout(m) ==
    /\ queue[m] = "hidden"
    /\ queue' = [queue EXCEPT ![m] = "visible"]
    /\ UNCHANGED <<todo, found, fetched, asked, panicked>>

\* What one poll can return.
Batches == {b \in SUBSET Msg : b # {} /\ Cardinality(b) <= MaxMessages}

\* A worker that has finished its batch receives the next one.
Receive(w, b) ==
    /\ todo[w] = {} /\ found[w] = {}
    /\ \A m \in b : queue[m] = "visible"
    /\ queue' = [m \in Msg |-> IF m \in b THEN "hidden" ELSE queue[m]]
    /\ todo' = [todo EXCEPT ![w] = b]
    /\ UNCHANGED <<found, fetched, asked, panicked>>

\* Mutant: a message that cannot be read ends the loop over the batch.
AfterMappingAbort(w, m) == IF m \in Readable THEN todo[w] \ {m} ELSE {}

\* A message that cannot be read is skipped.
AfterMapping(w, m) == todo[w] \ {m}

\* Mutant: every message counts as a notification.
NotificationsAll(w, m) == found[w] \cup {m}

NotificationsWith(w, m) == IF m \in Readable THEN found[w] \cup {m} ELSE found[w]

Map(w, m) ==
    /\ m \in todo[w] \ Panicking
    /\ todo' = [todo EXCEPT ![w] = AfterMapping(w, m)]
    /\ found' = [found EXCEPT ![w] = NotificationsWith(w, m)]
    /\ UNCHANGED <<queue, fetched, asked, panicked>>

\* The worker has no recover: the process dies with all its workers, and is
\* started again.
Panic(w, m) ==
    /\ m \in todo[w] \cap Panicking
    /\ todo' = [v \in Worker |-> {}] /\ found' = [v \in Worker |-> {}]
    /\ panicked' = TRUE
    /\ UNCHANGED <<queue, fetched, asked>>

\* One update of the batch: it reads the object its name leads to, and ends with
\* the message deleted or not.
Update(w, m) ==
    /\ todo[w] = {} /\ m \in found[w]
    /\ fetched' = [fetched EXCEPT ![m] = @ \cup {ObjectRead[m]}]
    /\ \E deleted \in BOOLEAN :
         queue' = IF deleted THEN [queue EXCEPT ![m] = "removed"] ELSE queue
    /\ found' = [found EXCEPT ![w] = @ \ {m}]
    /\ UNCHANGED <<todo, asked, panicked>>

\* GET /concept/{u}?publication={p}.
Get(p, u) ==
    /\ asked' = {Answer(p, u)}
    /\ UNCHANGED <<queue, todo, found, fetched, panicked>>

Next ==
    \/ \E m \in Msg : VisibilityTimeout(m)
    \/ \E w \in Worker, b \in Batches : Receive(w, b)
    \/ \E w \in Worker, m \in Msg : Map(w, m) \/ Panic(w, m)
                                  \/ Update(w, m)
    \/ \E p \in Publication, u \in Uuid : Get(p, u)

Spec == Init /\ [][Next]_vars

\* Workers run, hidden messages become visible, and SQS hands out a readable
\* message that stays visible in the end, alone or with others.
Fairness ==
    /\ \A w \in Worker : WF_vars(\E m \in Msg : Map(w, m) \/ Update(w, m))
    /\ \A m \in Msg : WF_vars(VisibilityTimeout(m))
    /\ \A m \in Readable :
         SF_vars(\E w \in Worker, b \in Batches : m \in b /\ Receive(w, b))

FairSpec == Spec /\ Fairness

-------------------------------------------------------------------------------
(* Properties.                                                                 *)

\* A notification leads back to the object it is about: the object the update
\* reads is the one whose key the message carries, in the bucket it lies in,
\* although its key was made into one text and taken apart again.
FetchesNotified ==
    \A m \in Msg : \A o \in fetched[m] : o = Content[m].objects[1]

\* A request for a concept of a publication reads the object the S3 clients
\* keep that concept of that publication under.
RequestsReadNamed ==
    \A r \in asked : r.object = S3Object(r.publication, <<r.concept, "-">>)

\* Every message with a readable first record is read in the end, whatever
\* unreadable messages come with it in a batch, unless messages that make the
\* worker panic come again and again.
ReadableIsFetched ==
    \A m \in Readable :
        \/ <>(fetched[m] # {})
        \/ []<>(\E w \in Worker : todo[w] \cap Panicking # {})

\* A message without records is skipped: it never stops a worker.
UnmappableIsSkipped == ~panicked
===============================================================================
