------------------------------ MODULE Aggregation ------------------------------
(***************************************************************************)
(* One run of getConcordedConcept (src/concept/service.go): ask for the    *)
(* concordances of a concept, group them by authority, fetch every source  *)
(* from the S3 bucket while editors go on publishing and deleting, and     *)
(* choose the primary concept the others are merged into.                  *)
(*                                                                         *)
(* The groups are a Go map, whose iteration order is not defined; inside a *)
(* group the order is that of the concordance service, which promises      *)
(* none.  Version v of an object is the v-th one published under its key   *)
(* and carries the v-th transaction id; 0 stands for no object and for the *)
(* empty transaction id.                                                   *)
(***************************************************************************)
EXTENDS Naturals, FiniteSets

CONSTANTS
    Uuid,        \* the concepts that can be concorded
    Requested,   \* the concept asked for
    Answer,      \* what the concordance service can return: sets of records
    MaxVersion,  \* bound: how often one object is published
    Nameless     \* the published objects whose JSON has no uuid

\* A row tells apart the entries of a list that are otherwise the same.
Authority == {"Smartlogic", "ManagedLocation", "TME", "FACTSET", ""}
Record    == [uuid : Uuid, authority : Authority, row : Nat]
Member    == [record : Record, version : 0..MaxVersion]

ASSUME AggregationAssumption ==
    /\ Requested \in Uuid
    /\ IsFiniteSet(Uuid)
    /\ Answer \subseteq SUBSET Record
    /\ MaxVersion \in Nat \ {0}
    /\ Nameless \subseteq [uuid : Uuid, version : 1..MaxVersion]

VARIABLES
    object,    \* object[u]: version of the object of u in the bucket
    newest,    \* newest[u]: how often u has been published
    pc,        \* what getConcordedConcept does next
    records,   \* the concordance records
    todo,      \* the authorities whose group has not been opened
    bucket,    \* the records of the open group that are still to be fetched
    held,      \* the member whose object was read but not its metadata
    sources,   \* the members fetched so far
    last,      \* the one fetched last
    tid,       \* the variable transactionID
    before,    \* history: object when the concordances came back
    absent     \* history: the concepts without an object since then

bucketState == <<object, newest>>
locals == <<records, todo, bucket, held, sources, last, tid>>
history == <<before, absent>>
vars == <<bucketState, pc, locals, history>>

NoMember ==
    [record |-> [uuid |-> Requested, authority |-> "", row |-> 0], version |-> 0]

--------------------------------------------------------------------------------
(* bucketConcordances.                                                          *)

Of(rs, authority) == {r \in rs : r.authority = authority}

\* Mutant: two records of a primary authority are not noticed.
AmbiguousNever(rs) == rs = {}

\* More than one record of a primary authority, or no records.
Ambiguous(rs) ==
    \/ rs = {}
    \/ \E authority \in {"Smartlogic", "ManagedLocation"} :
         \E r, s \in Of(rs, authority) : r # s

PrimaryAuthority(rs) ==
    CASE Of(rs, "Smartlogic") # {} -> "Smartlogic"
      [] Of(rs, "Smartlogic") = {} /\ Of(rs, "ManagedLocation") # {} ->
           "ManagedLocation"
      [] OTHER -> ""

HasPrimary == PrimaryAuthority(records) # ""
PrimaryRecord == CHOOSE r \in Of(records, PrimaryAuthority(records)) : TRUE

--------------------------------------------------------------------------------

TypeOK ==
    /\ object \in [Uuid -> 0..MaxVersion]
    /\ newest \in [Uuid -> 0..MaxVersion]
    /\ before \in [Uuid -> 0..MaxVersion]
    /\ \A u \in Uuid : object[u] \in {0, newest[u]}
    /\ pc \in {"concordance", "sources", "sourceHead", "primary",
               "primaryHead", "done", "failed"}
    /\ pc \in {"primary", "primaryHead"} => HasPrimary
    /\ records \subseteq Record
    /\ todo \subseteq Authority
    /\ bucket \subseteq Record
    /\ held \in Member /\ last \in Member
    /\ sources \subseteq Member
    /\ tid \in 0..MaxVersion
    /\ absent \subseteq Uuid

Init ==
    /\ newest \in [Uuid -> 0..1]
    /\ object = newest
    /\ pc = "concordance"
    /\ records = {} /\ todo = {} /\ bucket = {}
    /\ held = NoMember /\ sources = {} /\ last = NoMember
    /\ tid = 0
    /\ before = object /\ absent = {}

--------------------------------------------------------------------------------
(* The bucket.                                                                  *)

Publish(u) ==
    /\ newest[u] < MaxVersion
    /\ newest' = [newest EXCEPT ![u] = @ + 1]
    /\ object' = [object EXCEPT ![u] = newest[u] + 1]
    /\ UNCHANGED <<pc, locals, history>>

Delete(u) ==
    /\ object[u] # 0
    /\ object' = [object EXCEPT ![u] = 0]
    /\ absent' = absent \cup {u}
    /\ UNCHANGED <<newest, pc, locals, before>>

--------------------------------------------------------------------------------
(* getConcordedConcept.                                                         *)

\* The answer to a 404: the concept stands alone, as a Smartlogic one.
SoloConcept == {[uuid |-> Requested, authority |-> "Smartlogic", row |-> 1]}

GetConcordance ==
    /\ pc = "concordance"
    /\ records' \in Answer \cup {SoloConcept}
    /\ pc' = IF Ambiguous(records') THEN "failed" ELSE "sources"
    /\ todo' = {r.authority : r \in records'}
    /\ before' = object
    /\ absent' = {u \in Uuid : object[u] = 0}
    /\ UNCHANGED <<bucketState, bucket, held, sources, last, tid>>

\* Mutant: the group of the primary authority is fetched with the others.
SkippedNever(authority) == FALSE

\* The primary concept is fetched last; without one its "authority" is empty,
\* and so is skipped a group of records that have none.
Skipped(authority) == authority = PrimaryAuthority(records)

OpenBucket(authority) ==
    /\ pc = "sources" /\ bucket = {} /\ authority \in todo
    /\ todo' = todo \ {authority}
    /\ bucket' = IF Skipped(authority) THEN {} ELSE Of(records, authority)
    /\ UNCHANGED <<bucketState, pc, records, held, sources, last, tid, history>>

Append(m) == sources' = sources \cup {m} /\ last' = m

\* A source that is not in the bucket becomes a "Thing".
Thing(r) == [record |-> r, version |-> 0]

\* GetObject of GetConceptAndTransactionID for a source.  One that is not in
\* the bucket overwrites the transaction id too.
GetSource(r) ==
    /\ pc = "sources" /\ r \in bucket
    /\ bucket' = bucket \ {r}
    /\ IF object[r.uuid] = 0
       THEN /\ Append(Thing(r))
            /\ tid' = 0
            /\ UNCHANGED <<pc, held>>
       ELSE /\ held' = [record |-> r, version |-> object[r.uuid]]
            /\ pc' = "sourceHead"
            /\ UNCHANGED <<sources, last, tid>>
    /\ UNCHANGED <<bucketState, records, todo, history>>

\* HeadObject, for the transaction id of the object there is by then.
HeadSource ==
    /\ pc = "sourceHead"
    /\ IF object[held.record.uuid] = 0
       THEN pc' = "failed" /\ UNCHANGED <<sources, last, tid>>
       ELSE pc' = "sources" /\ Append(held) /\ tid' = object[held.record.uuid]
    /\ UNCHANGED <<bucketState, records, todo, bucket, held, history>>

\* Mutant: a primary concept is looked for without a primary authority.
AfterSourcesAlways == "primary"

AfterSources == IF HasPrimary THEN "primary" ELSE "done"

SourcesDone ==
    /\ pc = "sources" /\ bucket = {} /\ todo = {}
    /\ pc' = AfterSources
    /\ UNCHANGED <<bucketState, locals, history>>

\* Mutant: a primary concept that is not in the bucket is done without.
WithoutPrimaryDone == "done"

WithoutPrimary == "failed"

GetPrimary ==
    /\ pc = "primary"
    /\ held' = [record |-> PrimaryRecord, version |-> object[PrimaryRecord.uuid]]
    /\ IF object[PrimaryRecord.uuid] = 0
       THEN pc' = WithoutPrimary /\ tid' = 0
       ELSE pc' = "primaryHead" /\ UNCHANGED tid
    /\ UNCHANGED <<bucketState, records, todo, bucket, sources, last, history>>

\* Mutant: the transaction id of an earlier fetch is kept.
TransactionIdKept(u) == IF tid = 0 THEN object[u] ELSE tid

TransactionId(u) == object[u]

\* What decides whether there is a primary concept: the uuid in its JSON.
HasUuid(m) == [uuid |-> m.record.uuid, version |-> m.version] \notin Nameless

\* A primary concept with a uuid becomes the canonical one.
TakePrimary ==
    /\ HasUuid(held)
    /\ Append(held)
    /\ tid' = TransactionId(held.record.uuid)

\* One without is dropped: the canonical concept is the source fetched last,
\* or an empty one, returned with an empty transaction id, if there is none.
DropPrimary ==
    /\ ~HasUuid(held)
    /\ tid' = IF sources = {} THEN 0 ELSE TransactionId(held.record.uuid)
    /\ UNCHANGED <<sources, last>>

HeadPrimary ==
    /\ pc = "primaryHead"
    /\ \/ object[held.record.uuid] = 0 /\ pc' = "failed"
          /\ UNCHANGED <<sources, last, tid>>
       \/ object[held.record.uuid] # 0 /\ pc' = "done"
          /\ (TakePrimary \/ DropPrimary)
    /\ UNCHANGED <<bucketState, records, todo, bucket, held, history>>

\* Mutant: an error of the bucket is taken for a missing object.
FailAsThing ==
    /\ pc = "sourceHead" /\ pc' = "sources"
    /\ Append(Thing(held.record)) /\ tid' = 0
    /\ UNCHANGED <<bucketState, records, todo, bucket, held, history>>

\* Any call fails.
Fail ==
    /\ pc \notin {"done", "failed"}
    /\ pc' = "failed"
    /\ UNCHANGED <<bucketState, locals, history>>

Next ==
    \/ \E u \in Uuid : Publish(u) \/ Delete(u)
    \/ \E r \in bucket : GetSource(r)
    \/ \E authority \in Authority : OpenBucket(authority)
    \/ GetConcordance \/ HeadSource \/ SourcesDone
    \/ GetPrimary \/ HeadPrimary \/ Fail

Spec == Init /\ [][Next]_vars

--------------------------------------------------------------------------------
(* The result: the other sources are merged into `last`, the primary concept    *)
(* unless there is none or it was dropped, and an empty set of sources is an    *)
(* empty concept without an error.                                              *)

Done == pc = "done"
Canonical == last
Secondary == sources \ {last}

--------------------------------------------------------------------------------
(* Properties.                                                                  *)

\* The records a run leaves out: those without an authority if there is no
\* primary one, else the primary one if its object has no uuid.
Omitted ==
    IF HasPrimary THEN {r \in {held.record} : ~HasUuid(held)}
                  ELSE Of(records, "")

\* Whatever the order of the map iteration, the aggregate is made of exactly
\* one member per concordance record that is not left out: none is dropped,
\* none is merged twice, and a dropped primary concept is no member.
EverySourceOnce ==
    Done => /\ {m.record : m \in sources} = records \ Omitted
            /\ \A m, n \in sources : m.record = n.record => m = n

\* r names the primary concept: its object was read, and became the canonical
\* concept unless it has no uuid.
Chosen(r) == held.record = r /\ (HasUuid(held) => Canonical = held)

\* Two records of one primary authority give no concept.  With one, its object
\* is read last and, if it has a uuid, is the canonical concept whatever the
\* iteration order, a Smartlogic one before a ManagedLocation one.
CanonicalIsPrimary ==
    Done => /\ \A authority \in {"Smartlogic", "ManagedLocation"} :
                 \A r, s \in Of(records, authority) : r = s
            /\ \A r \in Of(records, "Smartlogic") : Chosen(r)
            /\ Of(records, "Smartlogic") = {} =>
                 \A r \in Of(records, "ManagedLocation") : Chosen(r)

\* A primary concept that is not in the bucket never gives an aggregate: its
\* absence never leaves the choice to the map iteration.
PrimaryExists == Done /\ HasPrimary => held.version > 0

\* No member is older than the object there was when the concordances came
\* back, none is newer than the newest one, and a member that is missing had
\* no object at some time since.
MembersAreFresh ==
    Done => \A m \in sources :
        /\ m.version <= newest[m.record.uuid]
        /\ IF m.version = 0 THEN m.record.uuid \in absent
                            ELSE m.version >= before[m.record.uuid]

\* The object a run reads last.
LastRead == IF HasPrimary THEN held ELSE last

\* The transaction id sent on with the aggregate is that of the object read
\* last, which is the canonical concept unless a primary one was dropped: never
\* older than that object, and empty exactly when it was not in the bucket or
\* the aggregate is empty.
TransactionIdOfLastRead ==
    Done => IF sources = {} THEN tid = 0
            ELSE /\ (tid = 0) <=> (LastRead.version = 0)
                 /\ tid >= LastRead.version

\* The concepts a run sets out to read: all concorded ones, but those without
\* an authority only when there is a primary concept.
Wanted == {r.uuid : r \in {q \in records : HasPrimary \/ q.authority # ""}}

\* What a run has read, the object whose metadata it asks for next and the
\* primary concept included.
Fetched ==
    sources \cup
        IF \/ pc \in {"sourceHead", "primaryHead"}
           \/ Done /\ HasPrimary
        THEN {held} ELSE {}

ReadPhase ==
    CASE pc \in {"concordance", "failed"} -> "idle"
      [] pc = "done" -> "read"
      [] OTHER -> "reading"

Unread ==
    IF ReadPhase = "reading" THEN Wanted \ {m.record.uuid : m \in Fetched} ELSE {}

Got ==
    IF ReadPhase = "idle" THEN {}
    ELSE {[uuid |-> m.record.uuid, version |-> m.version] : m \in Fetched}

\* A run reads its sources as any reader does.
Reads == INSTANCE SourceReads WITH
    Reader <- {Requested},
    Source <- Uuid,
    phase <- [r \in {Requested} |-> ReadPhase],
    unread <- [r \in {Requested} |-> Unread],
    got <- [r \in {Requested} |-> Got]

\* Every step of a run reads one wanted source as it is at that moment, gives
\* up, returns when nothing is left to read, or changes none of this: groups,
\* the two calls per object, skipped groups, missing objects and the primary
\* concept read last make no difference to what the sources are read as.
ReadsEachOnce == Reads!Spec
================================================================================
