--------------------------- MODULE Aggregation_proofs ---------------------------
(***************************************************************************)
(* What Aggregation guarantees for every set of concepts, every answer of  *)
(* the concordance service and every number of publications.               *)
(***************************************************************************)
EXTENDS Aggregation, TLAPS

\* The primary record is one of the records, and its group is left for the end.
LEMMA PrimaryRecordListed ==
    ASSUME HasPrimary
    PROVE  PrimaryRecord \in records /\ Skipped(PrimaryRecord.authority)
<1>1. Of(records, PrimaryAuthority(records)) # {}
  BY DEF HasPrimary, PrimaryAuthority
<1>2. PrimaryRecord \in Of(records, PrimaryAuthority(records))
  BY <1>1 DEF PrimaryRecord
<1> QED
  BY <1>2 DEF Of, Skipped

\* Actions that leave the records alone leave the choice of the primary alone.
LEMMA PrimaryUnchanged ==
    ASSUME records' = records
    PROVE  /\ HasPrimary' <=> HasPrimary
           /\ PrimaryRecord' = PrimaryRecord
           /\ Ambiguous(records)' <=> Ambiguous(records)
BY DEF HasPrimary, PrimaryRecord, Ambiguous

\* Every variable keeps its type, an object is the newest one or deleted, and
\* the primary concept is fetched only if the records have one.
THEOREM TypeCorrect == Spec => []TypeOK
<1>1. Init => TypeOK
  <2>1. NoMember \in Member
    <3>1. "" \in Authority /\ 0 \in Nat
      BY DEF Authority
    <3>2. [uuid |-> Requested, authority |-> "", row |-> 0] \in Record
      BY <3>1, AggregationAssumption DEF Record
    <3>3. 0 \in 0..MaxVersion
      BY AggregationAssumption
    <3> QED
      BY <3>2, <3>3 DEF NoMember, Member
  <2> QED
    BY <2>1, AggregationAssumption DEF Init, TypeOK
<1>2. TypeOK /\ [Next]_vars => TypeOK'
  <2> SUFFICES ASSUME TypeOK, [Next]_vars PROVE TypeOK'
    OBVIOUS
  <2> USE AggregationAssumption DEF TypeOK, bucketState, locals, history
  <2>0. records' = records => (HasPrimary' <=> HasPrimary)
    BY PrimaryUnchanged
  <2>1. ASSUME NEW u \in Uuid, Publish(u) PROVE TypeOK'
    BY <2>0, <2>1 DEF Publish
  <2>2. ASSUME NEW u \in Uuid, Delete(u) PROVE TypeOK'
    BY <2>0, <2>2 DEF Delete
  <2>3. CASE GetConcordance
    <3>1. SoloConcept \subseteq Record
      <4>1. "Smartlogic" \in Authority
        BY DEF Authority
      <4> QED
        BY <4>1 DEF SoloConcept, Record
    <3>2. records' \subseteq Record
      BY <2>3, <3>1 DEF GetConcordance
    <3>3. todo' \subseteq Authority
      BY <2>3, <3>2 DEF GetConcordance, Record
    <3>4. pc' \in {"failed", "sources"} /\ absent' \subseteq Uuid
      BY <2>3 DEF GetConcordance
    <3> QED
      BY <2>3, <3>2, <3>3, <3>4 DEF GetConcordance
  <2>4. ASSUME NEW authority \in Authority, OpenBucket(authority) PROVE TypeOK'
    BY <2>0, <2>4 DEF OpenBucket, Of
  <2>5. ASSUME NEW r \in bucket, GetSource(r) PROVE TypeOK'
    <3>1. r \in Record /\ r.uuid \in Uuid
      BY DEF Record
    <3>2. /\ Thing(r) \in Member
          /\ [record |-> r, version |-> object[r.uuid]] \in Member
      BY <3>1 DEF Thing, Member
    <3> QED
      BY <2>0, <2>5, <3>2 DEF GetSource, Append
  <2>6. CASE HeadSource
    <3>1. held.record.uuid \in Uuid
      BY DEF Member, Record
    <3> QED
      BY <2>0, <2>6, <3>1 DEF HeadSource, Append
  <2>7. CASE SourcesDone
    BY <2>0, <2>7 DEF SourcesDone, AfterSources
  <2>8. CASE GetPrimary
    <3>1. PrimaryRecord \in Record /\ PrimaryRecord.uuid \in Uuid
      BY <2>8, PrimaryRecordListed DEF GetPrimary, Record
    <3>2. held' \in Member
      BY <2>8, <3>1 DEF GetPrimary, Member
    <3> QED
      BY <2>0, <2>8, <3>2 DEF GetPrimary, WithoutPrimary
  <2>9. CASE HeadPrimary
    <3>1. held.record.uuid \in Uuid
      BY DEF Member, Record
    <3>2. tid' \in 0..MaxVersion
      BY <2>9, <3>1 DEF HeadPrimary, TakePrimary, DropPrimary, TransactionId
    <3>3. last' \in Member /\ sources' \subseteq Member /\ pc' \in {"failed", "done"}
      BY <2>9 DEF HeadPrimary, TakePrimary, DropPrimary, Append
    <3> QED
      BY <2>9, <3>2, <3>3 DEF HeadPrimary
  <2>10. CASE Fail
    BY <2>0, <2>10 DEF Fail
  <2>11. CASE UNCHANGED vars
    BY <2>0, <2>11 DEF vars
  <2> QED
    BY <2>1, <2>2, <2>3, <2>4, <2>5, <2>6, <2>7, <2>8, <2>9, <2>10, <2>11
       DEF Next
<1> QED
  BY <1>1, <1>2, PTL DEF Spec

\* A member that was read: as new as the object was when the run began, and no
\* newer than the newest.
Fresh(m) ==
    /\ m.version <= newest[m.record.uuid]
    /\ IF m.version = 0 THEN m.record.uuid \in absent
                        ELSE m.version >= before[m.record.uuid]

\* The inductive invariant.  Every member is fresh, and so is the one whose
\* metadata is asked for; a concept without an object is among the absent ones;
\* the transaction id goes with the member fetched last, until the primary
\* concept is fetched, with which it goes in the end.
Inv ==
    /\ \A u \in Uuid : before[u] <= newest[u]
    /\ pc \notin {"concordance", "failed"} =>
         \A u \in Uuid : object[u] = 0 => u \in absent
    /\ pc \in {"sourceHead", "primaryHead"} => held.version # 0 /\ Fresh(held)
    /\ \A m \in sources : Fresh(m)
    /\ pc = "concordance" => sources = {}
    /\ pc # "failed" /\ (pc = "done" => ~HasPrimary) =>
         /\ (tid = 0) <=> (last.version = 0)
         /\ tid >= last.version
         /\ sources = {} => tid = 0
    /\ pc = "done" /\ HasPrimary =>
         /\ held.version > 0
         /\ IF sources = {} THEN tid = 0
            ELSE tid # 0 /\ tid >= held.version

\* An object that is there is the newest version, and newer than `before`.
LEMMA ObjectIsNewest ==
    ASSUME TypeOK, Inv, NEW u \in Uuid
    PROVE  /\ object[u] \in Nat /\ newest[u] \in Nat /\ before[u] \in Nat
           /\ before[u] <= newest[u]
           /\ object[u] = 0 \/ object[u] = newest[u]
<1>1. MaxVersion \in Nat
  BY AggregationAssumption
<1>2. /\ object[u] \in 0..MaxVersion /\ newest[u] \in 0..MaxVersion
      /\ before[u] \in 0..MaxVersion
  BY DEF TypeOK
<1>3. object[u] = 0 \/ object[u] = newest[u]
  BY DEF TypeOK
<1>4. before[u] <= newest[u]
  BY DEF Inv
<1> QED
  BY <1>1, <1>2, <1>3, <1>4

\* The uuids and versions of what is fetched.
LEMMA MemberParts ==
    ASSUME TypeOK
    PROVE  /\ held.record.uuid \in Uuid /\ held.version \in Nat
           /\ last.version \in Nat /\ tid \in Nat
           /\ \A m \in sources : m.record.uuid \in Uuid /\ m.version \in Nat
           /\ \A r \in records : r.uuid \in Uuid
BY AggregationAssumption DEF TypeOK, Member, Record

\* A step that only makes objects newer and concepts absent leaves fresh what
\* was fresh.
LEMMA FreshStays ==
    ASSUME UNCHANGED before, absent \subseteq absent',
           \A u \in Uuid : /\ newest[u] <= newest'[u]
                           /\ newest[u] \in Nat /\ newest'[u] \in Nat,
           NEW m, m.record.uuid \in Uuid, m.version \in Nat, Fresh(m)
    PROVE  Fresh(m)'
BY DEF Fresh

LEMMA Invariant == Spec => []Inv
<1>1. Init => Inv
  <2> SUFFICES ASSUME Init PROVE Inv
    OBVIOUS
  <2>1. \A u \in Uuid : before[u] <= newest[u]
    BY DEF Init
  <2>2. /\ pc = "concordance" /\ sources = {}
        /\ tid = 0 /\ last.version = 0
    BY DEF Init, NoMember
  <2> QED
    BY <2>1, <2>2 DEF Inv
<1>2. TypeOK /\ Inv /\ [Next]_vars => Inv'
  <2> SUFFICES ASSUME TypeOK, Inv, [Next]_vars PROVE Inv'
    OBVIOUS
  <2> USE AggregationAssumption DEF bucketState, locals, history
  <2>0. \A u \in Uuid : newest[u] \in Nat /\ before[u] \in Nat
    BY ObjectIsNewest
  <2>1. ASSUME NEW u \in Uuid, Publish(u) \/ Delete(u) PROVE Inv'
    <3>1. \A v \in Uuid : newest[v] <= newest'[v] /\ newest'[v] \in Nat
      BY <2>0, <2>1 DEF Publish, Delete, TypeOK
    <3>2. /\ UNCHANGED <<pc, records, held, sources, last, tid, before>>
          /\ absent \subseteq absent'
      BY <2>1 DEF Publish, Delete
    <3>3. \A v \in Uuid : before'[v] <= newest'[v]
      BY <2>0, <3>1, <3>2, ObjectIsNewest
    <3>4. Fresh(held) => Fresh(held)'
      <4>1. ASSUME Fresh(held) PROVE Fresh(held)'
        <5>1. PICK h : h = held
          OBVIOUS
        <5> QED
          BY <2>0, <3>1, <3>2, <4>1, <5>1, MemberParts DEF Fresh
      <4> QED
        BY <4>1
    <3>5. \A m \in sources : Fresh(m)'
      <4> SUFFICES ASSUME NEW m \in sources PROVE Fresh(m)'
        OBVIOUS
      <4>1. Fresh(m) /\ m.record.uuid \in Uuid /\ m.version \in Nat
        BY MemberParts DEF Inv
      <4> QED
        BY <2>0, <3>1, <3>2, <4>1, FreshStays
    <3>6. pc \notin {"concordance", "failed"} =>
            \A v \in Uuid : object'[v] = 0 => v \in absent'
      <4> SUFFICES ASSUME pc \notin {"concordance", "failed"}, NEW v \in Uuid,
                          object'[v] = 0
                   PROVE  v \in absent'
        OBVIOUS
      <4>1. CASE object[v] = 0
        BY <3>2, <4>1 DEF Inv
      <4>2. CASE object[v] # 0
        BY <2>0, <2>1, <4>2 DEF Publish, Delete, TypeOK
      <4> QED
        BY <4>1, <4>2
    <3>7. HasPrimary' <=> HasPrimary
      BY <3>2, PrimaryUnchanged
    <3> QED
      BY <3>2, <3>3, <3>4, <3>5, <3>6, <3>7 DEF Inv
  <2>2. CASE GetConcordance
    <3>1. /\ pc = "concordance" /\ pc' \in {"failed", "sources"}
          /\ before' = object /\ absent' = {u \in Uuid : object[u] = 0}
          /\ UNCHANGED <<object, newest, sources, last, tid>>
      BY <2>2 DEF GetConcordance
    <3>2. sources = {} /\ sources' = {}
      BY <3>1 DEF Inv
    <3>3. \A u \in Uuid : before'[u] <= newest'[u]
      BY <3>1, ObjectIsNewest
    <3>4. tid = 0 /\ last.version = 0
      BY <3>1 DEF Inv
    <3> QED
      BY <3>1, <3>2, <3>3, <3>4 DEF Inv
  <2>3. ASSUME UNCHANGED <<object, newest, before, absent, records>>
        PROVE  /\ \A m : Fresh(m)' <=> Fresh(m)
               /\ HasPrimary' <=> HasPrimary
    BY <2>3, PrimaryUnchanged DEF Fresh
  \* A step that changes nothing the invariant is about but where the run is.
  <2>4. ASSUME UNCHANGED <<object, newest, before, absent, records, held,
                           sources, last, tid>>,
               \/ pc' = "failed" /\ pc \notin {"done", "concordance"}
               \/ pc' = "failed" /\ pc = "concordance" /\ sources = {}
               \/ pc' = pc
               \/ pc = "sources" /\ pc' = "primary"
               \/ pc = "sources" /\ pc' = "done" /\ ~HasPrimary
        PROVE  Inv'
    BY <2>3, <2>4 DEF Inv
  <2>5. ASSUME NEW authority \in Authority, OpenBucket(authority) PROVE Inv'
    BY <2>4, <2>5 DEF OpenBucket
  <2>6. ASSUME NEW r \in bucket, GetSource(r) PROVE Inv'
    <3>1. /\ pc = "sources" /\ r.uuid \in Uuid
          /\ UNCHANGED <<object, newest, before, absent, records>>
      BY <2>6 DEF GetSource, TypeOK, Record
    <3>2. object[r.uuid] = 0 => r.uuid \in absent
      BY <3>1 DEF Inv
    <3>3. CASE object[r.uuid] = 0
      <4>1. /\ sources' = sources \cup {Thing(r)} /\ last' = Thing(r)
            /\ tid' = 0 /\ pc' = "sources"
        BY <2>6, <3>1, <3>3 DEF GetSource, Append
      <4>2. Thing(r).version = 0 /\ Thing(r).record.uuid \in absent
        BY <3>2, <3>3 DEF Thing
      <4>3. Fresh(Thing(r))
        BY <4>2, <2>0, <3>1 DEF Fresh, Thing
      <4> QED
        BY <2>3, <3>1, <4>1, <4>2, <4>3 DEF Inv
    <3>4. CASE object[r.uuid] # 0
      <4>1. /\ held' = [record |-> r, version |-> object[r.uuid]]
            /\ UNCHANGED <<sources, last, tid>> /\ pc' = "sourceHead"
        BY <2>6, <3>4 DEF GetSource
      <4>2. held'.version # 0 /\ Fresh(held')
        BY <2>0, <3>1, <3>4, <4>1, ObjectIsNewest DEF Fresh
      <4> QED
        BY <2>3, <3>1, <4>1, <4>2 DEF Inv
    <3> QED
      BY <3>3, <3>4
  <2>7. CASE HeadSource
    <3>1. /\ pc = "sourceHead" /\ held.record.uuid \in Uuid
          /\ UNCHANGED <<object, newest, before, absent, records, held>>
      BY <2>7, MemberParts DEF HeadSource
    <3>2. CASE object[held.record.uuid] = 0
      BY <2>4, <2>7, <3>1, <3>2 DEF HeadSource
    <3>3. CASE object[held.record.uuid] # 0
      <4>1. /\ sources' = sources \cup {held} /\ last' = held
            /\ tid' = object[held.record.uuid] /\ pc' = "sources"
        BY <2>7, <3>3 DEF HeadSource, Append
      <4>2. Fresh(held) /\ held.version # 0
        BY <3>1 DEF Inv
      <4>3. object[held.record.uuid] = newest[held.record.uuid]
        BY <3>1, <3>3, ObjectIsNewest
      <4>4. tid' # 0 /\ tid' >= held.version
        BY <3>3, <4>1, <4>2, <4>3, MemberParts, <2>0, <3>1 DEF Fresh
      <4> QED
        BY <2>3, <3>1, <4>1, <4>2, <4>4 DEF Inv
    <3> QED
      BY <3>2, <3>3
  <2>8. CASE SourcesDone
    BY <2>4, <2>8 DEF SourcesDone, AfterSources
  <2>9. CASE GetPrimary
    <3>1. /\ pc = "primary" /\ PrimaryRecord.uuid \in Uuid
          /\ UNCHANGED <<object, newest, before, absent, records, sources, last>>
          /\ held' = [record |-> PrimaryRecord,
                      version |-> object[PrimaryRecord.uuid]]
      BY <2>9, PrimaryRecordListed DEF GetPrimary, TypeOK, Record
    <3>2. CASE object[PrimaryRecord.uuid] = 0
      <4>1. pc' = "failed"
        BY <2>9, <3>2 DEF GetPrimary, WithoutPrimary
      <4> QED
        BY <2>3, <3>1, <4>1 DEF Inv
    <3>3. CASE object[PrimaryRecord.uuid] # 0
      <4>1. pc' = "primaryHead" /\ UNCHANGED tid
        BY <2>9, <3>3 DEF GetPrimary
      <4>2. held'.version # 0 /\ Fresh(held')
        BY <2>0, <3>1, <3>3, ObjectIsNewest DEF Fresh
      <4> QED
        BY <2>3, <3>1, <4>1, <4>2 DEF Inv
    <3> QED
      BY <3>2, <3>3
  <2>10. CASE HeadPrimary
    <3>1. /\ pc = "primaryHead" /\ held.record.uuid \in Uuid /\ HasPrimary
          /\ UNCHANGED <<object, newest, before, absent, records, held>>
      BY <2>10, MemberParts DEF HeadPrimary, TypeOK
    <3>2. CASE object[held.record.uuid] = 0
      BY <2>4, <2>10, <3>1, <3>2 DEF HeadPrimary
    <3>3. CASE object[held.record.uuid] # 0
      <4>1. Fresh(held) /\ held.version # 0 /\ held.version > 0
        BY <3>1, MemberParts DEF Inv
      <4>2. object[held.record.uuid] = newest[held.record.uuid]
        BY <3>1, <3>3, ObjectIsNewest
      <4>3. object[held.record.uuid] >= held.version
        BY <4>1, <4>2, MemberParts, <2>0, <3>1 DEF Fresh
      <4>4. pc' = "done" /\ (TakePrimary \/ DropPrimary)
        BY <2>10, <3>3 DEF HeadPrimary
      <4>5. /\ sources' \subseteq sources \cup {held}
            /\ IF sources' = {} THEN tid' = 0
               ELSE tid' = object[held.record.uuid]
        BY <4>4 DEF TakePrimary, DropPrimary, Append, TransactionId
      <4>6. \A m \in sources' : Fresh(m)
        BY <4>1, <4>5 DEF Inv
      <4> QED
        BY <2>3, <3>1, <3>3, <4>1, <4>3, <4>4, <4>5, <4>6 DEF Inv
    <3> QED
      BY <3>2, <3>3
  <2>11. CASE Fail
    <3>1. pc = "concordance" => sources = {}
      BY DEF Inv
    <3> QED
      BY <2>4, <2>11, <3>1 DEF Fail
  <2>12. CASE UNCHANGED vars
    BY <2>4, <2>12 DEF vars
  <2> QED
    BY <2>1, <2>2, <2>5, <2>6, <2>7, <2>8, <2>9, <2>10, <2>11, <2>12 DEF Next
<1> QED
  BY <1>1, <1>2, TypeCorrect, PTL DEF Spec

\* The transaction id of the result is that of the object read last, the
\* primary concept if there is one.
THEOREM TransactionIdTraces == Spec => []TransactionIdOfLastRead
<1>1. Inv => TransactionIdOfLastRead
  BY DEF Inv, TransactionIdOfLastRead, LastRead, Done
<1> QED
  BY <1>1, Invariant, PTL

\* Every member of the result is as new as its object was when the run began,
\* and one that is missing had no object at some time during the run.
THEOREM AggregateIsFresh == Spec => []MembersAreFresh
<1>1. Inv => MembersAreFresh
  BY DEF Inv, Fresh, MembersAreFresh
<1> QED
  BY <1>1, Invariant, PTL

\* Without the object of the primary concept a run gives no aggregate.
THEOREM PrimaryNeverMissing == Spec => []PrimaryExists
<1>1. Inv => PrimaryExists
  BY DEF Inv, PrimaryExists, Done
<1> QED
  BY <1>1, Invariant, PTL

\* The run goes on with the concept it was asked for only if no primary
\* authority has two records, reads the primary concept by its own record, and
\* makes it the last of its sources unless it has no uuid.
PrimaryInv ==
    /\ pc \notin {"concordance", "failed"} => ~ Ambiguous(records)
    /\ pc = "primaryHead" => held.record = PrimaryRecord
    /\ pc = "done" /\ HasPrimary =>
         /\ held.record = PrimaryRecord
         /\ HasUuid(held) => last = held /\ held \in sources

LEMMA PrimaryInvariant == Spec => []PrimaryInv
<1>1. Init => PrimaryInv
  BY DEF Init, PrimaryInv
<1>2. PrimaryInv /\ [Next]_vars => PrimaryInv'
  <2> SUFFICES ASSUME PrimaryInv, [Next]_vars PROVE PrimaryInv'
    OBVIOUS
  <2>1. CASE GetConcordance
    BY <2>1 DEF GetConcordance, PrimaryInv
  <2>2. ASSUME records' = records,
               \/ UNCHANGED <<pc, held, last, sources>>
               \/ /\ pc \in {"sources", "sourceHead"}
                  /\ pc' \in {"sources", "sourceHead", "primary"}
               \/ pc' = "failed"
               \/ pc' = "done" /\ pc = "sources" /\ ~ HasPrimary
               \/ /\ pc' = "primaryHead" /\ pc = "primary"
                  /\ held'.record = PrimaryRecord
               \/ /\ pc' = "done" /\ pc = "primaryHead" /\ held' = held
                  /\ HasUuid(held) => last' = held /\ held \in sources'
        PROVE  PrimaryInv'
    BY <2>2, PrimaryUnchanged DEF PrimaryInv, HasUuid
  <2>3. ASSUME NEW u \in Uuid, Publish(u) \/ Delete(u) PROVE PrimaryInv'
    BY <2>3, <2>2 DEF Publish, Delete, locals
  <2>4. ASSUME NEW authority \in Authority, OpenBucket(authority) PROVE PrimaryInv'
    BY <2>4, <2>2 DEF OpenBucket
  <2>5. ASSUME NEW r \in bucket, GetSource(r) PROVE PrimaryInv'
    BY <2>5, <2>2 DEF GetSource
  <2>6. CASE HeadSource
    BY <2>6, <2>2 DEF HeadSource
  <2>7. CASE SourcesDone
    BY <2>7, <2>2 DEF SourcesDone, AfterSources, locals
  <2>8. CASE GetPrimary
    BY <2>8, <2>2 DEF GetPrimary, WithoutPrimary
  <2>9. CASE HeadPrimary
    BY <2>9, <2>2 DEF HeadPrimary, TakePrimary, DropPrimary, Append
  <2>10. CASE Fail
    BY <2>10, <2>2 DEF Fail, locals
  <2>11. CASE UNCHANGED vars
    BY <2>11, <2>2 DEF vars, locals
  <2> QED
    BY <2>1, <2>3, <2>4, <2>5, <2>6, <2>7, <2>8, <2>9, <2>10, <2>11 DEF Next
<1> QED
  BY <1>1, <1>2, PTL DEF Spec

\* Without ambiguity the primary authority has one record, the primary one.
LEMMA OnePrimaryRecord ==
    ASSUME ~ Ambiguous(records), NEW r \in records, HasPrimary,
           r.authority = PrimaryAuthority(records)
    PROVE  r = PrimaryRecord
<1>1. PrimaryAuthority(records) \in {"Smartlogic", "ManagedLocation"}
  BY DEF HasPrimary, PrimaryAuthority
<1>2. r \in Of(records, PrimaryAuthority(records))
  BY DEF Of
<1>3. \A s \in Of(records, PrimaryAuthority(records)) : s = r
  BY <1>1, <1>2 DEF Ambiguous
<1> QED
  BY <1>2, <1>3 DEF PrimaryRecord

\* Whatever the concordance service answers, the object read last is that of
\* the only primary record, a Smartlogic one before a ManagedLocation one, and
\* it is the canonical concept unless its JSON has no uuid.
THEOREM CanonicalIsThePrimary == Spec => []CanonicalIsPrimary
<1>1. PrimaryInv => CanonicalIsPrimary
  <2> SUFFICES ASSUME PrimaryInv, Done PROVE
        /\ \A authority \in {"Smartlogic", "ManagedLocation"} :
             \A r, s \in Of(records, authority) : r = s
        /\ \A r \in Of(records, "Smartlogic") : Chosen(r)
        /\ Of(records, "Smartlogic") = {} =>
             \A r \in Of(records, "ManagedLocation") : Chosen(r)
    BY DEF CanonicalIsPrimary
  <2>1. /\ ~ Ambiguous(records)
        /\ HasPrimary => Chosen(PrimaryRecord)
    BY DEF PrimaryInv, Done, Chosen, Canonical
  <2>2. ASSUME NEW r \in Of(records, "Smartlogic") PROVE Chosen(r)
    <3>1. PrimaryAuthority(records) = "Smartlogic" /\ r \in records
          /\ r.authority = "Smartlogic"
      BY <2>2 DEF PrimaryAuthority, Of
    <3> QED
      BY <2>1, <3>1, OnePrimaryRecord DEF HasPrimary
  <2>3. ASSUME Of(records, "Smartlogic") = {},
               NEW r \in Of(records, "ManagedLocation")
        PROVE  Chosen(r)
    <3>1. PrimaryAuthority(records) = "ManagedLocation" /\ r \in records
          /\ r.authority = "ManagedLocation"
      BY <2>3 DEF PrimaryAuthority, Of
    <3> QED
      BY <2>1, <3>1, OnePrimaryRecord DEF HasPrimary
  <2> QED
    BY <2>1, <2>2, <2>3 DEF Ambiguous
<1> QED
  BY <1>1, PrimaryInvariant, PTL

\* The records whose group is behind the run: neither still to be opened nor
\* left for the end.
Opened(r) == r.authority \notin todo /\ ~ Skipped(r.authority)

\* Each opened record is in exactly one of three places: still to be fetched,
\* read but for its metadata, or among the sources, where only the primary
\* concept joins it in the end.
SourcesInv ==
    /\ pc = "concordance" => sources = {} /\ bucket = {}
    /\ \A r \in bucket : r \in records /\ Opened(r)
    /\ pc = "sourceHead" =>
         /\ held.record \in records /\ Opened(held.record)
         /\ held.record \notin bucket
         /\ \A m \in sources : m.record # held.record
    /\ \A m \in sources :
         /\ m.record \in records /\ m.record \notin bucket
         /\ \/ Opened(m.record)
            \/ pc = "done" /\ HasPrimary /\ HasUuid(held) /\ m = held
    /\ \A m, n \in sources : m.record = n.record => m = n
    /\ pc \notin {"concordance", "failed"} =>
         \A r \in records : Opened(r) =>
             \/ r \in bucket
             \/ pc = "sourceHead" /\ r = held.record
             \/ \E m \in sources : m.record = r
    /\ pc \in {"primary", "primaryHead", "done"} => todo = {} /\ bucket = {}

LEMMA SourcesInvariant == Spec => []SourcesInv
<1>1. Init => SourcesInv
  BY DEF Init, SourcesInv
<1>2. TypeOK /\ PrimaryInv /\ SourcesInv /\ [Next]_vars => SourcesInv'
  <2> SUFFICES ASSUME TypeOK, PrimaryInv, SourcesInv, [Next]_vars
               PROVE  SourcesInv'
    OBVIOUS
  <2>1. CASE GetConcordance
    <3>1. \A r \in records' : ~ Opened(r)'
      BY <2>1 DEF GetConcordance, Opened
    <3>2. sources' = {} /\ bucket' = {} /\ pc' \in {"failed", "sources"}
      BY <2>1 DEF GetConcordance, SourcesInv
    <3> QED
      BY <3>1, <3>2 DEF SourcesInv
  <2>2. ASSUME records' = records, todo' = todo
        PROVE  /\ \A r : Opened(r)' <=> Opened(r)
               /\ HasPrimary' <=> HasPrimary
    BY <2>2, PrimaryUnchanged DEF Opened, Skipped
  <2>3. ASSUME UNCHANGED <<pc, records, todo, bucket, held, sources>>
        PROVE  SourcesInv'
    BY <2>2, <2>3 DEF SourcesInv, HasUuid
  <2>4. ASSUME UNCHANGED <<records, todo, bucket, sources>>,
               \/ pc' = "failed" /\ pc # "done"
               \/ pc' = "primaryHead" /\ pc = "primary"
        PROVE  SourcesInv'
    BY <2>2, <2>4 DEF SourcesInv
  <2>5. ASSUME NEW u \in Uuid, Publish(u) \/ Delete(u) PROVE SourcesInv'
    BY <2>5, <2>3 DEF Publish, Delete, locals
  <2>6. ASSUME NEW authority \in Authority, OpenBucket(authority)
        PROVE  SourcesInv'
    <3>1. /\ pc = "sources" /\ bucket = {} /\ authority \in todo
          /\ todo' = todo \ {authority}
          /\ UNCHANGED <<pc, records, held, sources>>
      BY <2>6 DEF OpenBucket
    <3>2. /\ \A a : Skipped(a)' <=> Skipped(a)
          /\ HasPrimary' <=> HasPrimary
      BY <3>1, PrimaryUnchanged DEF Skipped
    <3>3. \A r : Opened(r)' <=>
              (Opened(r) \/ (r.authority = authority /\ ~ Skipped(authority)))
      BY <3>1, <3>2 DEF Opened
    <3>4. \A r : r \in bucket' <=> /\ r \in records /\ r.authority = authority
                                   /\ ~ Skipped(authority)
      BY <2>6 DEF OpenBucket, Of
    <3>5. ASSUME NEW m \in sources
          PROVE  m.record \notin bucket' /\ Opened(m.record)
      <4>1. Opened(m.record)
        BY <3>1 DEF SourcesInv
      <4>2. m.record.authority # authority
        BY <3>1, <4>1 DEF Opened
      <4> QED
        BY <3>4, <4>1, <4>2
    <3> QED
      BY <3>1, <3>2, <3>3, <3>4, <3>5 DEF SourcesInv
  <2>7. ASSUME NEW r \in bucket, GetSource(r) PROVE SourcesInv'
    <3>1. /\ pc = "sources" /\ bucket' = bucket \ {r}
          /\ UNCHANGED <<records, todo>>
          /\ r \in records /\ Opened(r)
      BY <2>7 DEF GetSource, SourcesInv
    <3>2. CASE /\ sources' = sources \cup {Thing(r)}
               /\ UNCHANGED <<pc, held>>
      <4>1. Thing(r).record = r
        BY DEF Thing
      <4>2. \A m \in sources : m.record # r
        BY DEF SourcesInv
      <4> QED
        BY <2>2, <3>1, <3>2, <4>1, <4>2 DEF SourcesInv
    <3>3. CASE held'.record = r /\ pc' = "sourceHead" /\ sources' = sources
      BY <2>2, <3>1, <3>3 DEF SourcesInv
    <3> QED
      BY <2>7, <3>2, <3>3 DEF GetSource, Append
  <2>8. CASE HeadSource
    <3>1. pc = "sourceHead" /\ UNCHANGED <<records, todo, bucket, held>>
      BY <2>8 DEF HeadSource
    <3>2. CASE pc' = "failed" /\ sources' = sources
      BY <2>4, <3>1, <3>2
    <3>3. CASE pc' = "sources" /\ sources' = sources \cup {held}
      BY <2>2, <3>1, <3>3 DEF SourcesInv
    <3> QED
      BY <2>8, <3>2, <3>3 DEF HeadSource, Append
  <2>9. CASE SourcesDone
    BY <2>9, <2>2 DEF SourcesDone, AfterSources, SourcesInv, locals
  <2>10. CASE GetPrimary
    BY <2>4, <2>10 DEF GetPrimary, WithoutPrimary
  <2>11. CASE HeadPrimary
    <3>1. pc = "primaryHead" /\ UNCHANGED <<records, todo, bucket, held>>
      BY <2>11 DEF HeadPrimary
    <3>2. CASE pc' = "failed" /\ sources' = sources
      BY <2>4, <3>1, <3>2
    <3>3. CASE pc' = "done" /\ ~HasUuid(held) /\ sources' = sources
      BY <2>2, <3>1, <3>3 DEF SourcesInv
    <3>4. CASE pc' = "done" /\ HasUuid(held) /\ sources' = sources \cup {held}
      <4>1. HasPrimary /\ held.record = PrimaryRecord
        BY <3>1 DEF PrimaryInv, TypeOK
      <4>2. held.record \in records /\ Skipped(held.record.authority)
        BY <4>1, PrimaryRecordListed
      <4>3. \A m \in sources : m.record # held.record
        BY <3>1, <4>2 DEF SourcesInv, Opened
      <4>4. HasUuid(held)'
        BY <3>1, <3>4 DEF HasUuid
      <4> QED
        BY <2>2, <3>1, <3>4, <4>1, <4>2, <4>3, <4>4 DEF SourcesInv
    <3> QED
      BY <2>11, <3>2, <3>3, <3>4 DEF HeadPrimary, TakePrimary, DropPrimary, Append
  <2>12. CASE Fail
    BY <2>12, <2>4 DEF Fail, locals
  <2>13. CASE UNCHANGED vars
    BY <2>13, <2>3 DEF vars, locals
  <2> QED
    BY <2>1, <2>5, <2>6, <2>7, <2>8, <2>9, <2>10, <2>11, <2>12, <2>13 DEF Next
<1> QED
  BY <1>1, <1>2, TypeCorrect, PrimaryInvariant, PTL DEF Spec

\* Whatever the answer, the aggregate has each record once but for those that
\* are left out: no source is dropped by the order of the map iteration and the
\* primary concept is not merged with itself.
THEOREM MergedOnce == Spec => []EverySourceOnce
<1>1. PrimaryInv /\ SourcesInv => EverySourceOnce
  <2> SUFFICES ASSUME PrimaryInv, SourcesInv, Done
               PROVE  /\ {m.record : m \in sources} = records \ Omitted
                      /\ \A m, n \in sources : m.record = n.record => m = n
    BY DEF EverySourceOnce
  <2>1. pc = "done" /\ todo = {} /\ bucket = {} /\ ~ Ambiguous(records)
    BY DEF Done, SourcesInv, PrimaryInv
  <2>2. ASSUME HasPrimary
        PROVE  /\ held.record = PrimaryRecord /\ held.record \in records
               /\ Skipped(held.record.authority)
               /\ HasUuid(held) => held \in sources
               /\ Omitted = {r \in {held.record} : ~HasUuid(held)}
    BY <2>1, <2>2, PrimaryRecordListed DEF PrimaryInv, Omitted
  <2>3. ASSUME ~HasPrimary
        PROVE  /\ PrimaryAuthority(records) = ""
               /\ Omitted = Of(records, "")
    BY <2>3 DEF HasPrimary, Omitted
  <2>4. ASSUME NEW m \in sources PROVE m.record \in records \ Omitted
    <3>1. /\ m.record \in records
          /\ Opened(m.record) \/ (HasPrimary /\ HasUuid(held) /\ m = held)
      BY DEF SourcesInv
    <3>2. CASE HasPrimary
      BY <2>2, <3>1, <3>2 DEF Opened
    <3>3. CASE ~HasPrimary
      BY <2>3, <3>1, <3>3 DEF Opened, Skipped, Of
    <3> QED
      BY <3>2, <3>3
  <2>5. ASSUME NEW r \in records \ Omitted PROVE \E m \in sources : m.record = r
    <3>1. CASE ~Skipped(r.authority)
      BY <2>1, <3>1 DEF SourcesInv, Opened
    <3>2. CASE Skipped(r.authority) /\ HasPrimary
      <4>1. r = held.record
        BY <2>1, <2>2, <3>2, OnePrimaryRecord DEF Skipped
      <4> QED
        BY <2>2, <3>2, <4>1
    <3>3. CASE Skipped(r.authority) /\ ~HasPrimary
      BY <2>3, <3>3 DEF Skipped, Of
    <3> QED
      BY <3>1, <3>2, <3>3
  <2>6. \A m, n \in sources : m.record = n.record => m = n
    BY DEF SourcesInv
  <2>7. {m.record : m \in sources} = records \ Omitted
    BY <2>4, <2>5
  <2> QED
    BY <2>6, <2>7
<1> QED
  BY <1>1, PrimaryInvariant, SourcesInvariant, PTL

\* An answer lists a concept once, as the concordance service does.
ListedOnce ==
    \A answer \in Answer : \A r, s \in answer : r.uuid = s.uuid => r = s

RecordsListedOnce == \A r, s \in records : r.uuid = s.uuid => r = s

LEMMA RecordsOnce == ListedOnce => (Spec => []RecordsListedOnce)
<1> SUFFICES ASSUME ListedOnce PROVE Spec => []RecordsListedOnce
  OBVIOUS
<1>1. Init => RecordsListedOnce
  BY DEF Init, RecordsListedOnce
<1>2. RecordsListedOnce /\ [Next]_vars => RecordsListedOnce'
  <2> SUFFICES ASSUME RecordsListedOnce, [Next]_vars PROVE RecordsListedOnce'
    OBVIOUS
  <2>1. CASE GetConcordance
    <3>1. \A r, s \in SoloConcept : r.uuid = s.uuid => r = s
      BY DEF SoloConcept
    <3> QED
      BY <2>1, <3>1 DEF GetConcordance, ListedOnce, RecordsListedOnce
  <2>2. CASE UNCHANGED records
    BY <2>2 DEF RecordsListedOnce
  <2> QED
    BY <2>1, <2>2 DEF Next, vars, bucketState, locals, Publish, Delete,
       OpenBucket, GetSource, HeadSource, SourcesDone, GetPrimary, HeadPrimary,
       Fail
<1> QED
  BY <1>1, <1>2, PTL DEF Spec

\* The steps of the one reader there is.
LEMMA ReaderStutters ==
    ASSUME UNCHANGED <<ReadPhase, Unread, Got, object>>
    PROVE  UNCHANGED Reads!vars
BY DEF Reads!vars, Got

LEMMA ObjectChanges ==
    ASSUME UNCHANGED <<ReadPhase, Unread, Got>>,
           NEW u \in Uuid, NEW v \in 0..MaxVersion,
           object' = [object EXCEPT ![u] = v]
    PROVE  Reads!Next
<1>1. Reads!Change(u, v)
  BY DEF Reads!Change, Got
<1> QED
  BY <1>1 DEF Reads!Next

LEMMA ReaderLeaves ==
    ASSUME UNCHANGED object, ReadPhase' = "idle"
    PROVE  Reads!Next
<1>1. Unread' = {}
  BY DEF Unread
<1>2. Reads!Leave({Requested})
  BY <1>1 DEF Reads!Leave, Got
<1> QED
  BY <1>2 DEF Reads!Next

LEMMA ReaderBegins ==
    ASSUME UNCHANGED object, ReadPhase = "idle", ReadPhase' = "reading",
           Unread' \subseteq Uuid, Got' = {}
    PROVE  Reads!Next
<1>1. Reads!Begin(Requested, Unread')
  BY DEF Reads!Begin, Got
<1> QED
  BY <1>1 DEF Reads!Next

LEMMA ReaderReads ==
    ASSUME UNCHANGED object, NEW u \in Uuid, u \in Unread,
           ReadPhase = "reading", ReadPhase' = "reading",
           Unread' = Unread \ {u},
           Got' = Got \cup {[uuid |-> u, version |-> object[u]]}
    PROVE  Reads!Next
<1>1. Reads!Read(Requested, u)
  BY DEF Reads!Read, Got
<1> QED
  BY <1>1 DEF Reads!Next

LEMMA ReaderFinishes ==
    ASSUME UNCHANGED object, ReadPhase = "reading", ReadPhase' = "read",
           Unread = {}, Got' = Got
    PROVE  Reads!Next
<1>1. Unread' = {}
  BY DEF Unread
<1>2. Reads!Finish(Requested)
  BY <1>1 DEF Reads!Finish, Got
<1> QED
  BY <1>2 DEF Reads!Next

\* What a set of members has read of the bucket.
UuidsOf(ms) == {m.record.uuid : m \in ms}
ObjectsOf(ms) ==
    {[uuid |-> m.record.uuid, version |-> m.version] : m \in ms}

\* One member more is one uuid and one object more.
LEMMA OneMore ==
    ASSUME NEW ms, NEW m
    PROVE  /\ UuidsOf(ms \cup {m}) = UuidsOf(ms) \cup {m.record.uuid}
           /\ ObjectsOf(ms \cup {m}) =
                ObjectsOf(ms) \cup
                  {[uuid |-> m.record.uuid, version |-> m.version]}
BY DEF UuidsOf, ObjectsOf

\* A run reads one more member, of a record that it wants and has not read.
LEMMA ReaderReadsMember ==
    ASSUME UNCHANGED <<object, records>>, NEW r \in records, r.uuid \in Uuid,
           ReadPhase = "reading", ReadPhase' = "reading",
           r.uuid \in Wanted, r.uuid \notin UuidsOf(Fetched),
           Fetched' = Fetched \cup {[record |-> r, version |-> object[r.uuid]]}
    PROVE  Reads!Next
<1>1. Wanted' = Wanted
  BY PrimaryUnchanged DEF Wanted
<1> DEFINE m == [record |-> r, version |-> object[r.uuid]]
<1>2. m.record.uuid = r.uuid /\ m.version = object[r.uuid]
  OBVIOUS
<1>3. /\ UuidsOf(Fetched') = UuidsOf(Fetched) \cup {r.uuid}
      /\ ObjectsOf(Fetched') =
           ObjectsOf(Fetched) \cup {[uuid |-> r.uuid, version |-> object[r.uuid]]}
  <2>1. \A ms : /\ UuidsOf(ms \cup {m}) = UuidsOf(ms) \cup {m.record.uuid}
                /\ ObjectsOf(ms \cup {m}) =
                     ObjectsOf(ms) \cup
                       {[uuid |-> m.record.uuid, version |-> m.version]}
    BY OneMore
  <2> HIDE DEF m
  <2>2. Fetched' = Fetched \cup {m}
    BY DEF m
  <2> QED
    BY <1>2, <2>1, <2>2
<1>4. /\ Unread = Wanted \ UuidsOf(Fetched) /\ Got = ObjectsOf(Fetched)
      /\ Unread' = Wanted' \ UuidsOf(Fetched') /\ Got' = ObjectsOf(Fetched')
  BY DEF Unread, Got, UuidsOf, ObjectsOf
<1>5. r.uuid \in Unread /\ Unread' = Unread \ {r.uuid}
  BY <1>1, <1>3, <1>4
<1>6. Got' = Got \cup {[uuid |-> r.uuid, version |-> object[r.uuid]]}
  BY <1>3, <1>4
<1> QED
  BY <1>5, <1>6, ReaderReads

\* The opened records are wanted, and so is the primary concept.
LEMMA WantedRecords ==
    \A r \in records :
        /\ Opened(r) => r.uuid \in Wanted
        /\ HasPrimary => r.uuid \in Wanted
        /\ ~HasPrimary /\ Skipped(r.authority) => r.authority = ""
BY DEF Opened, Skipped, HasPrimary, Wanted

\* If the answer lists a concept once, a run reads its sources as SourceReads
\* says: each wanted one once, and all of them before it returns.
THEOREM ImplementsReads == ListedOnce => (Spec => ReadsEachOnce)
<1> SUFFICES ASSUME ListedOnce PROVE Spec => ReadsEachOnce
  OBVIOUS
<1>1. Init => Reads!Init
  BY AggregationAssumption DEF Init, Reads!Init, ReadPhase, Unread, Got
<1>2. TypeOK /\ TypeOK' /\ PrimaryInv /\ SourcesInv /\ RecordsListedOnce
        /\ [Next]_vars => [Reads!Next]_(Reads!vars)
  <2> SUFFICES ASSUME TypeOK, TypeOK', PrimaryInv, SourcesInv,
                      RecordsListedOnce, [Next]_vars
               PROVE  [Reads!Next]_(Reads!vars)
    OBVIOUS
  <2>0. \A r \in records : r.uuid \in Uuid
    BY DEF TypeOK, Record
  <2>1. ASSUME UNCHANGED <<pc, records, held, sources>>
        PROVE  UNCHANGED <<ReadPhase, Unread, Got>>
    <3>1. Wanted' = Wanted /\ HasPrimary' = HasPrimary
      BY <2>1, PrimaryUnchanged DEF Wanted, HasPrimary
    <3> QED
      BY <2>1, <3>1 DEF ReadPhase, Unread, Got, Fetched, Done
  <2>2. ASSUME NEW u \in Uuid, Publish(u) PROVE Reads!Next
    <3>1. newest[u] + 1 \in 0..MaxVersion
      BY <2>2, AggregationAssumption DEF Publish, TypeOK
    <3> QED
      BY <2>1, <2>2, <3>1, ObjectChanges DEF Publish, locals
  <2>3. ASSUME NEW u \in Uuid, Delete(u) PROVE Reads!Next
    <3>1. 0 \in 0..MaxVersion
      BY AggregationAssumption
    <3> QED
      BY <2>1, <2>3, <3>1, ObjectChanges DEF Delete, locals
  <2>4. CASE GetConcordance
    <3>1. ReadPhase = "idle" /\ UNCHANGED object
      BY <2>4 DEF GetConcordance, ReadPhase, bucketState
    <3>2. CASE Ambiguous(records')
      BY <2>4, <3>1, <3>2, ReaderLeaves DEF GetConcordance, ReadPhase
    <3>3. CASE ~Ambiguous(records')
      <4>1. ReadPhase' = "reading"
        BY <2>4, <3>3 DEF GetConcordance, ReadPhase
      <4>2. Fetched' = {}
        BY <2>4, <3>3 DEF GetConcordance, SourcesInv, Fetched, Done
      <4>3. Got' = {}
        BY <4>2 DEF Got
      <4>4. Unread' \subseteq Uuid
        <5>1. \A r \in records' : r.uuid \in Uuid
          BY DEF TypeOK, Record
        <5>2. Wanted' \subseteq Uuid
          BY <5>1 DEF Wanted
        <5> QED
          BY <4>1, <5>2 DEF Unread
      <4> QED
        BY <3>1, <4>1, <4>3, <4>4, ReaderBegins
    <3> QED
      BY <3>2, <3>3
  <2>5. ASSUME NEW authority \in Authority, OpenBucket(authority)
        PROVE  UNCHANGED Reads!vars
    BY <2>1, <2>5, ReaderStutters DEF OpenBucket, bucketState
  <2>6. ASSUME NEW r \in bucket, GetSource(r) PROVE Reads!Next
    <3>1. /\ pc = "sources" /\ r \in records /\ Opened(r)
          /\ UNCHANGED <<object, records>>
      BY <2>6 DEF GetSource, bucketState, SourcesInv
    <3>2. \A m \in sources : m.record.uuid # r.uuid
      BY <3>1 DEF SourcesInv, RecordsListedOnce
    <3>3. Fetched = sources
      BY <3>1 DEF Fetched, Done
    <3>4. /\ Fetched' = sources \cup {[record |-> r, version |-> object[r.uuid]]}
          /\ pc' \in {"sources", "sourceHead"}
      BY <2>6 DEF GetSource, Append, Thing, Fetched, Done
    <3>5. ReadPhase = "reading" /\ ReadPhase' = "reading"
      BY <3>1, <3>4 DEF ReadPhase
    <3>6. r.uuid \in Wanted /\ r.uuid \notin UuidsOf(Fetched)
      BY <3>1, <3>2, <3>3, WantedRecords DEF UuidsOf
    <3> QED
      BY <2>0, <3>1, <3>3, <3>4, <3>5, <3>6, ReaderReadsMember
  <2>7. CASE HeadSource
    <3>1. UNCHANGED <<object, records, held>> /\ pc = "sourceHead"
      BY <2>7 DEF HeadSource, bucketState
    <3>2. CASE pc' = "failed"
      BY <3>1, <3>2, ReaderLeaves DEF ReadPhase
    <3>3. CASE pc' = "sources" /\ sources' = sources \cup {held}
      <4>1. Wanted' = Wanted /\ Fetched' = Fetched
        BY <3>1, <3>3, PrimaryUnchanged DEF Wanted, Fetched, Done
      <4> QED
        BY <3>1, <3>3, <4>1, ReaderStutters DEF ReadPhase, Unread, Got
    <3> QED
      BY <2>7, <3>2, <3>3 DEF HeadSource, Append
  <2>8. CASE SourcesDone
    <3>1. /\ UNCHANGED <<object, records, held, sources>>
          /\ pc = "sources" /\ bucket = {} /\ todo = {}
      BY <2>8 DEF SourcesDone, bucketState, locals
    <3>2. Wanted' = Wanted /\ Fetched = sources /\ (HasPrimary' <=> HasPrimary)
      BY <3>1, PrimaryUnchanged DEF Wanted, Fetched, Done
    <3>3. CASE HasPrimary
      <4>1. pc' = "primary"
        BY <2>8, <3>3 DEF SourcesDone, AfterSources
      <4>2. Fetched' = Fetched /\ UNCHANGED ReadPhase
        BY <3>1, <4>1 DEF Fetched, ReadPhase, Done
      <4> QED
        BY <3>1, <3>2, <4>2, ReaderStutters DEF Unread, Got
    <3>4. CASE ~HasPrimary
      <4>1. pc' = "done"
        BY <2>8, <3>4 DEF SourcesDone, AfterSources
      <4>2. Fetched' = Fetched /\ ReadPhase = "reading" /\ ReadPhase' = "read"
        BY <3>1, <3>2, <3>4, <4>1 DEF Fetched, ReadPhase, Done
      <4>3. \A r \in records : r.authority # "" =>
               \E m \in sources : m.record = r
        BY <3>1, <3>4, WantedRecords DEF SourcesInv, Opened
      <4>4. Unread = {}
        BY <3>2, <3>4, <4>2, <4>3 DEF Unread, Wanted
      <4> QED
        BY <3>1, <4>2, <4>4, ReaderFinishes DEF Got
    <3> QED
      BY <3>3, <3>4
  <2>9. CASE GetPrimary
    <3>1. /\ pc = "primary" /\ UNCHANGED <<object, records, sources>>
          /\ held' = [record |-> PrimaryRecord,
                      version |-> object[PrimaryRecord.uuid]]
      BY <2>9 DEF GetPrimary, bucketState
    <3>2. CASE pc' = "failed"
      BY <3>1, <3>2, ReaderLeaves DEF ReadPhase
    <3>3. CASE pc' = "primaryHead"
      <4>1. /\ HasPrimary /\ PrimaryRecord \in records
            /\ Skipped(PrimaryRecord.authority)
        BY <3>1, PrimaryRecordListed DEF TypeOK
      <4>2. ReadPhase = "reading" /\ ReadPhase' = "reading"
        BY <3>1, <3>3 DEF ReadPhase
      <4>3. Fetched = sources /\ Fetched' = sources \cup {held'}
        BY <3>1, <3>3 DEF Fetched, Done
      <4>4. \A m \in sources : m.record.uuid # PrimaryRecord.uuid
        BY <3>1, <4>1 DEF SourcesInv, RecordsListedOnce, Opened
      <4>5. /\ PrimaryRecord.uuid \in Wanted
            /\ PrimaryRecord.uuid \notin UuidsOf(Fetched)
        BY <4>1, <4>3, <4>4, WantedRecords DEF UuidsOf
      <4> QED
        BY <2>0, <3>1, <4>1, <4>2, <4>3, <4>5, ReaderReadsMember
    <3> QED
      BY <2>9, <3>2, <3>3 DEF GetPrimary, WithoutPrimary
  <2>10. CASE HeadPrimary
    <3>1. /\ pc = "primaryHead" /\ UNCHANGED <<object, records, held>>
          /\ pc' \in {"failed", "done"}
      BY <2>10 DEF HeadPrimary, bucketState
    <3>2. CASE pc' = "failed"
      BY <3>1, <3>2, ReaderLeaves DEF ReadPhase
    <3>3. CASE pc' = "done"
      <4>1. sources \cup {held} = sources' \cup {held}
        BY <2>10, <3>3 DEF HeadPrimary, TakePrimary, DropPrimary, Append
      <4>2. /\ HasPrimary /\ HasPrimary' /\ held.record = PrimaryRecord
            /\ ~Ambiguous(records)
        BY <3>1, PrimaryUnchanged DEF TypeOK, PrimaryInv
      <4>3. Fetched = sources \cup {held} /\ Fetched' = Fetched
        BY <3>1, <3>3, <4>1, <4>2 DEF Fetched, Done
      <4>4. ReadPhase = "reading" /\ ReadPhase' = "read"
        BY <3>1, <3>3 DEF ReadPhase
      <4>5. ASSUME NEW r \in records PROVE \E m \in Fetched : m.record = r
        <5>1. CASE Skipped(r.authority)
          BY <4>2, <4>3, <5>1, OnePrimaryRecord DEF Skipped
        <5>2. CASE ~Skipped(r.authority)
          BY <3>1, <4>3, <5>2 DEF SourcesInv, Opened
        <5> QED
          BY <5>1, <5>2
      <4>6. Unread = {}
        BY <4>4, <4>5 DEF Unread, Wanted
      <4> QED
        BY <3>1, <4>3, <4>4, <4>6, ReaderFinishes DEF Got
    <3> QED
      BY <3>1, <3>2, <3>3
  <2>11. CASE Fail
    BY <2>11, ReaderLeaves DEF Fail, ReadPhase, bucketState
  <2>12. CASE UNCHANGED vars
    BY <2>1, <2>12, ReaderStutters DEF vars, bucketState, locals
  <2> QED
    BY <2>2, <2>3, <2>4, <2>5, <2>6, <2>7, <2>8, <2>9, <2>10, <2>11, <2>12
       DEF Next
<1> QED
  BY <1>1, <1>2, TypeCorrect, PrimaryInvariant, SourcesInvariant, RecordsOnce,
     PTL DEF Spec, ReadsEachOnce, Reads!Spec
=============================================================================
