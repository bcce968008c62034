-------------------------- MODULE Notifications_proofs --------------------------
(***************************************************************************)
(* What Notifications guarantees for every number of workers, messages,    *)
(* UUIDs and words: with publications whose identifier is a UUID or has no *)
(* separator, names lead back to the objects they were made from.          *)
(***************************************************************************)
EXTENDS Notifications, SequenceTheorems, TLAPS

\* The publications the names are made for.
Plain ==
    {<<>>} \cup {<< <<q, "-">> >> : q \in Uuid}
           \cup {<< <<t, "word">> >> : t \in Word}

\* Readable messages are about objects where the S3 clients look for them.
PlainlyNotified ==
    \A m \in Readable : \E p \in Plain, u \in Uuid :
        Content[m].objects[1] = S3Object(p, <<u, "-">>)

LEMMA FirstIsLeast ==
    ASSUME NEW S \in SUBSET Nat, NEW i \in S, \A j \in S : i <= j
    PROVE  First(S) = i
<1>1. \A k \in S : (\A j \in S : k <= j) => k = i
  OBVIOUS
<1> QED
  BY <1>1 DEF First

LEMMA OneAndTwo ==
    ASSUME NEW a, NEW b, NEW c
    PROVE  <<a>> \o <<b, c>> = <<a, b, c>>
<1> DEFINE S == {a, b, c}
<1>1. /\ <<a>> \in Seq(S) /\ <<b, c>> \in Seq(S) /\ <<a, b, c>> \in Seq(S)
      /\ Len(<<a>>) = 1 /\ Len(<<b, c>>) = 2 /\ Len(<<a, b, c>>) = 3
  OBVIOUS
<1> HIDE DEF S
<1>2. /\ <<a>> \o <<b, c>> \in Seq(S)
      /\ Len(<<a>> \o <<b, c>>) = 3
      /\ \A i \in 1..3 : (<<a>> \o <<b, c>>)[i] =
           IF i <= 1 THEN <<a>>[i] ELSE <<b, c>>[i - 1]
  BY <1>1, ConcatProperties
<1>3. \A i \in 1..3 : (<<a>> \o <<b, c>>)[i] = <<a, b, c>>[i]
  BY <1>2
<1> QED
  BY <1>1, <1>2, <1>3, SeqEqual

LEMMA TwoAndOne ==
    ASSUME NEW a, NEW b, NEW c
    PROVE  (<<a>> \o <<b>>) \o <<c>> = <<a, b, c>>
<1> DEFINE S == {a, b, c}
           two == <<a>> \o <<b>>
<1>1. /\ <<a>> \in Seq(S) /\ <<b>> \in Seq(S) /\ <<c>> \in Seq(S)
      /\ <<a, b, c>> \in Seq(S) /\ Len(<<a>>) = 1 /\ Len(<<b>>) = 1
      /\ Len(<<c>>) = 1 /\ Len(<<a, b, c>>) = 3
  OBVIOUS
<1> HIDE DEF S
<1>2. /\ two \in Seq(S) /\ Len(two) = 2
      /\ \A i \in 1..2 : two[i] = IF i <= 1 THEN <<a>>[i] ELSE <<b>>[i - 1]
  BY <1>1, ConcatProperties
<1> HIDE DEF two
<1>3. /\ two \o <<c>> \in Seq(S) /\ Len(two \o <<c>>) = 3
      /\ \A i \in 1..3 : (two \o <<c>>)[i] =
           IF i <= 2 THEN two[i] ELSE <<c>>[i - 2]
  BY <1>1, <1>2, ConcatProperties
<1>4. \A i \in 1..3 : (two \o <<c>>)[i] = <<a, b, c>>[i]
  BY <1>2, <1>3
<1>5. two \o <<c>> = <<a, b, c>>
  BY <1>1, <1>3, <1>4, SeqEqual
<1> QED
  BY <1>5 DEF two

LEMMA FirstOfThree ==
    ASSUME NEW a, NEW b, NEW c
    PROVE  SubSeq(<<a, b, c>>, 1, 1) = <<a>>
<1> DEFINE s == SubSeq(<<a, b, c>>, 1, 1)
           S == {a}
<1>1. /\ s \in Seq(S) /\ Len(s) = 1
      /\ \A i \in 1..1 : s[i] = <<a, b, c>>[i]
  BY SubSeqProperties
<1>2. <<a>> \in Seq(S) /\ Len(<<a>>) = 1
  OBVIOUS
<1>3. \A i \in 1..Len(s) : s[i] = <<a>>[i]
  BY <1>1
<1> HIDE DEF s, S
<1>4. s = <<a>>
  BY <1>1, <1>2, <1>3, SeqEqual
<1> QED
  BY <1>4 DEF s

\* Taking a name apart gives back the publication and the concept it joins.
LEMMA NamesParse ==
    ASSUME NEW p \in Plain, NEW u \in Uuid
    PROVE  /\ Identifiers(RequestName(p, u)).publication = p
           /\ Identifiers(RequestName(p, u)).concept = <<u, "-">>
<1> DEFINE name == RequestName(p, u)
           ms == Matches(name, "-")
<1>1. CASE p = <<>>
  <2>1. name = << <<u, "-">> >>
    BY <1>1 DEF RequestName
  <2>2. ms = {1}
    BY <2>1 DEF Matches
  <2>3. First(ms) = 1
    BY <2>2, FirstIsLeast
  <2> QED
    BY <1>1, <2>1, <2>2, <2>3 DEF Identifiers
<1>2. ASSUME NEW q \in Uuid, p = << <<q, "-">> >>
      PROVE  /\ Identifiers(name).publication = p
             /\ Identifiers(name).concept = <<u, "-">>
  <2>1. name = << <<q, "-">>, <<Sep, "-">>, <<u, "-">> >>
    BY <1>2, OneAndTwo DEF RequestName
  <2>2. ms = {1, 3}
    BY <2>1, NotificationsAssumption DEF Matches
  <2>3. First(ms) = 1
    BY <2>2, FirstIsLeast
  <2>4. ms \ {1} = {3}
    BY <2>2
  <2>5. First({3}) = 3
    BY FirstIsLeast
  <2>6. Identifiers(name) = [publication |-> <<name[1]>>, concept |-> name[3]]
    <3> HIDE DEF name
    <3> QED
      BY <2>3, <2>4, <2>5 DEF Identifiers
  <2> QED
    BY <1>2, <2>1, <2>6
<1>3. ASSUME NEW t \in Word, p = << <<t, "word">> >>
      PROVE  /\ Identifiers(name).publication = p
             /\ Identifiers(name).concept = <<u, "-">>
  <2>1. name = << <<t, "word">>, <<Sep, "-">>, <<u, "-">> >>
    BY <1>3, OneAndTwo DEF RequestName
  <2>2. ms = {3}
    BY <2>1, NotificationsAssumption DEF Matches
  <2>3. First(ms) = 3
    BY <2>2, FirstIsLeast
  <2>4. {i \in DOMAIN name : name[i][2] = "-"} = {2, 3}
    BY <2>1
  <2>5. First({2, 3}) = 2
    BY FirstIsLeast
  <2>6. BeforeDash(name) = p
    <3>1. BeforeDash(name) = SubSeq(name, 1, 1)
      <4>1. First({2, 3}) - 1 = 1
        BY <2>5
      <4> HIDE DEF name
      <4> QED
        BY <2>4, <4>1 DEF BeforeDash
    <3> QED
      BY <1>3, <2>1, <3>1, FirstOfThree
  <2> QED
    BY <2>1, <2>2, <2>3, <2>6 DEF Identifiers
<1> QED
  BY <1>1, <1>2, <1>3 DEF Plain

\* The name made from the key of an object is the one a request would have.
LEMMA NamesAgree ==
    ASSUME NEW p \in Plain, NEW u \in Uuid
    PROVE  NameOf(S3Object(p, <<u, "-">>).key) = RequestName(p, u)
<1> DEFINE key == S3Object(p, <<u, "-">>).key
<1>0. Replace(<< <<u, "-">> >>, "-", "/") = << <<u, "/">> >>
  BY DEF Replace
<1>1. CASE p = <<>>
  <2>1. key = << <<u, "/">> >>
    BY <1>0, <1>1 DEF S3Object
  <2> QED
    BY <1>1, <2>1 DEF NameOf, Replace, RequestName
<1>2. ASSUME NEW x, x[2] # "/", p = <<x>>
      PROVE  NameOf(key) = RequestName(p, u)
  <2>1. key = <<x, <<Sep, "/">>, <<u, "/">> >>
    <3>1. key = (p \o << <<Sep, "/">> >>) \o << <<u, "/">> >>
      BY <1>0, <1>2 DEF S3Object
    <3> QED
      BY <3>1, <1>2, TwoAndOne
  <2>2. RequestName(p, u) = <<x, <<Sep, "-">>, <<u, "-">> >>
    BY <1>2, OneAndTwo DEF RequestName
  <2> QED
    BY <1>2, <2>1, <2>2 DEF NameOf, Replace
<1> QED
  BY <1>1, <1>2 DEF Plain

\* A request reads the object kept for the publication and concept it names.
LEMMA NamesLeadBack ==
    ASSUME NEW p \in Plain, NEW u \in Uuid
    PROVE  ObjectOf(RequestName(p, u)) = S3Object(p, <<u, "-">>)
BY NamesParse DEF ObjectOf

\* Every variable keeps its type; above all, nothing but readable messages is
\* ever handed on as a notification.
THEOREM TypeCorrect == Spec => []TypeOK
<1>1. Init => TypeOK
  <2>1. Init => panicked \in BOOLEAN
    BY DEF Init
  <2> QED
    BY <2>1 DEF Init, TypeOK
<1>2. TypeOK /\ [Next]_vars => TypeOK'
  <2> SUFFICES ASSUME TypeOK, [Next]_vars PROVE TypeOK'
    OBVIOUS
  <2> USE DEF TypeOK
  <2>1. ASSUME NEW m \in Msg, VisibilityTimeout(m) PROVE TypeOK'
    BY <2>1 DEF VisibilityTimeout
  <2>2. ASSUME NEW w \in Worker, NEW b \in Batches, Receive(w, b) PROVE TypeOK'
    BY <2>2 DEF Receive, Batches
  <2>3. ASSUME NEW w \in Worker, NEW m \in Msg, Map(w, m) PROVE TypeOK'
    BY <2>3 DEF Map, AfterMapping, NotificationsWith
  <2>4. ASSUME NEW w \in Worker, NEW m \in Msg, Panic(w, m) PROVE TypeOK'
    <3>1. panicked' \in BOOLEAN
      BY <2>4 DEF Panic
    <3> QED
      BY <2>4, <3>1 DEF Panic
  <2>5. ASSUME NEW w \in Worker, NEW m \in Msg, Update(w, m) PROVE TypeOK'
    BY <2>5 DEF Update
  <2>6. ASSUME NEW p \in Publication, NEW u \in Uuid, Get(p, u) PROVE TypeOK'
    BY <2>6 DEF Get
  <2>7. CASE UNCHANGED vars
    BY <2>7 DEF vars
  <2> QED
    BY <2>1, <2>2, <2>3, <2>4, <2>5, <2>6, <2>7 DEF Next
<1> QED
  BY <1>1, <1>2, PTL DEF Spec

\* What a worker reads for a message is the object the message is about.
THEOREM NotifiedIsFetched == PlainlyNotified => (Spec => []FetchesNotified)
<1> SUFFICES ASSUME PlainlyNotified PROVE Spec => []FetchesNotified
  OBVIOUS
<1>1. Init => FetchesNotified
  BY DEF Init, FetchesNotified
<1>2. \A m \in Readable : ObjectRead[m] = Content[m].objects[1]
  <2> TAKE m \in Readable
  <2> DEFINE o == Content[m].objects[1]
  <2>1. PICK p \in Plain, u \in Uuid : o = S3Object(p, <<u, "-">>)
    BY DEF PlainlyNotified
  <2>2. NameOf(o.key) = RequestName(p, u)
    BY <2>1, NamesAgree
  <2>3. ObjectOf(NameOf(o.key)) = o
    BY <2>1, <2>2, NamesLeadBack
  <2> QED
    BY <2>3 DEF ObjectRead
<1>3. TypeOK /\ FetchesNotified /\ [Next]_vars => FetchesNotified'
  <2> SUFFICES ASSUME TypeOK, FetchesNotified, [Next]_vars
               PROVE  FetchesNotified'
    OBVIOUS
  <2>1. CASE fetched' = fetched
    BY <2>1 DEF FetchesNotified
  <2>2. CASE \E w \in Worker, m \in Msg : Update(w, m)
    <3>1. PICK w \in Worker, m \in Msg : Update(w, m)
      BY <2>2
    <3>2. /\ m \in Readable
          /\ fetched' = [fetched EXCEPT ![m] = @ \cup {ObjectRead[m]}]
      BY <3>1 DEF Update, TypeOK
    <3> QED
      BY <3>2, <1>2 DEF FetchesNotified, TypeOK
  <2> QED
    BY <2>1, <2>2
       DEF Next, VisibilityTimeout, Receive, Map, Panic, Get, vars
<1> QED
  BY <1>1, <1>3, TypeCorrect, PTL DEF Spec

\* A request reads the object kept for the publication and concept it names.
THEOREM NamedIsRead ==
    Publication \subseteq Plain => (Spec => []RequestsReadNamed)
<1> SUFFICES ASSUME Publication \subseteq Plain
             PROVE  Spec => []RequestsReadNamed
  OBVIOUS
<1>1. TypeOK => RequestsReadNamed
  BY NamesLeadBack DEF TypeOK, RequestsReadNamed, Answer
<1> QED
  BY <1>1, TypeCorrect, PTL
================================================================================
