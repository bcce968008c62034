---------------------------- MODULE UpdatePromise ----------------------------
(***************************************************************************)
(* What the aggregate-concept-transformer promises to the editors, the     *)
(* graph and the consumers of its notifications about one canonical        *)
(* concept, with nothing of how it does it: no queue, no workers, no       *)
(* retries, no caches.                                                     *)
(*                                                                         *)
(* A canonical concept is an aggregate of its Source concepts.  A version  *)
(* of the aggregate is the tuple of the source versions it was built from, *)
(* a View.  Every publication of a source is announced to the service by   *)
(* one update <<s, v>>; the service settles an update (deletes its message *)
(* from the queue) only when the graph has been given a view that contains *)
(* that version of that source, and announces to its consumers only what   *)
(* it stored.                                                              *)
(***************************************************************************)
EXTENDS Naturals

CONSTANTS
    Source,      \* the source concepts concorded into the canonical concept
    MaxVersion   \* bound: how often one source is published

VARIABLES
    latest,      \* latest[s]: the newest published version of source s
    stored,      \* the views the graph has been given so far
    announced,   \* the views the consumers have been told of so far
    settled      \* the updates the service has declared finished

vars == <<latest, stored, announced, settled>>

View   == [Source -> 0..MaxVersion]
Update == Source \X (1..MaxVersion)
V0     == [s \in Source |-> 0]

\* A view contains an update if it was built from that version or a newer one.
Covers(w, m) == w[m[1]] >= m[2]

TypeOK ==
    /\ latest \in View
    /\ stored \subseteq View
    /\ announced \subseteq View
    /\ settled \subseteq Update

Init ==
    /\ latest = V0
    /\ stored = {V0}
    /\ announced = {V0}
    /\ settled = {}

Publish(s) ==
    /\ latest[s] < MaxVersion
    /\ latest' = [latest EXCEPT ![s] = @ + 1]
    /\ UNCHANGED <<stored, announced, settled>>

\* The graph is never given a version that was not published.
Store(w) ==
    /\ \A s \in Source : w[s] <= latest[s]
    /\ stored' = stored \cup {w}
    /\ UNCHANGED <<latest, announced, settled>>

Announce(w) ==
    /\ w \in stored
    /\ announced' = announced \cup {w}
    /\ UNCHANGED <<latest, stored, settled>>

Settle(m) ==
    /\ \E w \in stored : Covers(w, m)
    /\ settled' = settled \cup {m}
    /\ UNCHANGED <<latest, stored, announced>>

Next ==
    \/ \E s \in Source : Publish(s)
    \/ \E w \in View : Store(w) \/ Announce(w)
    \/ \E m \in Update : Settle(m)

Spec == Init /\ [][Next]_vars

\* Every published version of every source is eventually settled.
Settles ==
    \A m \in Update : (latest[m[1]] >= m[2]) ~> (m \in settled)
==============================================================================
