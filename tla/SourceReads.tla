----------------------------- MODULE SourceReads -----------------------------
(***************************************************************************)
(* What it means to read the sources of a canonical concept: a reader sets *)
(* out to read some sources, reads each of them exactly once, as the       *)
(* object in the bucket is at that moment, and has its result only when    *)
(* none is left.  Nothing is locked: objects change between two reads.     *)
(*                                                                         *)
(* Aggregation is how one run of getConcordedConcept does it, with groups, *)
(* two calls per object and errors; UpdatePipeline is how the attempts of  *)
(* ProcessMessage use it, many at a time.  Both implement this module,     *)
(* which is what allows UpdatePipeline to leave the rest to Aggregation.   *)
(***************************************************************************)
EXTENDS Naturals

CONSTANTS
    Reader,      \* those that can read at a time
    Source,      \* the concepts there are
    MaxVersion   \* bound: the newest version of an object

VARIABLES
    object,   \* object[s]: version of the object of s, 0 for none
    phase,    \* phase[r]: what reader r is doing
    unread,   \* unread[r]: the sources r has still to read
    got       \* got[r]: what r has read

vars == <<object, phase, unread, got>>

Init ==
    /\ object \in [Source -> 0..MaxVersion]
    /\ phase = [r \in Reader |-> "idle"]
    /\ unread = [r \in Reader |-> {}]
    /\ got = [r \in Reader |-> {}]

\* An editor's system publishes or deletes an object.
Change(s, v) ==
    /\ object' = [object EXCEPT ![s] = v]
    /\ UNCHANGED <<phase, unread, got>>

Begin(r, wanted) ==
    /\ phase[r] = "idle"
    /\ phase' = [phase EXCEPT ![r] = "reading"]
    /\ unread' = [unread EXCEPT ![r] = wanted]
    /\ UNCHANGED <<object, got>>

\* The last read may also end the reading.
Read(r, s) ==
    /\ phase[r] = "reading" /\ s \in unread[r]
    /\ unread' = [unread EXCEPT ![r] = @ \ {s}]
    /\ got' = [got EXCEPT ![r] = @ \cup {[uuid |-> s, version |-> object[s]]}]
    /\ \/ UNCHANGED phase
       \/ unread[r] = {s} /\ phase' = [phase EXCEPT ![r] = "read"]
    /\ UNCHANGED object

Finish(r) ==
    /\ phase[r] = "reading" /\ unread[r] = {}
    /\ phase' = [phase EXCEPT ![r] = "read"]
    /\ UNCHANGED <<object, unread, got>>

\* A reader fails, or is done with what it has read; those of a process that
\* dies do so together.
Leave(readers) ==
    /\ phase' = [r \in Reader |-> IF r \in readers THEN "idle" ELSE phase[r]]
    /\ unread' = [r \in Reader |-> IF r \in readers THEN {} ELSE unread[r]]
    /\ got' = [r \in Reader |-> IF r \in readers THEN {} ELSE got[r]]
    /\ UNCHANGED object

Next ==
    \/ \E s \in Source, v \in 0..MaxVersion : Change(s, v)
    \/ \E r \in Reader, wanted \in SUBSET Source : Begin(r, wanted)
    \/ \E r \in Reader, s \in Source : Read(r, s)
    \/ \E r \in Reader : Finish(r)
    \/ \E readers \in SUBSET Reader : Leave(readers)

Spec == Init /\ [][Next]_vars
==============================================================================
