--------------------------------- MODULE Gate ---------------------------------
(***************************************************************************)
(* A flag that lets workers begin their work.  A worker that has seen the  *)
(* flag set may begin one piece of work, even if the flag is cleared in    *)
(* between; for the next piece it has to see the flag set again.  Clearing *)
(* the flag interrupts nothing.                                            *)
(*                                                                         *)
(* systemHealth has two such flags, healthy and shutdown, which every      *)
(* worker reads one after the other, without a lock held over both or over *)
(* the poll that follows.  Listener implements this module for each.       *)
(***************************************************************************)

CONSTANTS
    Worker,       \* the workers
    OpenAtFirst,  \* the flag is set at first
    Reopens       \* it can be set again

VARIABLES
    open,      \* the flag is set
    cleared,   \* the workers that may begin
    busy       \* the workers at work

vars == <<open, cleared, busy>>

Init ==
    /\ open = OpenAtFirst
    /\ cleared = {}
    /\ busy = {}

Open ==
    /\ Reopens
    /\ open' = TRUE
    /\ UNCHANGED <<cleared, busy>>

Close ==
    /\ open' = FALSE
    /\ UNCHANGED <<cleared, busy>>

\* Worker w sees the flag set.
Pass(w) ==
    /\ open /\ w \notin busy
    /\ cleared' = cleared \cup {w}
    /\ UNCHANGED <<open, busy>>

\* Worker w has another reason not to begin.
TurnBack(w) ==
    /\ cleared' = cleared \ {w}
    /\ UNCHANGED <<open, busy>>

Begin(w) ==
    /\ w \in cleared
    /\ cleared' = cleared \ {w}
    /\ busy' = busy \cup {w}
    /\ UNCHANGED open

End(w) ==
    /\ busy' = busy \ {w}
    /\ UNCHANGED <<open, cleared>>

Next ==
    \/ Open \/ Close
    \/ \E w \in Worker : Pass(w) \/ TurnBack(w) \/ Begin(w) \/ End(w)

Spec == Init /\ [][Next]_vars
===============================================================================
