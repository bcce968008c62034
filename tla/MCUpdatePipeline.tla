--------------------------- MODULE MCUpdatePipeline ---------------------------
(***************************************************************************)
(* Small instances of UpdatePipeline for TLC.                              *)
(***************************************************************************)
EXTENDS UpdatePipeline, TLC

\* Canonical concepts of the kinds control depends on.
MCPerson         == [type |-> "Person", curated |-> TRUE, member |-> FALSE]
MCAuthor         == [type |-> "Membership", curated |-> TRUE, member |-> TRUE]
MCFactsetMember  == [type |-> "Membership", curated |-> FALSE, member |-> TRUE]
MCInstrument     == [type |-> "FinancialInstrument", curated |-> FALSE,
                     member |-> FALSE]

\* All attempts in one process, or each in a process of its own.
MCOneReplica   == {Attempt}
MCManyReplicas == {{a} : a \in Attempt}

\* Sound for the runs without temporal properties: no definition tells two
\* attempts apart, and MCOneReplica and MCManyReplicas are closed under it.
MCSymmetry == Permutations(Attempt)
===============================================================================
