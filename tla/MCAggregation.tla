----------------------------- MODULE MCAggregation -----------------------------
(***************************************************************************)
(* Small instances of Aggregation for TLC.                                 *)
(***************************************************************************)
EXTENDS Aggregation

CONSTANTS u1, u2, u3

R(u, authority) == [uuid |-> u, authority |-> authority, row |-> 1]

\* The shapes of answers: one or two groups, with no, one or two primary
\* authorities, two records of one, for two concepts or twice for the same,
\* several of a secondary one, a record without an authority, and no record at
\* all.
MCAnswer == {
    {},
    {R(u1, "TME")},
    {R(u1, "")},
    {R(u1, ""), R(u2, "TME")},
    {R(u1, "Smartlogic"), R(u2, "TME")},
    {R(u1, "Smartlogic"), R(u2, "Smartlogic")},
    {R(u1, "Smartlogic"), [R(u1, "Smartlogic") EXCEPT !.row = 2]},
    {R(u1, "TME"), R(u2, "FACTSET"), R(u3, "FACTSET")},
    {R(u1, "ManagedLocation"), R(u2, "TME"), R(u3, "FACTSET")},
    {R(u1, "ManagedLocation"), R(u2, "Smartlogic"), R(u3, "TME")},
    {R(u1, "ManagedLocation"), R(u2, "ManagedLocation"), R(u3, "Smartlogic")}}

\* The second version of u1, primary or not, and of u2 is published without a
\* uuid.
MCNameless == [uuid : {u1, u2}, version : {2}]
================================================================================
