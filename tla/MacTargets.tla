------------------------------- MODULE MacTargets -------------------------------
(* macTargets (internal/features/acl/mac_write.go): the RESTCONF entry IDs    *)
(* under which the rules of a MAC access list are to stand.                   *)
EXTENDS Integers, Sequences

CONSTANT MaxId      \* the largest entry ID; 65000

ASSUME MacTargetsAssumption == MaxId \in Nat \ {0}

\* Entry IDs in native order.
Ascending(ids) == \A i, j \in 1..Len(ids) : i < j => ids[i] < ids[j]
IdLists == {ids \in Seq(1..MaxId) : Ascending(ids)}

\* Appending would exhaust the IDs.
Exhausted(ids, n) == Len(ids) > 0 /\ (n - Len(ids)) + ids[Len(ids)] > MaxId

\* The IDs of n rules over entries that now have ids: positions keep theirs,
\* further ones count on from the last, or all are numbered afresh.
Targets(ids, n) ==
    [i \in 1..n |->
        IF Len(ids) = 0 \/ Exhausted(ids, n) THEN i
        ELSE IF i <= Len(ids) THEN ids[i]
        ELSE ids[Len(ids)] + (i - Len(ids))]
=============================================================================
