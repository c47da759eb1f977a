---------------------------- MODULE ResultTable ----------------------------
(***************************************************************************)
(* What the storage of the results promises: a table that only ever grows, *)
(* by one whole row at a time. Starting on an old database, migrating it,  *)
(* failing or dying on the way changes nothing anybody can see.            *)
(***************************************************************************)
EXTENDS Integers, Sequences

CONSTANT Results   \* rows there may be

VARIABLE results

Init == results \in Seq(Results)

Add == /\ results' \in Seq(Results)
       /\ Len(results') = Len(results) + 1
       /\ results = SubSeq(results', 1, Len(results))

Spec == Init /\ [][Add]_results
=============================================================================
