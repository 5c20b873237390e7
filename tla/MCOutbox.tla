------------------------------ MODULE MCOutbox ------------------------------
(* Outbox on a small instance: items 1 and 2 share a group, item 3 has none.  *)
EXTENDS Outbox

MCMessageGroup == [i \in Item |-> IF i \in {1, 2} THEN "g1" ELSE None]
=============================================================================
