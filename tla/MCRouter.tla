------------------------------ MODULE MCRouter ------------------------------
(* Router on small instances; which messages and pools exist is in the .cfg.  *)
EXTENDS Router, TLC

\* r1 is a second broker message for m1: an external requeue.
MCAppId == [b \in Broker |-> CASE b \in {"b1", "r1"} -> "m1" [] b = "b2" -> "m2" [] b = "b3" -> "m3"]

MCGroupId == [m \in Message |-> IF m = "m3" THEN "g2" ELSE "g1"]

MCPoolCode == [m \in Message |-> IF "P" \in Code THEN "P" ELSE DefaultPool]

\* Goroutines, consumer incarnations and pool objects are interchangeable.
Symmetry == Permutations(Worker) \cup Permutations(Consumer) \cup Permutations(Pool)
=============================================================================
