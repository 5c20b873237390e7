--------------------------- MODULE MCDispatchJob ---------------------------
(* DispatchJob on small instances: jobs 1 and 2 share the group that sorts   *)
(* first, job 2 has a subscription, job 3 is in a group of its own.          *)
EXTENDS DispatchJob, TLC

MCMessageGroup == [j \in Job |-> IF j \in {1, 2} THEN "g1" ELSE "g2"]

MCSubscription == [j \in Job |-> IF j = 2 THEN "s1" ELSE None]
=============================================================================
