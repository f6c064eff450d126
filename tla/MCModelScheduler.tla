-------------------------- MODULE MCModelScheduler --------------------------
(* A small instance of ModelScheduler. The key k1 has one request more than *)
(* it may have inside, and k1, k2 and k3 together can have one request more *)
(* inside than the slot and the queue hold, so both limits turn some away.  *)
EXTENDS ModelSchedulerRefinement, TLC

CONSTANTS r1, r2, r3, r4, r5, r6, k1, k2, k3, m1, m2

MCRequests == {r1, r2, r3, r4, r5, r6}
MCKeys == {k1, k2, k3}
MCModels == {m1, m2}
MCKeyOf == r1 :> k1 @@ r2 :> k1 @@ r3 :> k1 @@ r4 :> k2 @@ r5 :> k2 @@ r6 :> k3
MCModelOf == [r \in MCRequests |-> IF r \in {r1, r4} THEN m1 ELSE m2]

=============================================================================
