---------------------- MODULE ModelSchedulerRefinement ----------------------
(***************************************************************************)
(* ModelScheduler implements InferenceSlot: the refinement mapping.        *)
(***************************************************************************)
EXTENDS ModelScheduler

CONSTANT NoRequest

ASSUME NoRequestAssumption == NoRequest \notin Requests

\* The request past Admit's or Acquire's critical section that holds the slot.
TheRunning ==
    IF With({"running", "dropping"}) = {} THEN NoRequest
    ELSE CHOOSE r \in Requests : pc[r] \in {"running", "dropping"}

Slot == INSTANCE InferenceSlot WITH
    running <- TheRunning,
    waiting <- With(Queued),
    inside  <- With(Inside)

(* The scheduler keeps what InferenceSlot promises.  A request that was    *)
(* handed the slot counts as waiting until its own critical section ran.   *)
KeepsTheInferenceSlot == Slot!Spec

=============================================================================
