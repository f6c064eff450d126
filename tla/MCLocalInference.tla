-------------------------- MODULE MCLocalInference --------------------------
(* Small instances of LocalInference: the .cfg files choose the requests.  *)
EXTENDS LocalInference

CONSTANTS k1

MCKeyOf == [r \in Requests |-> k1]

=============================================================================
