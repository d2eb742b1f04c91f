----------------------------- MODULE MCAutoArm -----------------------------
(* AutoArm with different debounces for the three decisions.               *)
EXTENDS AutoArm

=============================================================================
