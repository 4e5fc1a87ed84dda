---------------------------- MODULE MCOwnerSetup ----------------------------
(* A small instance of OwnerSetup for TLC. *)
EXTENDS OwnerSetup

=============================================================================
