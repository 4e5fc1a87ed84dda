----------------------------- MODULE MCLifecycle -----------------------------
(* A small instance of Lifecycle for TLC. *)
EXTENDS Lifecycle

(* Every state expires one tick after it began. *)
KeepNone == [s \in States |-> 0]

=============================================================================
