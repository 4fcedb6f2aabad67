---------------------------- MODULE MCActivation ----------------------------
(* Processes and skills are model values of the cfg; see README.md. *)
EXTENDS Activation
=============================================================================
