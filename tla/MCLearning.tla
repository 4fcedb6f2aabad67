----------------------------- MODULE MCLearning -----------------------------
(* Sessions, topics and daemons are model values of the cfg; see README.md. *)
EXTENDS Learning
=============================================================================
