--------------------------- MODULE MCEvaluatorRun ---------------------------
(* Descendants are model values of the cfg; see README.md, "Runs". *)
EXTENDS EvaluatorRun
=============================================================================
