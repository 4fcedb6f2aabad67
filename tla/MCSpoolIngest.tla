--------------------------- MODULE MCSpoolIngest ---------------------------
(* SpoolIngest as it is: the configurations give every constant a value. *)
EXTENDS SpoolIngest
=============================================================================
