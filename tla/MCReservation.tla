--------------------------- MODULE MCReservation ---------------------------
(* Reservation as it is: the configurations give every constant a value. *)
EXTENDS Reservation
=============================================================================
