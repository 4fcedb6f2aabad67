----------------------------- MODULE MCPromotion -----------------------------
(* Two promotions in a row, and a rival candidate on the first base. *)
EXTENDS Promotion, TLC

CONSTANTS base, first, second, rival

MCCandidates == {<<base, first>>, <<first, second>>, <<base, rival>>}
ActorSymmetry == Permutations(Actor)
=============================================================================
