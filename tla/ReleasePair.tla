----------------------------- MODULE ReleasePair -----------------------------
(***************************************************************************)
(* What the releases of one skill promise: a single pair of revisions,     *)
(* current and previous, that a promotion or a rollback replaces in one    *)
(* indivisible step (README "Promoted versions": a serialized,             *)
(* crash-recoverable current / previous link pair).                        *)
(***************************************************************************)

CONSTANTS
    Candidates,     \* pairs <<base, candidate>> that may be promoted
    None            \* an absent link

VARIABLE pair

NoPair == [previous |-> None, current |-> None]

Init == pair = NoPair

\* The first promotion adopts the candidate's base; a later one needs the
\* base to be the release in use.
Promote(base, candidate) ==
    /\ pair.current \in {None, base}
    /\ pair' = [previous |-> base, current |-> candidate]

Rollback ==
    /\ pair.current # None
    /\ pair.previous # None
    /\ pair.current # pair.previous
    /\ pair' = [previous |-> pair.current, current |-> pair.previous]

Next == Rollback \/ \E c \in Candidates : Promote(c[1], c[2])

Spec == Init /\ [][Next]_pair
=============================================================================
