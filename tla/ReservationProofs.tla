-------------------------- MODULE ReservationProofs --------------------------
(***************************************************************************)
(* The safety properties of Reservation for any number of workers, any set *)
(* of candidate branches and any number of mishaps.  The inductive         *)
(* invariant says what the tables cannot: while no preparation has         *)
(* outlasted the five minutes, the one worker between its reservation and  *)
(* the end of its creation is the one the row was made by.                 *)
(***************************************************************************)
EXTENDS Reservation, TLAPS

\* A worker that still holds the updated_at it listed holds an empty
\* reservation's, grown stale (store.go:1215-1217).
ListedIsStale == unchanged # {} => Empty /\ row.stale

\* Whoever is between its reservation and the end of Create made the row, and
\* the row is not stale.
MakerOwnsRow ==
    \A w \in Worker : pc[w] \in OwnSteps => row.status # "none" /\ row.by = w /\ ~row.stale

\* What the row holds while its maker goes through Create: nothing until the
\* candidate is saved, that candidate afterwards, and at the end nothing that
\* is still in the repository, unless its removal failed.
RowFollowsMaker ==
    \A w \in Worker :
        /\ pc[w] \in {"preparing", "saving"} => row.candidate = None
        /\ pc[w] = "auditing" => row.candidate = made[w]
        /\ pc[w] = "cleaning" => row.candidate \in {None, made[w]}
        /\ pc[w] = "abandoning" => row.candidate \notin branches \ lost

\* Every branch is the row's or its maker has it in memory.
MakerHoldsBranch ==
    \A c \in branches \ lost :
        \/ row.candidate = c
        \/ \E w \in Worker : pc[w] \in {"saving", "auditing", "cleaning"} /\ made[w] = c

ClusterInv == IF row = NoRow THEN cluster # "proposed" ELSE cluster # "open"

InTime == MakerOwnsRow /\ RowFollowsMaker /\ MakerHoldsBranch /\ ClusterInv

ReservationInv == TypeOK /\ ListedIsStale /\ (~overtaken => InTime)

-----------------------------------------------------------------------------
(* The type invariant, and the staleness of what a recovery has listed. *)

Rows == [status : {"none", "pending", "evaluated", "rejected"},
         candidate : Candidate \cup {None}, stale : BOOLEAN, by : Worker \cup {None}]

\* The rows the actions write: none, a reservation (store.go:1130), a reservation
\* filled with a candidate (store.go:1057).
LEMMA RowFacts ==
    /\ NoRow \in Rows /\ NoRow.status = "none" /\ NoRow.candidate = None
    /\ \A w \in Worker :
          /\ Reserved(w) \in Rows /\ Reserved(w).status = "pending"
          /\ Reserved(w).candidate = None /\ Reserved(w).by = w
          /\ Reserved(w).stale = FALSE
    /\ \A w \in Worker, c \in Candidate \cup {None} :
          LET r == [Reserved(w) EXCEPT !.candidate = c]
          IN  /\ r \in Rows /\ r.status = "pending" /\ r.candidate = c
              /\ r.by = w /\ r.stale = FALSE
  BY DEF NoRow, Reserved, Rows

\* Every step of Create, of the recovery, of an evaluation or a rejection keeps
\* the types: one step of the proof per action.
LEMMA StepType == TypeOK /\ [Next]_vars => TypeOK'
<1> SUFFICES ASSUME TypeOK, [Next]_vars
             PROVE  TypeOK'
  OBVIOUS
<1> USE ReservationAssumption, RowFacts
<1> USE DEF TypeOK, Goto, Take, Done, Mishap, Lose, Write, Delete, Rows,
            Empty, Filled, OwnSteps, tables, memory
<1>1. ASSUME NEW w \in Worker, ListPending(w) PROVE TypeOK'
  BY <1>1 DEF ListPending
<1>2. ASSUME NEW w \in Worker, AbandonIfUnchanged(w) PROVE TypeOK'
  BY <1>2 DEF AbandonIfUnchanged
<1>3. ASSUME NEW w \in Worker, LoadCluster(w) PROVE TypeOK'
  BY <1>3 DEF LoadCluster
<1>4. ASSUME NEW w \in Worker, ReserveProposal(w) PROVE TypeOK'
  <2>1. CASE Write(Reserved(w)) /\ cluster' = "proposed" /\ Goto(w, "preparing")
    <3>1. row' \in Rows /\ row'.status = "pending"
      BY <2>1
    <3> QED BY <1>4, <2>1, <3>1 DEF ReserveProposal
  <2>2. CASE Done(w) /\ UNCHANGED tables
    BY <1>4, <2>2 DEF ReserveProposal
  <2> QED BY <1>4, <2>1, <2>2 DEF ReserveProposal
<1>5. ASSUME NEW w \in Worker, Prepare(w) PROVE TypeOK'
  BY <1>5 DEF Prepare, FailWithBranch
<1>6. ASSUME NEW w \in Worker, SaveProposal(w) PROVE TypeOK'
  BY <1>6 DEF SaveProposal
<1>7. ASSUME NEW w \in Worker, AppendAudit(w) PROVE TypeOK'
  BY <1>7 DEF AppendAudit
<1>8. ASSUME NEW w \in Worker, Cleanup(w) PROVE TypeOK'
  BY <1>8 DEF Cleanup
<1>9. ASSUME NEW w \in Worker, AbandonProposal(w) PROVE TypeOK'
  BY <1>9 DEF AbandonProposal
<1>10. ASSUME NEW w \in Worker, CompleteEvaluation(w) PROVE TypeOK'
  BY <1>10 DEF CompleteEvaluation
<1>11. ASSUME NEW w \in Worker, DropCandidate(w) PROVE TypeOK'
  BY <1>11 DEF DropCandidate
<1>12. ASSUME NEW w \in Worker, RejectProposal(w) PROVE TypeOK'
  BY <1>12 DEF RejectProposal
<1>13. ASSUME NEW w \in Worker, BeginEvaluation(w) PROVE TypeOK'
  BY <1>13 DEF BeginEvaluation
<1>14. ASSUME NEW w \in Worker, BeginRejection(w) PROVE TypeOK'
  BY <1>14 DEF BeginRejection
<1>15. ASSUME NEW w \in Worker, Crash(w) PROVE TypeOK'
  BY <1>15 DEF Crash
<1>16. ASSUME GrowStale PROVE TypeOK'
  BY <1>16 DEF GrowStale, Abandoned
<1>17. ASSUME Overtake PROVE TypeOK'
  BY <1>17 DEF Overtake, Abandoned
<1>18. CASE UNCHANGED vars
  BY <1>18 DEF vars
<1> QED
  BY <1>1, <1>2, <1>3, <1>4, <1>5, <1>6, <1>7, <1>8, <1>9, <1>10, <1>11, <1>12, <1>13,
     <1>14, <1>15, <1>16, <1>17, <1>18 DEF Next, Step

\* Only a stale and empty reservation is ever listed for recovery, and every
\* write of the row makes the listed updated_at an old one.
LEMMA StepListed == TypeOK /\ ListedIsStale /\ [Next]_vars => ListedIsStale'
<1> SUFFICES ASSUME TypeOK, ListedIsStale, [Next]_vars
             PROVE  ListedIsStale'
  OBVIOUS
<1> USE DEF ListedIsStale, Write, Delete, Empty, tables
<1>1. ASSUME NEW w \in Worker, ListPending(w) PROVE ListedIsStale'
  BY <1>1 DEF ListPending
<1>2. ASSUME NEW w \in Worker, AbandonIfUnchanged(w) PROVE ListedIsStale'
  BY <1>2 DEF AbandonIfUnchanged
<1>3. ASSUME NEW w \in Worker, LoadCluster(w) PROVE ListedIsStale'
  BY <1>3 DEF LoadCluster
<1>4. ASSUME NEW w \in Worker, ReserveProposal(w) PROVE ListedIsStale'
  BY <1>4 DEF ReserveProposal
<1>5. ASSUME NEW w \in Worker, Prepare(w) PROVE ListedIsStale'
  BY <1>5 DEF Prepare, FailWithBranch
<1>6. ASSUME NEW w \in Worker, SaveProposal(w) PROVE ListedIsStale'
  BY <1>6 DEF SaveProposal
<1>7. ASSUME NEW w \in Worker, AppendAudit(w) PROVE ListedIsStale'
  BY <1>7 DEF AppendAudit
<1>8. ASSUME NEW w \in Worker, Cleanup(w) PROVE ListedIsStale'
  BY <1>8 DEF Cleanup
<1>9. ASSUME NEW w \in Worker, AbandonProposal(w) PROVE ListedIsStale'
  BY <1>9 DEF AbandonProposal
<1>10. ASSUME NEW w \in Worker, CompleteEvaluation(w) PROVE ListedIsStale'
  BY <1>10 DEF CompleteEvaluation
<1>11. ASSUME NEW w \in Worker, DropCandidate(w) PROVE ListedIsStale'
  BY <1>11 DEF DropCandidate
<1>12. ASSUME NEW w \in Worker, RejectProposal(w) PROVE ListedIsStale'
  BY <1>12 DEF RejectProposal
<1>13. ASSUME NEW w \in Worker, BeginEvaluation(w) PROVE ListedIsStale'
  BY <1>13 DEF BeginEvaluation
<1>14. ASSUME NEW w \in Worker, BeginRejection(w) PROVE ListedIsStale'
  BY <1>14 DEF BeginRejection
<1>15. ASSUME NEW w \in Worker, Crash(w) PROVE ListedIsStale'
  BY <1>15 DEF Crash
<1>16. ASSUME GrowStale PROVE ListedIsStale'
  BY <1>16 DEF GrowStale, Abandoned, TypeOK
<1>17. ASSUME Overtake PROVE ListedIsStale'
  BY <1>17 DEF Overtake, Abandoned, TypeOK
<1>18. CASE UNCHANGED vars
  BY <1>18 DEF vars
<1> QED
  BY <1>1, <1>2, <1>3, <1>4, <1>5, <1>6, <1>7, <1>8, <1>9, <1>10, <1>11, <1>12, <1>13,
     <1>14, <1>15, <1>16, <1>17, <1>18 DEF Next, Step

-----------------------------------------------------------------------------
(* The maker, its row and its branch. *)

\* While no preparation outlasts the five minutes the maker keeps its row: one
\* step of the proof per action, and under it one per part of the invariant.
LEMMA StepInTime ==
    ASSUME ReservationInv, [Next]_vars, ~overtaken', TypeOK'
    PROVE  InTime'
<1> USE ReservationAssumption, RowFacts
<1> USE DEF InTime, Goto, Take, Done, Mishap, Lose, Write, Delete, Empty, Filled, OwnSteps,
            tables, memory
<1>0. TypeOK /\ ListedIsStale /\ TypeOK'
  BY DEF ReservationInv
<1>1. ASSUME NEW w \in Worker, ListPending(w) PROVE InTime'
  <2>1. InTime
    BY <1>1 DEF ListPending, ReservationInv
  <2>2. MakerOwnsRow'
    BY <1>0, <1>1, <2>1 DEF ListPending, TypeOK, Rows, ListedIsStale, MakerOwnsRow
  <2>3. RowFollowsMaker'
    BY <1>0, <1>1, <2>1 DEF ListPending, TypeOK, Rows, ListedIsStale,
       MakerOwnsRow, RowFollowsMaker
  <2>4. MakerHoldsBranch'
    BY <1>0, <1>1, <2>1 DEF ListPending, TypeOK, Rows, ListedIsStale,
       MakerOwnsRow, MakerHoldsBranch
  <2>5. ClusterInv'
    BY <1>0, <1>1, <2>1 DEF ListPending, TypeOK, Rows, ListedIsStale,
       MakerOwnsRow, ClusterInv
  <2> QED BY <2>2, <2>3, <2>4, <2>5
<1>2. ASSUME NEW w \in Worker, AbandonIfUnchanged(w) PROVE InTime'
  <2>1. InTime
    BY <1>2 DEF AbandonIfUnchanged, ReservationInv
  <2>2. MakerOwnsRow'
    BY <1>0, <1>2, <2>1 DEF AbandonIfUnchanged, TypeOK, Rows, ListedIsStale, MakerOwnsRow
  <2>3. RowFollowsMaker'
    BY <1>0, <1>2, <2>1 DEF AbandonIfUnchanged, TypeOK, Rows, ListedIsStale,
       MakerOwnsRow, RowFollowsMaker
  <2>4. MakerHoldsBranch'
    BY <1>0, <1>2, <2>1 DEF AbandonIfUnchanged, TypeOK, Rows, ListedIsStale,
       MakerOwnsRow, MakerHoldsBranch
  <2>5. ClusterInv'
    BY <1>0, <1>2, <2>1 DEF AbandonIfUnchanged, TypeOK, Rows, ListedIsStale,
       MakerOwnsRow, ClusterInv
  <2> QED BY <2>2, <2>3, <2>4, <2>5
<1>3. ASSUME NEW w \in Worker, LoadCluster(w) PROVE InTime'
  <2>1. InTime
    BY <1>3 DEF LoadCluster, ReservationInv
  <2>2. MakerOwnsRow'
    BY <1>0, <1>3, <2>1 DEF LoadCluster, TypeOK, Rows, ListedIsStale, MakerOwnsRow
  <2>3. RowFollowsMaker'
    BY <1>0, <1>3, <2>1 DEF LoadCluster, TypeOK, Rows, ListedIsStale,
       MakerOwnsRow, RowFollowsMaker
  <2>4. MakerHoldsBranch'
    BY <1>0, <1>3, <2>1 DEF LoadCluster, TypeOK, Rows, ListedIsStale,
       MakerOwnsRow, MakerHoldsBranch
  <2>5. ClusterInv'
    BY <1>0, <1>3, <2>1 DEF LoadCluster, TypeOK, Rows, ListedIsStale,
       MakerOwnsRow, ClusterInv
  <2> QED BY <2>2, <2>3, <2>4, <2>5
<1>4. ASSUME NEW w \in Worker, ReserveProposal(w) PROVE InTime'
  <2>1. InTime
    BY <1>4 DEF ReserveProposal, ReservationInv
  <2>2. MakerOwnsRow'
    BY <1>0, <1>4, <2>1 DEF ReserveProposal, TypeOK, Rows, ListedIsStale, MakerOwnsRow
  <2>3. RowFollowsMaker'
    BY <1>0, <1>4, <2>1 DEF ReserveProposal, TypeOK, Rows, ListedIsStale,
       MakerOwnsRow, RowFollowsMaker
  <2>4. MakerHoldsBranch'
    BY <1>0, <1>4, <2>1 DEF ReserveProposal, TypeOK, Rows, ListedIsStale,
       MakerOwnsRow, MakerHoldsBranch
  <2>5. ClusterInv'
    BY <1>0, <1>4, <2>1 DEF ReserveProposal, TypeOK, Rows, ListedIsStale,
       MakerOwnsRow, ClusterInv
  <2> QED BY <2>2, <2>3, <2>4, <2>5
<1>5. ASSUME NEW w \in Worker, Prepare(w) PROVE InTime'
  <2>1. InTime
    BY <1>5 DEF Prepare, FailWithBranch, ReservationInv
  <2>2. MakerOwnsRow'
    BY <1>0, <1>5, <2>1 DEF Prepare, FailWithBranch, TypeOK, Rows, ListedIsStale, MakerOwnsRow
  <2>3. RowFollowsMaker'
    BY <1>0, <1>5, <2>1 DEF Prepare, FailWithBranch, TypeOK, Rows, ListedIsStale,
       MakerOwnsRow, RowFollowsMaker
  <2>4. MakerHoldsBranch'
    BY <1>0, <1>5, <2>1 DEF Prepare, FailWithBranch, TypeOK, Rows, ListedIsStale,
       MakerOwnsRow, MakerHoldsBranch
  <2>5. ClusterInv'
    BY <1>0, <1>5, <2>1 DEF Prepare, FailWithBranch, TypeOK, Rows, ListedIsStale,
       MakerOwnsRow, ClusterInv
  <2> QED BY <2>2, <2>3, <2>4, <2>5
<1>6. ASSUME NEW w \in Worker, SaveProposal(w) PROVE InTime'
  <2>1. InTime
    BY <1>6 DEF SaveProposal, ReservationInv
  <2>2. MakerOwnsRow'
    BY <1>0, <1>6, <2>1 DEF SaveProposal, TypeOK, Rows, ListedIsStale, MakerOwnsRow
  <2>3. RowFollowsMaker'
    BY <1>0, <1>6, <2>1 DEF SaveProposal, TypeOK, Rows, ListedIsStale,
       MakerOwnsRow, RowFollowsMaker
  <2>4. MakerHoldsBranch'
    BY <1>0, <1>6, <2>1 DEF SaveProposal, TypeOK, Rows, ListedIsStale,
       MakerOwnsRow, MakerHoldsBranch
  <2>5. ClusterInv'
    BY <1>0, <1>6, <2>1 DEF SaveProposal, TypeOK, Rows, ListedIsStale,
       MakerOwnsRow, ClusterInv
  <2> QED BY <2>2, <2>3, <2>4, <2>5
<1>7. ASSUME NEW w \in Worker, AppendAudit(w) PROVE InTime'
  <2>1. InTime
    BY <1>7 DEF AppendAudit, ReservationInv
  <2>2. MakerOwnsRow'
    BY <1>0, <1>7, <2>1 DEF AppendAudit, TypeOK, Rows, ListedIsStale, MakerOwnsRow
  <2>3. RowFollowsMaker'
    BY <1>0, <1>7, <2>1 DEF AppendAudit, TypeOK, Rows, ListedIsStale,
       MakerOwnsRow, RowFollowsMaker
  <2>4. MakerHoldsBranch'
    BY <1>0, <1>7, <2>1 DEF AppendAudit, TypeOK, Rows, ListedIsStale,
       RowFollowsMaker, MakerHoldsBranch
  <2>5. ClusterInv'
    BY <1>0, <1>7, <2>1 DEF AppendAudit, TypeOK, Rows, ListedIsStale,
       MakerOwnsRow, ClusterInv
  <2> QED BY <2>2, <2>3, <2>4, <2>5
<1>8. ASSUME NEW w \in Worker, Cleanup(w) PROVE InTime'
  <2>1. InTime
    BY <1>8 DEF Cleanup, ReservationInv
  <2>2. MakerOwnsRow'
    BY <1>0, <1>8, <2>1 DEF Cleanup, TypeOK, Rows, ListedIsStale, MakerOwnsRow
  <2>3. RowFollowsMaker'
    BY <1>0, <1>8, <2>1 DEF Cleanup, TypeOK, Rows, ListedIsStale,
       MakerOwnsRow, RowFollowsMaker
  <2>4. MakerHoldsBranch'
    BY <1>0, <1>8, <2>1 DEF Cleanup, TypeOK, Rows, ListedIsStale,
       MakerOwnsRow, MakerHoldsBranch
  <2>5. ClusterInv'
    BY <1>0, <1>8, <2>1 DEF Cleanup, TypeOK, Rows, ListedIsStale,
       MakerOwnsRow, ClusterInv
  <2> QED BY <2>2, <2>3, <2>4, <2>5
<1>9. ASSUME NEW w \in Worker, AbandonProposal(w) PROVE InTime'
  <2>1. InTime
    BY <1>9 DEF AbandonProposal, ReservationInv
  <2>2. MakerOwnsRow'
    BY <1>0, <1>9, <2>1 DEF AbandonProposal, TypeOK, Rows, ListedIsStale, MakerOwnsRow
  <2>3. RowFollowsMaker'
    BY <1>0, <1>9, <2>1 DEF AbandonProposal, TypeOK, Rows, ListedIsStale,
       MakerOwnsRow, RowFollowsMaker
  <2>4. MakerHoldsBranch'
    BY <1>0, <1>9, <2>1 DEF AbandonProposal, TypeOK, Rows, ListedIsStale,
       RowFollowsMaker, MakerHoldsBranch
  <2>5. ClusterInv'
    BY <1>0, <1>9, <2>1 DEF AbandonProposal, TypeOK, Rows, ListedIsStale,
       MakerOwnsRow, ClusterInv
  <2> QED BY <2>2, <2>3, <2>4, <2>5
<1>10. ASSUME NEW w \in Worker, CompleteEvaluation(w) PROVE InTime'
  <2>1. InTime
    BY <1>10 DEF CompleteEvaluation, ReservationInv
  <2>2. MakerOwnsRow'
    BY <1>0, <1>10, <2>1 DEF CompleteEvaluation, TypeOK, Rows, ListedIsStale, MakerOwnsRow
  <2>3. RowFollowsMaker'
    BY <1>0, <1>10, <2>1 DEF CompleteEvaluation, TypeOK, Rows, ListedIsStale,
       MakerOwnsRow, RowFollowsMaker
  <2>4. MakerHoldsBranch'
    BY <1>0, <1>10, <2>1 DEF CompleteEvaluation, TypeOK, Rows, ListedIsStale,
       MakerOwnsRow, MakerHoldsBranch
  <2>5. ClusterInv'
    BY <1>0, <1>10, <2>1 DEF CompleteEvaluation, TypeOK, Rows, ListedIsStale,
       MakerOwnsRow, ClusterInv
  <2> QED BY <2>2, <2>3, <2>4, <2>5
<1>11. ASSUME NEW w \in Worker, DropCandidate(w) PROVE InTime'
  <2>1. InTime
    BY <1>11 DEF DropCandidate, ReservationInv
  <2>2. MakerOwnsRow'
    BY <1>0, <1>11, <2>1 DEF DropCandidate, TypeOK, Rows, ListedIsStale, MakerOwnsRow
  <2>3. RowFollowsMaker'
    BY <1>0, <1>11, <2>1 DEF DropCandidate, TypeOK, Rows, ListedIsStale,
       MakerOwnsRow, RowFollowsMaker
  <2>4. MakerHoldsBranch'
    BY <1>0, <1>11, <2>1 DEF DropCandidate, TypeOK, Rows, ListedIsStale,
       MakerOwnsRow, MakerHoldsBranch
  <2>5. ClusterInv'
    BY <1>0, <1>11, <2>1 DEF DropCandidate, TypeOK, Rows, ListedIsStale,
       MakerOwnsRow, ClusterInv
  <2> QED BY <2>2, <2>3, <2>4, <2>5
<1>12. ASSUME NEW w \in Worker, RejectProposal(w) PROVE InTime'
  <2>1. InTime
    BY <1>12 DEF RejectProposal, ReservationInv
  <2>2. MakerOwnsRow'
    BY <1>0, <1>12, <2>1 DEF RejectProposal, TypeOK, Rows, ListedIsStale, MakerOwnsRow
  <2>3. RowFollowsMaker'
    BY <1>0, <1>12, <2>1 DEF RejectProposal, TypeOK, Rows, ListedIsStale,
       MakerOwnsRow, RowFollowsMaker
  <2>4. MakerHoldsBranch'
    BY <1>0, <1>12, <2>1 DEF RejectProposal, TypeOK, Rows, ListedIsStale,
       MakerOwnsRow, MakerHoldsBranch
  <2>5. ClusterInv'
    BY <1>0, <1>12, <2>1 DEF RejectProposal, TypeOK, Rows, ListedIsStale,
       MakerOwnsRow, ClusterInv
  <2> QED BY <2>2, <2>3, <2>4, <2>5
<1>13. ASSUME NEW w \in Worker, BeginEvaluation(w) PROVE InTime'
  <2>1. InTime
    BY <1>13 DEF BeginEvaluation, ReservationInv
  <2>2. MakerOwnsRow'
    BY <1>0, <1>13, <2>1 DEF BeginEvaluation, TypeOK, Rows, ListedIsStale, MakerOwnsRow
  <2>3. RowFollowsMaker'
    BY <1>0, <1>13, <2>1 DEF BeginEvaluation, TypeOK, Rows, ListedIsStale,
       MakerOwnsRow, RowFollowsMaker
  <2>4. MakerHoldsBranch'
    BY <1>0, <1>13, <2>1 DEF BeginEvaluation, TypeOK, Rows, ListedIsStale,
       MakerOwnsRow, MakerHoldsBranch
  <2>5. ClusterInv'
    BY <1>0, <1>13, <2>1 DEF BeginEvaluation, TypeOK, Rows, ListedIsStale,
       MakerOwnsRow, ClusterInv
  <2> QED BY <2>2, <2>3, <2>4, <2>5
<1>14. ASSUME NEW w \in Worker, BeginRejection(w) PROVE InTime'
  <2>1. InTime
    BY <1>14 DEF BeginRejection, ReservationInv
  <2>2. MakerOwnsRow'
    BY <1>0, <1>14, <2>1 DEF BeginRejection, TypeOK, Rows, ListedIsStale, MakerOwnsRow
  <2>3. RowFollowsMaker'
    BY <1>0, <1>14, <2>1 DEF BeginRejection, TypeOK, Rows, ListedIsStale,
       MakerOwnsRow, RowFollowsMaker
  <2>4. MakerHoldsBranch'
    BY <1>0, <1>14, <2>1 DEF BeginRejection, TypeOK, Rows, ListedIsStale,
       MakerOwnsRow, MakerHoldsBranch
  <2>5. ClusterInv'
    BY <1>0, <1>14, <2>1 DEF BeginRejection, TypeOK, Rows, ListedIsStale,
       MakerOwnsRow, ClusterInv
  <2> QED BY <2>2, <2>3, <2>4, <2>5
<1>15. ASSUME NEW w \in Worker, Crash(w) PROVE InTime'
  <2>1. InTime
    BY <1>15 DEF Crash, ReservationInv
  <2>2. MakerOwnsRow'
    BY <1>0, <1>15, <2>1 DEF Crash, TypeOK, Rows, ListedIsStale, MakerOwnsRow
  <2>3. RowFollowsMaker'
    BY <1>0, <1>15, <2>1 DEF Crash, TypeOK, Rows, ListedIsStale,
       MakerOwnsRow, RowFollowsMaker
  <2>4. MakerHoldsBranch'
    BY <1>0, <1>15, <2>1 DEF Crash, TypeOK, Rows, ListedIsStale,
       MakerOwnsRow, MakerHoldsBranch
  <2>5. ClusterInv'
    BY <1>0, <1>15, <2>1 DEF Crash, TypeOK, Rows, ListedIsStale,
       MakerOwnsRow, ClusterInv
  <2> QED BY <2>2, <2>3, <2>4, <2>5
<1>16. ASSUME GrowStale PROVE InTime'
  <2>1. InTime
    BY <1>16 DEF GrowStale, ReservationInv
  <2>2. MakerOwnsRow'
    BY <1>0, <1>16, <2>1 DEF GrowStale, Abandoned, TypeOK, Rows, ListedIsStale, MakerOwnsRow
  <2>3. RowFollowsMaker'
    BY <1>0, <1>16, <2>1 DEF GrowStale, Abandoned, TypeOK, Rows, ListedIsStale,
       MakerOwnsRow, RowFollowsMaker
  <2>4. MakerHoldsBranch'
    BY <1>0, <1>16, <2>1 DEF GrowStale, Abandoned, TypeOK, Rows, ListedIsStale,
       MakerOwnsRow, MakerHoldsBranch
  <2>5. ClusterInv'
    BY <1>0, <1>16, <2>1 DEF GrowStale, Abandoned, TypeOK, Rows, ListedIsStale,
       MakerOwnsRow, ClusterInv
  <2> QED BY <2>2, <2>3, <2>4, <2>5
<1>17. ~Overtake
  BY DEF Overtake
<1>18. CASE UNCHANGED vars
  BY <1>18 DEF vars, ReservationInv, MakerOwnsRow, RowFollowsMaker, MakerHoldsBranch,
     ClusterInv
<1> QED
  BY <1>1, <1>2, <1>3, <1>4, <1>5, <1>6, <1>7, <1>8, <1>9, <1>10, <1>11, <1>12, <1>13,
     <1>14, <1>15, <1>16, <1>17, <1>18 DEF Next, Step

-----------------------------------------------------------------------------
(* The theorems. *)

\* Nothing is reserved, prepared or listed at first.
LEMMA InitInv == Init => ReservationInv
<1> SUFFICES ASSUME Init
             PROVE  ReservationInv
  OBVIOUS
<1>1. TypeOK
  <2>1. row \in Rows /\ row.status = "none" /\ row = NoRow
    BY RowFacts DEF Init
  <2>2. mishaps \in 0..MaxMishaps
    BY ReservationAssumption DEF Init
  <2>3. /\ pc \in [Worker -> OwnSteps \cup {"idle", "recovering", "creating", "reserving",
                                             "evaluating", "dropping", "rejecting"}]
        /\ made \in [Worker -> Candidate \cup {None}]
    BY DEF Init
  <2> QED BY <2>1, <2>2, <2>3 DEF Init, TypeOK, Rows
<1>2. ListedIsStale
  BY DEF Init, ListedIsStale
<1>3. InTime
  BY DEF Init, InTime, MakerOwnsRow, RowFollowsMaker, MakerHoldsBranch, ClusterInv, OwnSteps
<1> QED BY <1>1, <1>2, <1>3 DEF ReservationInv

\* A preparation that has outlasted the five minutes stays one that has, so the
\* conditional part has only to be kept where it held.
LEMMA StepInv == ReservationInv /\ [Next]_vars => ReservationInv'
<1> SUFFICES ASSUME ReservationInv, [Next]_vars
             PROVE  ReservationInv'
  OBVIOUS
<1>1. TypeOK'
  BY StepType DEF ReservationInv
<1>2. ListedIsStale'
  BY StepListed DEF ReservationInv
<1>3. ~overtaken' => InTime'
  BY <1>1, StepInTime
<1> QED BY <1>1, <1>2, <1>3 DEF ReservationInv

\* No schedule of workers, crash or failing statement takes the creation of a
\* proposal out of the inductive invariant.
THEOREM ReservationInvariant == Spec => []ReservationInv
  BY InitInv, StepInv, PTL DEF Spec

\* The type invariant, and with it: an evaluated proposal has a candidate.
THEOREM TypeCorrect == Spec => []TypeOK
<1>1. ReservationInv => TypeOK
  BY DEF ReservationInv
<1> QED BY <1>1, ReservationInvariant, PTL

\* A creation that loses or fails leaves no branch behind, whatever the others do
\* meanwhile, unless a crash or a failing Git command left it in "lost"
\* (candidate.go:109-120, proposals.go:137-162).
THEOREM BranchOwned == Spec => []BranchHasOwner
<1>1. ReservationInv => BranchHasOwner
  BY DEF ReservationInv, InTime, MakerHoldsBranch, BranchHasOwner
<1> QED BY <1>1, ReservationInvariant, PTL

\* No cluster is open beside its proposal, and none waits for one that is gone.
THEOREM ClusterFollows == Spec => []ClusterFollowsProposal
<1>1. ReservationInv => ClusterFollowsProposal
  BY DEF ReservationInv, InTime, ClusterInv, ClusterFollowsProposal
<1> QED BY <1>1, ReservationInvariant, PTL

\* The three ways the row is deleted: its maker's failed creation deletes it
\* pending, a recovery deletes it stale and empty, and nothing else does.
LEMMA WhoDeletes ==
    ASSUME ReservationInv, Next, row # NoRow, row' = NoRow
    PROVE  \E w \in Worker :
              \/ AbandonIfUnchanged(w) /\ Empty /\ row.stale
              \/ AbandonProposal(w) /\ row.status = "pending"
<1> USE RowFacts
<1> USE DEF Write, Delete, tables, ReservationInv, TypeOK, Rows
<1>1. ASSUME NEW w \in Worker, AbandonIfUnchanged(w) PROVE Empty /\ row.stale
  BY <1>1 DEF AbandonIfUnchanged, ListedIsStale
<1>2. ASSUME NEW w \in Worker, AbandonProposal(w) PROVE row.status = "pending"
  BY <1>2 DEF AbandonProposal
<1>3. ASSUME NEW w \in Worker,
             \/ ListPending(w) \/ LoadCluster(w) \/ ReserveProposal(w) \/ Prepare(w)
             \/ SaveProposal(w) \/ AppendAudit(w) \/ Cleanup(w)
      PROVE  FALSE
  <2>1. \A c \in Candidate \cup {None} : [Reserved(w) EXCEPT !.candidate = c] # NoRow
    BY <1>3
  <2> QED BY <1>3, <2>1 DEF ListPending, LoadCluster, ReserveProposal, Prepare, SaveProposal,
                            AppendAudit, Cleanup
<1>4. ASSUME NEW w \in Worker,
             \/ CompleteEvaluation(w) \/ DropCandidate(w) \/ RejectProposal(w)
             \/ BeginEvaluation(w) \/ BeginRejection(w) \/ Crash(w)
      PROVE  FALSE
  BY <1>4 DEF CompleteEvaluation, DropCandidate, RejectProposal, BeginEvaluation,
              BeginRejection, Crash, Filled
<1>5. ~GrowStale /\ ~Overtake
  BY DEF GrowStale, Overtake, Abandoned, Empty
<1> QED BY <1>1, <1>2, <1>3, <1>4, <1>5 DEF Next, Step

\* What a recovery deletes is one reservation, stale and empty as it was listed
\* (store.go:1215-1217).
THEOREM RecoveryStale == Spec => RecoveryTakesStaleOnly
<1>1. ReservationInv /\ [Next]_vars
      => [\A w \in Worker :
            pc[w] = "recovering" /\ row' = NoRow /\ row # NoRow /\ pc'[w] = "creating"
                => Empty /\ row.stale]_vars
  <2> SUFFICES ASSUME ReservationInv, Next, NEW w \in Worker, pc[w] = "recovering",
                      row' = NoRow, row # NoRow, pc'[w] = "creating"
               PROVE  Empty /\ row.stale
    BY DEF vars, tables
  <2>1. PICK v \in Worker : \/ AbandonIfUnchanged(v) /\ Empty /\ row.stale
                            \/ AbandonProposal(v) /\ row.status = "pending"
    BY WhoDeletes
  <2>2. ~AbandonProposal(v)
    BY DEF AbandonProposal, Done, Take, ReservationInv, TypeOK
  <2> QED BY <2>1, <2>2
<1> QED BY <1>1, ReservationInvariant, PTL DEF Spec, RecoveryTakesStaleOnly

\* A populated proposal is deleted by nobody but the worker whose creation failed
\* (proposals.go:132-140).
THEOREM LiveWorkKept == Spec => LiveWorkKeptInTime
<1>1. ReservationInv /\ [Next]_vars
      => [~overtaken /\ Filled /\ row' = NoRow => pc[row.by] = "abandoning"]_vars
  <2> SUFFICES ASSUME ReservationInv, Next, ~overtaken, Filled, row' = NoRow
               PROVE  pc[row.by] = "abandoning"
    BY DEF vars, tables
  <2>1. row # NoRow
    BY RowFacts DEF Filled
  <2>2. PICK v \in Worker : \/ AbandonIfUnchanged(v) /\ Empty /\ row.stale
                            \/ AbandonProposal(v) /\ row.status = "pending"
    BY <2>1, WhoDeletes
  <2>3. pc[v] = "abandoning"
    BY <2>2 DEF AbandonProposal, Empty, Filled
  <2> QED BY <2>3 DEF ReservationInv, InTime, MakerOwnsRow, OwnSteps
<1> QED BY <1>1, ReservationInvariant, PTL DEF Spec, LiveWorkKeptInTime

\* Evaluated work survives the failure of the creation it came from, however the
\* five minutes went (store.go:1186).
THEOREM EvaluatedStays == Spec => EvaluatedKept
<1>1. ReservationInv /\ [Next]_vars
      => [row.status = "evaluated" => row' # NoRow /\ row'.candidate = row.candidate]_vars
  <2> SUFFICES ASSUME ReservationInv, Next, row.status = "evaluated"
               PROVE  row' # NoRow /\ row'.candidate = row.candidate
    BY DEF vars, tables
  <2>1. row # NoRow /\ Filled /\ row \in Rows
    BY DEF ReservationInv, TypeOK, Rows
  <2>2. row' # NoRow
    BY <2>1, WhoDeletes DEF Empty
  <2>3. row' = row \/ row' = [row EXCEPT !.status = "evaluated"]
        \/ row' = [row EXCEPT !.status = "rejected"] \/ row' = NoRow
    BY <2>1, RowFacts
       DEF Next, Step, ListPending, AbandonIfUnchanged, LoadCluster, ReserveProposal, Prepare,
           SaveProposal, AppendAudit, Cleanup, AbandonProposal, CompleteEvaluation,
           DropCandidate, RejectProposal, BeginEvaluation, BeginRejection, Crash, GrowStale,
           Overtake, Abandoned, Write, Delete, Empty, tables
  <2> QED BY <2>1, <2>2, <2>3 DEF Rows
<1> QED BY <1>1, ReservationInvariant, PTL DEF Spec, EvaluatedKept
=============================================================================
