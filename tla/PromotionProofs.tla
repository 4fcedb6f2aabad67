--------------------------- MODULE PromotionProofs ---------------------------
(***************************************************************************)
(* The safety properties of Promotion for any number of actors, any set of *)
(* candidates and any number of mishaps.  The inductive invariant has two  *)
(* parts.  What the fence gives holds always: between the switch of the    *)
(* links and its record nobody else changes them.  What ties the records   *)
(* to the links holds as long as nobody died and no transaction failed: it *)
(* says of every candidate a rollback could bring back into use that it    *)
(* was promoted, and is not in force any more.                             *)
(***************************************************************************)
EXTENDS Promotion, TLAPS

Fenced == {"switching", "recording", "compensating", "cleaning", "confirming",
           "restoring", "recordingRollback"}

\* The steps at which the links and the records may differ.
Busy == {"recording", "compensating", "recordingRollback"}

\* Whoever works on the links holds the fence.
FenceHeld == \A a \in Actor : pc[a] \in Fenced => fence = a

\* Only a rollback may not know yet what it works on.
HasTask ==
    \A a \in Actor : pc[a] \notin {"idle", "rollbackFence", "restoring"} => task[a] \in Candidates

\* Between the switch and its record the links are what the switch made them.
LinksWait ==
    \A a \in Actor :
        /\ pc[a] \in {"recording", "compensating"} => pair = Exact(task[a])
        /\ pc[a] = "recordingRollback" => pair.current = task[a][1]

\* One promotion is active at most, and a proposal has a promotion exactly when
\* it was promoted.
RowsAgree ==
    /\ \A p, q \in Candidates : row[p] = "active" /\ row[q] = "active" => p = q
    /\ \A p \in Candidates : (row[p] # "none") <=> (status[p] \in {"promoted", "rolled_back"})

\* Before the first promotion every candidate stands on HEAD.
Created ==
    /\ \A p \in branch : status[p] # "absent"
    /\ pair.current = None => \A p \in Candidates : status[p] # "absent" => p[1] = Head

Always == TypeOK /\ FenceHeld /\ HasTask /\ LinksWait /\ RowsAgree /\ Created

\* The candidates whose release a rollback of p would bring back.
Bases(p) == {q \in Candidates : q[2] = p[1]}

\* A promotion's base is a promotion that is not in force any more.
BasesPromoted ==
    \A p \in Candidates : row[p] # "none" =>
        \A q \in Bases(p) : status[q] = "promoted" /\ row[q] = "inactive"

InUsePromoted == \A p \in Candidates : pair.current = p[2] => status[p] = "promoted"

\* With no switch or record under way, what is active is in use.
Quiet ==
    (\A a \in Actor : pc[a] \notin Busy) =>
        /\ InUsePromoted
        /\ \A p \in Candidates : row[p] = "active" => pair.current = p[2]

\* While a promotion is recorded or compensated, what was active is its base.
Promoting ==
    \A a \in Actor : pc[a] \in {"recording", "compensating"} =>
        /\ \A q \in Bases(task[a]) : status[q] = "promoted"
        /\ \A q \in Candidates : row[q] = "active" =>
              q \in Bases(task[a]) \/ (pc[a] = "recording" /\ q = task[a])

\* While a rollback is recorded, what it leaves is still active.
RollingBack ==
    \A a \in Actor : pc[a] = "recordingRollback" => row[task[a]] = "active" /\ InUsePromoted

Calm == BasesPromoted /\ Quiet /\ Promoting /\ RollingBack

PromotionInv == Always /\ (mishaps = 0 => Calm)

-----------------------------------------------------------------------------
(* What holds always. *)

\* Every step of Create, Evaluate, Approve, Reject, Rollback and Monitor keeps
\* the types, and what each actor remembers is a proposal when it needs one.
LEMMA StepType == TypeOK /\ HasTask /\ RowsAgree /\ [Next]_vars => TypeOK' /\ HasTask'
<1> SUFFICES ASSUME TypeOK, HasTask, RowsAgree, [Next]_vars
             PROVE  TypeOK' /\ HasTask'
  OBVIOUS
<1> USE PromotionAssumption
<1> USE DEF TypeOK, HasTask, RowsAgree, Begin, Goto, Leave, Mishap, NoMishap, records, Decided,
            Outcomes, AfterFence
<1>1. ASSUME NEW p \in Candidates, Create(p) PROVE TypeOK' /\ HasTask'
  BY <1>1 DEF Create
<1>2. ASSUME NEW a \in Actor, BeginRollback(a) PROVE TypeOK' /\ HasTask'
  BY <1>2 DEF BeginRollback
<1>3. ASSUME NEW a \in Actor, NEW p \in Candidates, BeginEvaluation(a, p) PROVE TypeOK' /\ HasTask'
  BY <1>3 DEF BeginEvaluation
<1>4. ASSUME NEW a \in Actor, NEW p \in Candidates, BeginApproval(a, p) PROVE TypeOK' /\ HasTask'
  BY <1>4 DEF BeginApproval
<1>5. ASSUME NEW a \in Actor, NEW p \in Candidates, BeginRejection(a, p) PROVE TypeOK' /\ HasTask'
  BY <1>5 DEF BeginRejection
<1>6. ASSUME NEW a \in Actor, NEW p \in Candidates, BeginMonitoring(a, p) PROVE TypeOK' /\ HasTask'
  BY <1>6 DEF BeginMonitoring
<1>7. ASSUME NEW a \in Actor, CompleteEvaluation(a) PROVE TypeOK' /\ HasTask'
  BY <1>7 DEF CompleteEvaluation, Outcomes
<1>8. ASSUME NEW a \in Actor, ApproveProposal(a) PROVE TypeOK' /\ HasTask'
  BY <1>8 DEF ApproveProposal
<1>9. ASSUME NEW a \in Actor, AcquireSkillFence(a) PROVE TypeOK' /\ HasTask'
  BY <1>9 DEF AcquireSkillFence, AfterFence
<1>10. ASSUME NEW a \in Actor, Promote(a) PROVE TypeOK' /\ HasTask'
  BY <1>10 DEF Promote, CanSwitch, Releases!Promote
<1>11. ASSUME NEW a \in Actor, RecordPromotionDecision(a) PROVE TypeOK' /\ HasTask'
  BY <1>11 DEF RecordPromotionDecision, Recordable, ActivateOnly
<1>12. ASSUME NEW a \in Actor, Compensate(a) PROVE TypeOK' /\ HasTask'
  BY <1>12 DEF Compensate, Releases!Rollback
<1>13. ASSUME NEW a \in Actor, CleanCandidate(a) PROVE TypeOK' /\ HasTask'
  BY <1>13 DEF CleanCandidate
<1>14. ASSUME NEW a \in Actor, ConfirmPromotion(a) PROVE TypeOK' /\ HasTask'
  BY <1>14 DEF ConfirmPromotion
<1>15. ASSUME NEW a \in Actor, DropCandidate(a) PROVE TypeOK' /\ HasTask'
  BY <1>15 DEF DropCandidate
<1>16. ASSUME NEW a \in Actor, RejectProposal(a) PROVE TypeOK' /\ HasTask'
  BY <1>16 DEF RejectProposal
<1>17. ASSUME NEW a \in Actor, ApplyMonitorEvaluation(a) PROVE TypeOK' /\ HasTask'
  BY <1>17 DEF ApplyMonitorEvaluation
<1>18. ASSUME NEW a \in Actor, RestoreRelease(a) PROVE TypeOK' /\ HasTask'
  BY <1>18 DEF RestoreRelease, Expected, CanRollBack, Releases!Rollback
<1>19. ASSUME NEW a \in Actor, RecordRollback(a) PROVE TypeOK' /\ HasTask'
  BY <1>19 DEF RecordRollback
<1>20. ASSUME NEW a \in Actor, Crash(a) PROVE TypeOK' /\ HasTask'
  BY <1>20 DEF Crash
<1>21. CASE UNCHANGED vars
  BY <1>21 DEF vars, records
<1> QED
  BY <1>1, <1>2, <1>3, <1>4, <1>5, <1>6, <1>7, <1>8, <1>9, <1>10, <1>11, <1>12, <1>13, <1>14,
     <1>15, <1>16, <1>17, <1>18, <1>19, <1>20, <1>21 DEF Next, Start, Continue

\* The fence: one owner at a time, and nobody works on the links without it
\* (release.go:338, AcquireSkillFence).
LEMMA StepFence == TypeOK /\ FenceHeld /\ [Next]_vars => FenceHeld'
<1> SUFFICES ASSUME TypeOK, FenceHeld, [Next]_vars
             PROVE  FenceHeld'
  OBVIOUS
<1> USE PromotionAssumption
<1> USE DEF TypeOK, FenceHeld, Fenced, Begin, Goto, Leave, AfterFence
<1>1. ASSUME NEW p \in Candidates, Create(p) PROVE FenceHeld'
  BY <1>1 DEF Create
<1>2. ASSUME NEW a \in Actor, BeginRollback(a) PROVE FenceHeld'
  BY <1>2 DEF BeginRollback
<1>3. ASSUME NEW a \in Actor, NEW p \in Candidates, BeginEvaluation(a, p) PROVE FenceHeld'
  BY <1>3 DEF BeginEvaluation
<1>4. ASSUME NEW a \in Actor, NEW p \in Candidates, BeginApproval(a, p) PROVE FenceHeld'
  BY <1>4 DEF BeginApproval
<1>5. ASSUME NEW a \in Actor, NEW p \in Candidates, BeginRejection(a, p) PROVE FenceHeld'
  BY <1>5 DEF BeginRejection
<1>6. ASSUME NEW a \in Actor, NEW p \in Candidates, BeginMonitoring(a, p) PROVE FenceHeld'
  BY <1>6 DEF BeginMonitoring
<1>7. ASSUME NEW a \in Actor, CompleteEvaluation(a) PROVE FenceHeld'
  BY <1>7 DEF CompleteEvaluation, Outcomes
<1>8. ASSUME NEW a \in Actor, ApproveProposal(a) PROVE FenceHeld'
  BY <1>8 DEF ApproveProposal
<1>9. ASSUME NEW a \in Actor, AcquireSkillFence(a) PROVE FenceHeld'
  BY <1>9 DEF AcquireSkillFence, AfterFence
<1>10. ASSUME NEW a \in Actor, Promote(a) PROVE FenceHeld'
  BY <1>10 DEF Promote, CanSwitch, Releases!Promote
<1>11. ASSUME NEW a \in Actor, RecordPromotionDecision(a) PROVE FenceHeld'
  BY <1>11 DEF RecordPromotionDecision, Recordable, ActivateOnly
<1>12. ASSUME NEW a \in Actor, Compensate(a) PROVE FenceHeld'
  BY <1>12 DEF Compensate, Releases!Rollback
<1>13. ASSUME NEW a \in Actor, CleanCandidate(a) PROVE FenceHeld'
  BY <1>13 DEF CleanCandidate
<1>14. ASSUME NEW a \in Actor, ConfirmPromotion(a) PROVE FenceHeld'
  BY <1>14 DEF ConfirmPromotion
<1>15. ASSUME NEW a \in Actor, DropCandidate(a) PROVE FenceHeld'
  BY <1>15 DEF DropCandidate
<1>16. ASSUME NEW a \in Actor, RejectProposal(a) PROVE FenceHeld'
  BY <1>16 DEF RejectProposal
<1>17. ASSUME NEW a \in Actor, ApplyMonitorEvaluation(a) PROVE FenceHeld'
  BY <1>17 DEF ApplyMonitorEvaluation
<1>18. ASSUME NEW a \in Actor, RestoreRelease(a) PROVE FenceHeld'
  BY <1>18 DEF RestoreRelease, Expected, CanRollBack, Releases!Rollback
<1>19. ASSUME NEW a \in Actor, RecordRollback(a) PROVE FenceHeld'
  BY <1>19 DEF RecordRollback
<1>20. ASSUME NEW a \in Actor, Crash(a) PROVE FenceHeld'
  BY <1>20 DEF Crash
<1>21. CASE UNCHANGED vars
  BY <1>21 DEF vars, records
<1> QED
  BY <1>1, <1>2, <1>3, <1>4, <1>5, <1>6, <1>7, <1>8, <1>9, <1>10, <1>11, <1>12, <1>13, <1>14,
     <1>15, <1>16, <1>17, <1>18, <1>19, <1>20, <1>21 DEF Next, Start, Continue

\* Promotions and rollbacks of others cannot come between a switch and its
\* record, since they change the links only with the fence.
LEMMA StepLinks ==
    TypeOK /\ FenceHeld /\ HasTask /\ LinksWait /\ [Next]_vars => LinksWait'
<1> SUFFICES ASSUME TypeOK, FenceHeld, HasTask, LinksWait, [Next]_vars
             PROVE  LinksWait'
  OBVIOUS
<1> USE PromotionAssumption
<1> USE DEF TypeOK, FenceHeld, Fenced, HasTask, LinksWait, Exact, Begin, Goto, Leave,
            AfterFence, records
<1>1. ASSUME NEW p \in Candidates, Create(p) PROVE LinksWait'
  BY <1>1 DEF Create
<1>2. ASSUME NEW a \in Actor, BeginRollback(a) PROVE LinksWait'
  BY <1>2 DEF BeginRollback
<1>3. ASSUME NEW a \in Actor, NEW p \in Candidates, BeginEvaluation(a, p) PROVE LinksWait'
  BY <1>3 DEF BeginEvaluation
<1>4. ASSUME NEW a \in Actor, NEW p \in Candidates, BeginApproval(a, p) PROVE LinksWait'
  BY <1>4 DEF BeginApproval
<1>5. ASSUME NEW a \in Actor, NEW p \in Candidates, BeginRejection(a, p) PROVE LinksWait'
  BY <1>5 DEF BeginRejection
<1>6. ASSUME NEW a \in Actor, NEW p \in Candidates, BeginMonitoring(a, p) PROVE LinksWait'
  BY <1>6 DEF BeginMonitoring
<1>7. ASSUME NEW a \in Actor, CompleteEvaluation(a) PROVE LinksWait'
  BY <1>7 DEF CompleteEvaluation, Outcomes
<1>8. ASSUME NEW a \in Actor, ApproveProposal(a) PROVE LinksWait'
  BY <1>8 DEF ApproveProposal
<1>9. ASSUME NEW a \in Actor, AcquireSkillFence(a) PROVE LinksWait'
  BY <1>9 DEF AcquireSkillFence, AfterFence
<1>10. ASSUME NEW a \in Actor, Promote(a) PROVE LinksWait'
  BY <1>10 DEF Promote, CanSwitch, Releases!Promote
<1>11. ASSUME NEW a \in Actor, RecordPromotionDecision(a) PROVE LinksWait'
  BY <1>11 DEF RecordPromotionDecision, Recordable, ActivateOnly
<1>12. ASSUME NEW a \in Actor, Compensate(a) PROVE LinksWait'
  BY <1>12 DEF Compensate, Releases!Rollback
<1>13. ASSUME NEW a \in Actor, CleanCandidate(a) PROVE LinksWait'
  BY <1>13 DEF CleanCandidate
<1>14. ASSUME NEW a \in Actor, ConfirmPromotion(a) PROVE LinksWait'
  BY <1>14 DEF ConfirmPromotion
<1>15. ASSUME NEW a \in Actor, DropCandidate(a) PROVE LinksWait'
  BY <1>15 DEF DropCandidate
<1>16. ASSUME NEW a \in Actor, RejectProposal(a) PROVE LinksWait'
  BY <1>16 DEF RejectProposal
<1>17. ASSUME NEW a \in Actor, ApplyMonitorEvaluation(a) PROVE LinksWait'
  BY <1>17 DEF ApplyMonitorEvaluation
<1>18. ASSUME NEW a \in Actor, RestoreRelease(a) PROVE LinksWait'
  BY <1>18 DEF RestoreRelease, Expected, CanRollBack, Releases!Rollback
<1>19. ASSUME NEW a \in Actor, RecordRollback(a) PROVE LinksWait'
  BY <1>19 DEF RecordRollback
<1>20. ASSUME NEW a \in Actor, Crash(a) PROVE LinksWait'
  BY <1>20 DEF Crash
<1>21. CASE UNCHANGED vars
  BY <1>21 DEF vars, records
<1> QED
  BY <1>1, <1>2, <1>3, <1>4, <1>5, <1>6, <1>7, <1>8, <1>9, <1>10, <1>11, <1>12, <1>13, <1>14,
     <1>15, <1>16, <1>17, <1>18, <1>19, <1>20, <1>21 DEF Next, Start, Continue

\* RecordPromotionDecision deactivates the promotion before it in the same
\* transaction.
LEMMA StepRows == TypeOK /\ HasTask /\ RowsAgree /\ [Next]_vars => RowsAgree'
<1> SUFFICES ASSUME TypeOK, HasTask, RowsAgree, [Next]_vars
             PROVE  RowsAgree'
  OBVIOUS
<1> USE PromotionAssumption
<1> USE DEF TypeOK, HasTask, RowsAgree, Decided, records
<1>1. ASSUME NEW p \in Candidates, Create(p) PROVE RowsAgree'
  BY <1>1 DEF Create
<1>2. ASSUME NEW a \in Actor, BeginRollback(a) PROVE RowsAgree'
  BY <1>2 DEF BeginRollback
<1>3. ASSUME NEW a \in Actor, NEW p \in Candidates, BeginEvaluation(a, p) PROVE RowsAgree'
  BY <1>3 DEF BeginEvaluation
<1>4. ASSUME NEW a \in Actor, NEW p \in Candidates, BeginApproval(a, p) PROVE RowsAgree'
  BY <1>4 DEF BeginApproval
<1>5. ASSUME NEW a \in Actor, NEW p \in Candidates, BeginRejection(a, p) PROVE RowsAgree'
  BY <1>5 DEF BeginRejection
<1>6. ASSUME NEW a \in Actor, NEW p \in Candidates, BeginMonitoring(a, p) PROVE RowsAgree'
  BY <1>6 DEF BeginMonitoring
<1>7. ASSUME NEW a \in Actor, CompleteEvaluation(a) PROVE RowsAgree'
  BY <1>7 DEF CompleteEvaluation, Outcomes
<1>8. ASSUME NEW a \in Actor, ApproveProposal(a) PROVE RowsAgree'
  BY <1>8 DEF ApproveProposal
<1>9. ASSUME NEW a \in Actor, AcquireSkillFence(a) PROVE RowsAgree'
  BY <1>9 DEF AcquireSkillFence, AfterFence
<1>10. ASSUME NEW a \in Actor, Promote(a) PROVE RowsAgree'
  BY <1>10 DEF Promote, CanSwitch, Releases!Promote
<1>11. ASSUME NEW a \in Actor, RecordPromotionDecision(a) PROVE RowsAgree'
  BY <1>11 DEF RecordPromotionDecision, Recordable, ActivateOnly
<1>12. ASSUME NEW a \in Actor, Compensate(a) PROVE RowsAgree'
  BY <1>12 DEF Compensate, Releases!Rollback
<1>13. ASSUME NEW a \in Actor, CleanCandidate(a) PROVE RowsAgree'
  BY <1>13 DEF CleanCandidate
<1>14. ASSUME NEW a \in Actor, ConfirmPromotion(a) PROVE RowsAgree'
  BY <1>14 DEF ConfirmPromotion
<1>15. ASSUME NEW a \in Actor, DropCandidate(a) PROVE RowsAgree'
  BY <1>15 DEF DropCandidate
<1>16. ASSUME NEW a \in Actor, RejectProposal(a) PROVE RowsAgree'
  BY <1>16 DEF RejectProposal
<1>17. ASSUME NEW a \in Actor, ApplyMonitorEvaluation(a) PROVE RowsAgree'
  BY <1>17 DEF ApplyMonitorEvaluation
<1>18. ASSUME NEW a \in Actor, RestoreRelease(a) PROVE RowsAgree'
  BY <1>18 DEF RestoreRelease, Expected, CanRollBack, Releases!Rollback
<1>19. ASSUME NEW a \in Actor, RecordRollback(a) PROVE RowsAgree'
  BY <1>19 DEF RecordRollback
<1>20. ASSUME NEW a \in Actor, Crash(a) PROVE RowsAgree'
  BY <1>20 DEF Crash
<1>21. CASE UNCHANGED vars
  BY <1>21 DEF vars, records
<1> QED
  BY <1>1, <1>2, <1>3, <1>4, <1>5, <1>6, <1>7, <1>8, <1>9, <1>10, <1>11, <1>12, <1>13, <1>14,
     <1>15, <1>16, <1>17, <1>18, <1>19, <1>20, <1>21 DEF Next, Start, Continue

\* Create takes HEAD as base only before the first promotion.
LEMMA StepCreated == TypeOK /\ HasTask /\ Created /\ [Next]_vars => Created'
<1> SUFFICES ASSUME TypeOK, HasTask, Created, [Next]_vars
             PROVE  Created'
  OBVIOUS
<1> USE PromotionAssumption
<1> USE DEF TypeOK, HasTask, Created, records
<1>1. ASSUME NEW p \in Candidates, Create(p) PROVE Created'
  BY <1>1 DEF Create
<1>2. ASSUME NEW a \in Actor, BeginRollback(a) PROVE Created'
  BY <1>2 DEF BeginRollback
<1>3. ASSUME NEW a \in Actor, NEW p \in Candidates, BeginEvaluation(a, p) PROVE Created'
  BY <1>3 DEF BeginEvaluation
<1>4. ASSUME NEW a \in Actor, NEW p \in Candidates, BeginApproval(a, p) PROVE Created'
  BY <1>4 DEF BeginApproval
<1>5. ASSUME NEW a \in Actor, NEW p \in Candidates, BeginRejection(a, p) PROVE Created'
  BY <1>5 DEF BeginRejection
<1>6. ASSUME NEW a \in Actor, NEW p \in Candidates, BeginMonitoring(a, p) PROVE Created'
  BY <1>6 DEF BeginMonitoring
<1>7. ASSUME NEW a \in Actor, CompleteEvaluation(a) PROVE Created'
  BY <1>7 DEF CompleteEvaluation, Outcomes
<1>8. ASSUME NEW a \in Actor, ApproveProposal(a) PROVE Created'
  BY <1>8 DEF ApproveProposal
<1>9. ASSUME NEW a \in Actor, AcquireSkillFence(a) PROVE Created'
  BY <1>9 DEF AcquireSkillFence, AfterFence
<1>10. ASSUME NEW a \in Actor, Promote(a) PROVE Created'
  BY <1>10 DEF Promote, CanSwitch, Releases!Promote
<1>11. ASSUME NEW a \in Actor, RecordPromotionDecision(a) PROVE Created'
  BY <1>11 DEF RecordPromotionDecision, Recordable, ActivateOnly
<1>12. ASSUME NEW a \in Actor, Compensate(a) PROVE Created'
  BY <1>12 DEF Compensate, Releases!Rollback
<1>13. ASSUME NEW a \in Actor, CleanCandidate(a) PROVE Created'
  BY <1>13 DEF CleanCandidate
<1>14. ASSUME NEW a \in Actor, ConfirmPromotion(a) PROVE Created'
  BY <1>14 DEF ConfirmPromotion
<1>15. ASSUME NEW a \in Actor, DropCandidate(a) PROVE Created'
  BY <1>15 DEF DropCandidate
<1>16. ASSUME NEW a \in Actor, RejectProposal(a) PROVE Created'
  BY <1>16 DEF RejectProposal
<1>17. ASSUME NEW a \in Actor, ApplyMonitorEvaluation(a) PROVE Created'
  BY <1>17 DEF ApplyMonitorEvaluation
<1>18. ASSUME NEW a \in Actor, RestoreRelease(a) PROVE Created'
  BY <1>18 DEF RestoreRelease, Expected, CanRollBack, Releases!Rollback
<1>19. ASSUME NEW a \in Actor, RecordRollback(a) PROVE Created'
  BY <1>19 DEF RecordRollback
<1>20. ASSUME NEW a \in Actor, Crash(a) PROVE Created'
  BY <1>20 DEF Crash
<1>21. CASE UNCHANGED vars
  BY <1>21 DEF vars, records
<1> QED
  BY <1>1, <1>2, <1>3, <1>4, <1>5, <1>6, <1>7, <1>8, <1>9, <1>10, <1>11, <1>12, <1>13, <1>14,
     <1>15, <1>16, <1>17, <1>18, <1>19, <1>20, <1>21 DEF Next, Start, Continue

-----------------------------------------------------------------------------
(* What holds while nobody died and no transaction failed. *)

\* Such a behaviour had no mishap before either.
LEMMA NoMishapBefore == TypeOK /\ [Next]_vars /\ mishaps' = 0 => mishaps = 0
<1> SUFFICES ASSUME TypeOK, [Next]_vars, mishaps' = 0
             PROVE  mishaps = 0
  OBVIOUS
<1> USE PromotionAssumption DEF TypeOK, Mishap, NoMishap
<1>1. ASSUME NEW p \in Candidates, Create(p) PROVE mishaps = 0
  BY <1>1 DEF Create
<1>2. ASSUME NEW a \in Actor, BeginRollback(a) PROVE mishaps = 0
  BY <1>2 DEF BeginRollback
<1>3. ASSUME NEW a \in Actor, NEW p \in Candidates, BeginEvaluation(a, p) PROVE mishaps = 0
  BY <1>3 DEF BeginEvaluation
<1>4. ASSUME NEW a \in Actor, NEW p \in Candidates, BeginApproval(a, p) PROVE mishaps = 0
  BY <1>4 DEF BeginApproval
<1>5. ASSUME NEW a \in Actor, NEW p \in Candidates, BeginRejection(a, p) PROVE mishaps = 0
  BY <1>5 DEF BeginRejection
<1>6. ASSUME NEW a \in Actor, NEW p \in Candidates, BeginMonitoring(a, p) PROVE mishaps = 0
  BY <1>6 DEF BeginMonitoring
<1>7. ASSUME NEW a \in Actor, CompleteEvaluation(a) PROVE mishaps = 0
  BY <1>7 DEF CompleteEvaluation, Outcomes
<1>8. ASSUME NEW a \in Actor, ApproveProposal(a) PROVE mishaps = 0
  BY <1>8 DEF ApproveProposal
<1>9. ASSUME NEW a \in Actor, AcquireSkillFence(a) PROVE mishaps = 0
  BY <1>9 DEF AcquireSkillFence, AfterFence
<1>10. ASSUME NEW a \in Actor, Promote(a) PROVE mishaps = 0
  BY <1>10 DEF Promote, CanSwitch, Releases!Promote
<1>11. ASSUME NEW a \in Actor, RecordPromotionDecision(a) PROVE mishaps = 0
  BY <1>11 DEF RecordPromotionDecision, Recordable, ActivateOnly
<1>12. ASSUME NEW a \in Actor, Compensate(a) PROVE mishaps = 0
  BY <1>12 DEF Compensate, Releases!Rollback
<1>13. ASSUME NEW a \in Actor, CleanCandidate(a) PROVE mishaps = 0
  BY <1>13 DEF CleanCandidate
<1>14. ASSUME NEW a \in Actor, ConfirmPromotion(a) PROVE mishaps = 0
  BY <1>14 DEF ConfirmPromotion
<1>15. ASSUME NEW a \in Actor, DropCandidate(a) PROVE mishaps = 0
  BY <1>15 DEF DropCandidate
<1>16. ASSUME NEW a \in Actor, RejectProposal(a) PROVE mishaps = 0
  BY <1>16 DEF RejectProposal
<1>17. ASSUME NEW a \in Actor, ApplyMonitorEvaluation(a) PROVE mishaps = 0
  BY <1>17 DEF ApplyMonitorEvaluation
<1>18. ASSUME NEW a \in Actor, RestoreRelease(a) PROVE mishaps = 0
  BY <1>18 DEF RestoreRelease, Expected, CanRollBack, Releases!Rollback
<1>19. ASSUME NEW a \in Actor, RecordRollback(a) PROVE mishaps = 0
  BY <1>19 DEF RecordRollback
<1>20. ASSUME NEW a \in Actor, Crash(a) PROVE mishaps = 0
  BY <1>20 DEF Crash
<1>21. CASE UNCHANGED vars
  BY <1>21 DEF vars, records
<1> QED
  BY <1>1, <1>2, <1>3, <1>4, <1>5, <1>6, <1>7, <1>8, <1>9, <1>10, <1>11, <1>12, <1>13, <1>14,
     <1>15, <1>16, <1>17, <1>18, <1>19, <1>20, <1>21 DEF Next, Start, Continue

\* Whoever works on the links is the only one.
LEMMA OneBusy ==
    ASSUME FenceHeld, NEW a \in Actor, NEW b \in Actor,
           pc[a] \in Fenced, pc[b] \in Fenced
    PROVE  a = b
  BY DEF FenceHeld

\* A step that leaves links, promotions and whoever works on them alone, and
\* takes no proposal out of "promoted", keeps the records tied to the links.
LEMMA Undisturbed ==
    ASSUME TypeOK, HasTask, Calm, pair' = pair, row' = row,
           \A p \in Candidates : status[p] = "promoted" => status'[p] = "promoted",
           \A b \in Actor : pc[b] \in Busy \/ pc'[b] \in Busy
                             => pc'[b] = pc[b] /\ task'[b] = task[b]
    PROVE  Calm'
<1>1. BasesPromoted'
  BY DEF Calm, BasesPromoted, Bases
<1>2. Quiet'
  BY DEF Calm, Quiet, InUsePromoted
<1>3. Promoting'
  BY DEF Calm, Promoting, Bases, Busy, HasTask
<1>4. RollingBack'
  BY DEF Calm, RollingBack, InUsePromoted, Busy, HasTask
<1> QED
  BY <1>1, <1>2, <1>3, <1>4 DEF Calm

\* The switch to a candidate: what is active is the candidate's base, or the
\* candidate itself when an earlier attempt had installed it.
LEMMA PromoteCalm ==
    ASSUME Always, Calm, NEW a \in Actor, Promote(a)
    PROVE  Calm'
<1> USE PromotionAssumption
<1> DEFINE p == task[a]
<1>1. p \in Candidates /\ pc[a] = "switching"
  BY DEF Always, HasTask, Promote
<1>2. \A b \in Actor : pc[b] \notin Busy
  BY <1>1, OneBusy DEF Always, Busy, Fenced
<1>3. /\ InUsePromoted
      /\ \A q \in Candidates : row[q] = "active" => pair.current = q[2]
  BY <1>2 DEF Calm, Quiet
<1>4. CASE Goto(a, "recording")
  <2>1. pair = Exact(p) \/ CanSwitch(p)
    BY <1>1, <1>4 DEF Promote, Goto, Leave, Always, TypeOK
  <2>2. \A q \in Bases(p) : status[q] = "promoted"
    <3>1. CASE pair = Exact(p)
      BY <1>1, <1>3, <3>1 DEF Exact, InUsePromoted, Always, RowsAgree, Calm, BasesPromoted
    <3>2. CASE CanSwitch(p) /\ pair.current = p[1]
      BY <1>1, <1>3, <3>2 DEF InUsePromoted, Bases
    <3>3. CASE CanSwitch(p) /\ pair.current = None
      BY <1>1, <3>3 DEF CanSwitch, Always, Created, Bases
    <3> QED
      BY <2>1, <3>1, <3>2, <3>3 DEF CanSwitch
  <2>3. \A q \in Candidates : row[q] = "active" => q \in Bases(p) \/ q = p
    BY <1>1, <1>3, <2>1 DEF Exact, CanSwitch, Bases
  <2>4. /\ pc' = [pc EXCEPT ![a] = "recording"] /\ task' = task
        /\ row' = row /\ status' = status
    BY <1>4 DEF Goto, Promote, records
  <2>5. \A b \in Actor : pc'[b] \in Busy => b = a /\ pc'[b] = "recording"
    BY <1>2, <2>4 DEF Always, TypeOK
  <2>6. pc'[a] \in Busy
    BY <2>4 DEF Always, TypeOK, Busy
  <2> QED
    BY <1>1, <2>2, <2>3, <2>4, <2>5, <2>6
       DEF Calm, BasesPromoted, Quiet, Promoting, RollingBack, Bases, Busy
<1>5. CASE Leave(a)
  BY <1>1, <1>2, <1>5, Undisturbed DEF Promote, Leave, Goto, records, Always, TypeOK, Busy
<1> QED
  BY <1>4, <1>5 DEF Promote

\* Recording a promotion: the release in use is the one recorded.
LEMMA RecordCalm ==
    ASSUME Always, Calm, NEW a \in Actor, RecordPromotionDecision(a), mishaps' = mishaps
    PROVE  Calm'
<1> USE PromotionAssumption
<1> DEFINE p == task[a]
<1>1. p \in Candidates /\ pc[a] = "recording" /\ pair = Exact(p)
  BY DEF Always, HasTask, LinksWait, RecordPromotionDecision
<1>2. \A b \in Actor : b # a => pc[b] \notin Busy
  BY <1>1, OneBusy DEF Always, Busy, Fenced
<1>3. /\ \A q \in Bases(p) : status[q] = "promoted"
      /\ \A q \in Candidates : row[q] = "active" => q \in Bases(p) \/ q = p
  BY <1>1 DEF Calm, Promoting
<1>4. pair' = pair /\ task' = task
  BY DEF RecordPromotionDecision, Goto
<1>5. CASE row[p] = "active" /\ Goto(a, "cleaning") /\ UNCHANGED <<status, row>>
  <2>1. \A b \in Actor : pc'[b] \notin Busy
    BY <1>2, <1>5 DEF Goto, Always, TypeOK, Busy
  <2>2. status[p] = "promoted"
    BY <1>1, <1>5 DEF Always, TypeOK
  <2>3. InUsePromoted'
    BY <1>1, <1>4, <1>5, <2>2 DEF InUsePromoted, Exact
  <2>4. \A q \in Candidates : row'[q] = "active" => pair'.current = q[2]
    BY <1>1, <1>4, <1>5 DEF Always, RowsAgree, Exact
  <2> QED
    BY <1>5, <2>1, <2>3, <2>4
       DEF Calm, BasesPromoted, Quiet, Promoting, RollingBack, Bases, Busy
<1>6. CASE /\ Recordable(p)
           /\ row' = ActivateOnly(p)
           /\ status' = [status EXCEPT ![p] = "promoted"]
           /\ Goto(a, "cleaning")
  <2>1. \A b \in Actor : pc'[b] \notin Busy
    BY <1>2, <1>6 DEF Goto, Always, TypeOK, Busy
  <2>2. BasesPromoted'
    <3> SUFFICES ASSUME NEW q \in Candidates, row'[q] # "none", NEW r \in Bases(q)
                 PROVE  status'[r] = "promoted" /\ row'[r] = "inactive"
      BY DEF BasesPromoted, Bases
    <3>1. status[r] = "promoted" /\ row[r] # "none" /\ r # p /\ r \in Candidates
      BY <1>1, <1>3, <1>6
         DEF ActivateOnly, Recordable, Always, RowsAgree, Calm, BasesPromoted, Bases
    <3> QED
      BY <3>1, <1>1, <1>6 DEF ActivateOnly, Always, TypeOK
  <2>3. InUsePromoted'
    BY <1>1, <1>4, <1>6 DEF InUsePromoted, Exact, Always, TypeOK
  <2>4. \A q \in Candidates : row'[q] = "active" => pair'.current = q[2]
    BY <1>1, <1>4, <1>6 DEF ActivateOnly, Exact
  <2> QED
    BY <2>1, <2>2, <2>3, <2>4 DEF Calm, Quiet, Promoting, RollingBack, Busy
<1>7. CASE row[p] # "active" /\ Goto(a, "compensating") /\ UNCHANGED <<status, row>>
  <2>1. /\ \A b \in Actor : pc'[b] \in Busy => b = a
        /\ pc'[a] = "compensating"
    BY <1>2, <1>7 DEF Goto, Always, TypeOK, Busy
  <2> QED
    BY <1>1, <1>3, <1>4, <1>7, <2>1
       DEF Calm, BasesPromoted, Quiet, Promoting, RollingBack, Bases, Busy
<1>8. mishaps' # mishaps + 1
  BY DEF Always, TypeOK
<1> QED
  BY <1>5, <1>6, <1>7, <1>8 DEF RecordPromotionDecision, Mishap

\* A promotion that cannot be recorded is undone: its base was promoted.
LEMMA CompensateCalm ==
    ASSUME Always, Calm, NEW a \in Actor, Compensate(a)
    PROVE  Calm'
<1> USE PromotionAssumption
<1> DEFINE p == task[a]
<1>1. p \in Candidates /\ pc[a] = "compensating" /\ pair = Exact(p)
  BY DEF Always, HasTask, LinksWait, Compensate
<1>2. \A b \in Actor : pc'[b] \notin Busy
  BY <1>1, OneBusy DEF Always, Busy, Fenced, Compensate, Leave, TypeOK
<1>3. row' = row /\ status' = status /\ pair'.current = p[1]
  BY <1>1 DEF Compensate, records, Releases!Rollback, Exact
<1>4. /\ \A q \in Bases(p) : status[q] = "promoted"
      /\ \A q \in Candidates : row[q] = "active" => q \in Bases(p)
  BY <1>1 DEF Calm, Promoting
<1>5. /\ InUsePromoted'
      /\ \A q \in Candidates : row'[q] = "active" => pair'.current = q[2]
  BY <1>3, <1>4 DEF InUsePromoted, Bases
<1> QED
  BY <1>2, <1>3, <1>5 DEF Calm, BasesPromoted, Quiet, Promoting, RollingBack, Bases, Busy

\* A rollback brings back a release that was promoted.
LEMMA RestoreCalm ==
    ASSUME Always, Calm, NEW a \in Actor, RestoreRelease(a)
    PROVE  Calm'
<1> USE PromotionAssumption
<1>1. pc[a] = "restoring" /\ row' = row /\ status' = status
  BY DEF RestoreRelease, records
<1>2. \A b \in Actor : pc[b] \notin Busy
  BY <1>1, OneBusy DEF Always, Busy, Fenced
<1>3. /\ InUsePromoted
      /\ \A q \in Candidates : row[q] = "active" => pair.current = q[2]
  BY <1>2 DEF Calm, Quiet
<1>4. CASE Leave(a) /\ UNCHANGED pair
  BY <1>1, <1>2, <1>4, Undisturbed DEF Leave, Always, TypeOK, Busy
<1>5. ASSUME NEW p \in Candidates, Expected(a, p), CanRollBack(p),
             IF pair.current = p[1] THEN UNCHANGED pair ELSE Releases!Rollback,
             pc' = [pc EXCEPT ![a] = "recordingRollback"],
             task' = [task EXCEPT ![a] = p]
      PROVE  Calm'
  <2>1. row[p] = "active" /\ pair = Exact(p)
    BY <1>3, <1>5 DEF Expected, CanRollBack
  <2>2. pair'.current = p[1]
    BY <1>5, <2>1 DEF Releases!Rollback, Exact
  <2>3. InUsePromoted'
    BY <1>1, <2>1, <2>2 DEF InUsePromoted, Calm, BasesPromoted, Bases
  <2>4. /\ \A b \in Actor : pc'[b] \in Busy => b = a
        /\ pc'[a] = "recordingRollback"
        /\ task'[a] = p
    BY <1>2, <1>5 DEF Always, TypeOK
  <2> QED
    BY <1>1, <2>1, <2>3, <2>4
       DEF Calm, BasesPromoted, Quiet, Promoting, RollingBack, Bases, Busy
<1> QED
  BY <1>4, <1>5 DEF RestoreRelease

\* Recording a rollback: what was active was its candidate and no other.
LEMMA RecordRollbackCalm ==
    ASSUME Always, Calm, NEW a \in Actor, RecordRollback(a), mishaps' = mishaps
    PROVE  Calm'
<1> USE PromotionAssumption
<1> DEFINE p == task[a]
<1>1. /\ p \in Candidates /\ pc[a] = "recordingRollback" /\ pair.current = p[1]
      /\ row[p] = "active" /\ InUsePromoted
  BY DEF Always, HasTask, LinksWait, Calm, RollingBack, RecordRollback
<1>2. \A b \in Actor : pc'[b] \notin Busy
  BY <1>1, OneBusy DEF Always, Busy, Fenced, RecordRollback, Leave, TypeOK
<1>3. /\ row' = [row EXCEPT ![p] = "inactive"]
      /\ status' = [status EXCEPT ![p] = "rolled_back"]
      /\ pair' = pair
  BY <1>1 DEF RecordRollback, Mishap, Always, TypeOK
<1>4. InUsePromoted'
  BY <1>1, <1>3 DEF InUsePromoted, Always, TypeOK
<1>5. \A q \in Candidates : row'[q] # "active"
  BY <1>1, <1>3 DEF Always, TypeOK, RowsAgree
<1>6. BasesPromoted'
  <2> SUFFICES ASSUME NEW q \in Candidates, row'[q] # "none", NEW r \in Bases(q)
               PROVE  status'[r] = "promoted" /\ row'[r] = "inactive"
    BY DEF BasesPromoted, Bases
  <2>1. row[q] # "none"
    BY <1>1, <1>3 DEF Always, TypeOK
  <2>2. status[r] = "promoted" /\ row[r] = "inactive" /\ r # p /\ r \in Candidates
    BY <1>1, <2>1 DEF Calm, BasesPromoted, Bases
  <2> QED
    BY <2>2, <1>1, <1>3 DEF Always, TypeOK
<1> QED
  BY <1>2, <1>4, <1>5, <1>6 DEF Calm, Quiet, Promoting, RollingBack, Busy

\* Every step of a behaviour without mishap keeps the records tied to the links.
LEMMA StepCalm ==
    ASSUME Always, Calm, [Next]_vars, mishaps' = mishaps
    PROVE  Calm'
<1> USE DEF Begin, Goto, Leave, AfterFence, records, Busy, Always, TypeOK, HasTask
<1>1. ASSUME NEW p \in Candidates, Create(p) PROVE Calm'
  BY <1>1, Undisturbed DEF Create
<1>2. ASSUME NEW a \in Actor, BeginRollback(a) PROVE Calm'
  BY <1>2, Undisturbed DEF BeginRollback
<1>3. ASSUME NEW a \in Actor, NEW p \in Candidates, BeginEvaluation(a, p) PROVE Calm'
  BY <1>3, Undisturbed DEF BeginEvaluation
<1>4. ASSUME NEW a \in Actor, NEW p \in Candidates, BeginApproval(a, p) PROVE Calm'
  BY <1>4, Undisturbed DEF BeginApproval
<1>5. ASSUME NEW a \in Actor, NEW p \in Candidates, BeginRejection(a, p) PROVE Calm'
  BY <1>5, Undisturbed DEF BeginRejection
<1>6. ASSUME NEW a \in Actor, NEW p \in Candidates, BeginMonitoring(a, p) PROVE Calm'
  BY <1>6, Undisturbed DEF BeginMonitoring
<1>7. ASSUME NEW a \in Actor, CompleteEvaluation(a) PROVE Calm'
  BY <1>7, Undisturbed DEF CompleteEvaluation, Outcomes
<1>8. ASSUME NEW a \in Actor, ApproveProposal(a) PROVE Calm'
  BY <1>8, Undisturbed DEF ApproveProposal
<1>9. ASSUME NEW a \in Actor, AcquireSkillFence(a) PROVE Calm'
  BY <1>9, Undisturbed DEF AcquireSkillFence, AfterFence
<1>10. ASSUME NEW a \in Actor, Promote(a) PROVE Calm'
  BY <1>10, PromoteCalm
<1>11. ASSUME NEW a \in Actor, RecordPromotionDecision(a) PROVE Calm'
  BY <1>11, RecordCalm
<1>12. ASSUME NEW a \in Actor, Compensate(a) PROVE Calm'
  BY <1>12, CompensateCalm
<1>13. ASSUME NEW a \in Actor, CleanCandidate(a) PROVE Calm'
  BY <1>13, Undisturbed DEF CleanCandidate
<1>14. ASSUME NEW a \in Actor, ConfirmPromotion(a) PROVE Calm'
  BY <1>14, Undisturbed DEF ConfirmPromotion
<1>15. ASSUME NEW a \in Actor, DropCandidate(a) PROVE Calm'
  BY <1>15, Undisturbed DEF DropCandidate
<1>16. ASSUME NEW a \in Actor, RejectProposal(a) PROVE Calm'
  BY <1>16, Undisturbed DEF RejectProposal
<1>17. ASSUME NEW a \in Actor, ApplyMonitorEvaluation(a) PROVE Calm'
  BY <1>17, Undisturbed DEF ApplyMonitorEvaluation
<1>18. ASSUME NEW a \in Actor, RestoreRelease(a) PROVE Calm'
  BY <1>18, RestoreCalm
<1>19. ASSUME NEW a \in Actor, RecordRollback(a) PROVE Calm'
  BY <1>19, RecordRollbackCalm
<1>20. ASSUME NEW a \in Actor, Crash(a) PROVE Calm'
  BY <1>20 DEF Crash, Mishap
<1>21. CASE UNCHANGED vars
  BY <1>21, Undisturbed DEF vars, records
<1> QED
  BY <1>1, <1>2, <1>3, <1>4, <1>5, <1>6, <1>7, <1>8, <1>9, <1>10, <1>11, <1>12, <1>13, <1>14,
     <1>15, <1>16, <1>17, <1>18, <1>19, <1>20, <1>21 DEF Next, Start, Continue

-----------------------------------------------------------------------------
(* The theorems. *)

\* Nothing is in use and no proposal exists in the initial state.
LEMMA InitPromotion == Init => PromotionInv
  BY PromotionAssumption
     DEF Init, PromotionInv, Always, Calm, TypeOK, FenceHeld, Fenced, HasTask, LinksWait, RowsAgree,
         Created, BasesPromoted, Bases, Quiet, InUsePromoted, Promoting, RollingBack, Busy,
         Releases!Init, Releases!NoPair, AfterFence

\* Every step keeps the invariant.
LEMMA StepPromotion == PromotionInv /\ [Next]_vars => PromotionInv'
<1> SUFFICES ASSUME PromotionInv, [Next]_vars
             PROVE  PromotionInv'
  OBVIOUS
<1>1. Always'
  BY StepType, StepFence, StepLinks, StepRows, StepCreated DEF PromotionInv, Always
<1>2. ASSUME mishaps' = 0 PROVE Calm'
  BY <1>2, NoMishapBefore, StepCalm DEF PromotionInv, Always
<1> QED
  BY <1>1, <1>2 DEF PromotionInv

\* The inductive invariant, for any number of commands, daemons and monitors.
THEOREM PromotionInvariant == Spec => []PromotionInv
  BY InitPromotion, StepPromotion, PTL DEF Spec

\* Type correctness: an active promotion belongs to a promoted proposal.
THEOREM TypeCorrect == Spec => []TypeOK
<1>1. PromotionInv => TypeOK
  BY DEF PromotionInv, Always
<1> QED
  BY <1>1, PromotionInvariant, PTL

\* Without mishaps the active promotion is the release in use whenever nobody
\* holds the fence (Approve and rollbackExpected).
THEOREM ActiveInUse == Spec => []ActiveReleaseInUse
<1>1. PromotionInv => ActiveReleaseInUse
  <2> SUFFICES ASSUME PromotionInv, mishaps = 0, fence = None
               PROVE  \A p \in Candidates : row[p] = "active" => pair.current = p[2]
    BY DEF ActiveReleaseInUse
  <2>1. \A a \in Actor : pc[a] \notin Busy
    BY PromotionAssumption DEF PromotionInv, Always, FenceHeld, Fenced, Busy
  <2> QED
    BY <2>1 DEF PromotionInv, Calm, Quiet
<1> QED
  BY <1>1, PromotionInvariant, PTL

\* Nor is a rejected or rolled back candidate the release in use, although
\* Reject takes no lock.
THEOREM DiscardedOut == Spec => []DiscardedNeverInUse
<1>1. PromotionInv => DiscardedNeverInUse
  <2> SUFFICES ASSUME PromotionInv, mishaps = 0, fence = None
               PROVE  \A p \in Candidates :
                        status[p] \in {"rejected", "rolled_back"} => pair.current # p[2]
    BY DEF DiscardedNeverInUse
  <2>1. \A a \in Actor : pc[a] \notin Busy
    BY PromotionAssumption DEF PromotionInv, Always, FenceHeld, Fenced, Busy
  <2> QED
    BY <2>1 DEF PromotionInv, Calm, Quiet, InUsePromoted
<1> QED
  BY <1>1, PromotionInvariant, PTL

\* Promote is the only step that leads to the record of a promotion, and the
\* fence keeps the links as it left them.
FollowLinks ==
    \A p \in Candidates :
        /\ row[p] # "active" /\ row'[p] = "active" => pair = Exact(p)
        /\ status[p] # "rolled_back" /\ status'[p] = "rolled_back" => pair.current = p[1]

\* One case per step.
LEMMA StepFollowLinks == Always /\ [Next]_vars => [FollowLinks]_vars
<1> SUFFICES ASSUME Always, [Next]_vars
             PROVE  FollowLinks \/ UNCHANGED vars
  OBVIOUS
<1> USE PromotionAssumption
<1> USE DEF Always, TypeOK, HasTask, LinksWait, records, Decided
<1>1. ASSUME NEW p \in Candidates, Create(p) PROVE FollowLinks
  BY <1>1 DEF Create, FollowLinks
<1>2. ASSUME NEW a \in Actor, BeginRollback(a) PROVE FollowLinks
  BY <1>2 DEF BeginRollback, FollowLinks
<1>3. ASSUME NEW a \in Actor, NEW p \in Candidates, BeginEvaluation(a, p) PROVE FollowLinks
  BY <1>3 DEF BeginEvaluation, FollowLinks
<1>4. ASSUME NEW a \in Actor, NEW p \in Candidates, BeginApproval(a, p) PROVE FollowLinks
  BY <1>4 DEF BeginApproval, FollowLinks
<1>5. ASSUME NEW a \in Actor, NEW p \in Candidates, BeginRejection(a, p) PROVE FollowLinks
  BY <1>5 DEF BeginRejection, FollowLinks
<1>6. ASSUME NEW a \in Actor, NEW p \in Candidates, BeginMonitoring(a, p) PROVE FollowLinks
  BY <1>6 DEF BeginMonitoring, FollowLinks
<1>7. ASSUME NEW a \in Actor, CompleteEvaluation(a) PROVE FollowLinks
  BY <1>7 DEF CompleteEvaluation, Outcomes, FollowLinks
<1>8. ASSUME NEW a \in Actor, ApproveProposal(a) PROVE FollowLinks
  BY <1>8 DEF ApproveProposal, FollowLinks
<1>9. ASSUME NEW a \in Actor, AcquireSkillFence(a) PROVE FollowLinks
  BY <1>9 DEF AcquireSkillFence, AfterFence, FollowLinks
<1>10. ASSUME NEW a \in Actor, Promote(a) PROVE FollowLinks
  BY <1>10 DEF Promote, CanSwitch, Releases!Promote, FollowLinks
<1>11. ASSUME NEW a \in Actor, RecordPromotionDecision(a) PROVE FollowLinks
  BY <1>11 DEF RecordPromotionDecision, Recordable, ActivateOnly, FollowLinks
<1>12. ASSUME NEW a \in Actor, Compensate(a) PROVE FollowLinks
  BY <1>12 DEF Compensate, Releases!Rollback, FollowLinks
<1>13. ASSUME NEW a \in Actor, CleanCandidate(a) PROVE FollowLinks
  BY <1>13 DEF CleanCandidate, FollowLinks
<1>14. ASSUME NEW a \in Actor, ConfirmPromotion(a) PROVE FollowLinks
  BY <1>14 DEF ConfirmPromotion, FollowLinks
<1>15. ASSUME NEW a \in Actor, DropCandidate(a) PROVE FollowLinks
  BY <1>15 DEF DropCandidate, FollowLinks
<1>16. ASSUME NEW a \in Actor, RejectProposal(a) PROVE FollowLinks
  BY <1>16 DEF RejectProposal, FollowLinks
<1>17. ASSUME NEW a \in Actor, ApplyMonitorEvaluation(a) PROVE FollowLinks
  BY <1>17 DEF ApplyMonitorEvaluation, FollowLinks
<1>18. ASSUME NEW a \in Actor, RestoreRelease(a) PROVE FollowLinks
  BY <1>18 DEF RestoreRelease, Expected, CanRollBack, Releases!Rollback, FollowLinks
<1>19. ASSUME NEW a \in Actor, RecordRollback(a) PROVE FollowLinks
  BY <1>19 DEF RecordRollback, FollowLinks
<1>20. ASSUME NEW a \in Actor, Crash(a) PROVE FollowLinks
  BY <1>20 DEF Crash, FollowLinks
<1>21. CASE UNCHANGED vars
  BY <1>21
<1> QED
  BY <1>1, <1>2, <1>3, <1>4, <1>5, <1>6, <1>7, <1>8, <1>9, <1>10, <1>11, <1>12, <1>13, <1>14,
     <1>15, <1>16, <1>17, <1>18, <1>19, <1>20, <1>21 DEF Next, Start, Continue

\* A promotion is recorded only while the links hold exactly its commits, a
\* rollback only after the release it leaves is out of use.
THEOREM RecordsFollow == Spec => RecordsFollowLinks
<1>1. PromotionInv => Always
  BY DEF PromotionInv
<1> QED
  BY <1>1, StepFollowLinks, PromotionInvariant, PTL DEF Spec, RecordsFollowLinks, FollowLinks

\* Only the actor that restores a release holds the fence then, and a monitor
\* that finds another promotion active leaves the links.
KeepNewer ==
    \A a \in Actor : pc[a] = "restoring" /\ task[a] # None /\ pair' # pair
        => pair = Exact(task[a])

\* One case per step.
LEMMA StepKeepNewer == Always /\ [Next]_vars => [KeepNewer]_vars
<1> SUFFICES ASSUME Always, [Next]_vars
             PROVE  KeepNewer \/ UNCHANGED vars
  OBVIOUS
<1> USE PromotionAssumption
<1> USE DEF Always, FenceHeld, Fenced, records
<1>1. ASSUME NEW p \in Candidates, Create(p) PROVE KeepNewer
  BY <1>1 DEF Create, KeepNewer
<1>2. ASSUME NEW a \in Actor, BeginRollback(a) PROVE KeepNewer
  BY <1>2 DEF BeginRollback, KeepNewer
<1>3. ASSUME NEW a \in Actor, NEW p \in Candidates, BeginEvaluation(a, p) PROVE KeepNewer
  BY <1>3 DEF BeginEvaluation, KeepNewer
<1>4. ASSUME NEW a \in Actor, NEW p \in Candidates, BeginApproval(a, p) PROVE KeepNewer
  BY <1>4 DEF BeginApproval, KeepNewer
<1>5. ASSUME NEW a \in Actor, NEW p \in Candidates, BeginRejection(a, p) PROVE KeepNewer
  BY <1>5 DEF BeginRejection, KeepNewer
<1>6. ASSUME NEW a \in Actor, NEW p \in Candidates, BeginMonitoring(a, p) PROVE KeepNewer
  BY <1>6 DEF BeginMonitoring, KeepNewer
<1>7. ASSUME NEW a \in Actor, CompleteEvaluation(a) PROVE KeepNewer
  BY <1>7 DEF CompleteEvaluation, Outcomes, KeepNewer
<1>8. ASSUME NEW a \in Actor, ApproveProposal(a) PROVE KeepNewer
  BY <1>8 DEF ApproveProposal, KeepNewer
<1>9. ASSUME NEW a \in Actor, AcquireSkillFence(a) PROVE KeepNewer
  BY <1>9 DEF AcquireSkillFence, AfterFence, KeepNewer
<1>10. ASSUME NEW a \in Actor, Promote(a) PROVE KeepNewer
  BY <1>10 DEF Promote, CanSwitch, Releases!Promote, KeepNewer
<1>11. ASSUME NEW a \in Actor, RecordPromotionDecision(a) PROVE KeepNewer
  BY <1>11 DEF RecordPromotionDecision, Recordable, ActivateOnly, KeepNewer
<1>12. ASSUME NEW a \in Actor, Compensate(a) PROVE KeepNewer
  BY <1>12 DEF Compensate, Releases!Rollback, KeepNewer
<1>13. ASSUME NEW a \in Actor, CleanCandidate(a) PROVE KeepNewer
  BY <1>13 DEF CleanCandidate, KeepNewer
<1>14. ASSUME NEW a \in Actor, ConfirmPromotion(a) PROVE KeepNewer
  BY <1>14 DEF ConfirmPromotion, KeepNewer
<1>15. ASSUME NEW a \in Actor, DropCandidate(a) PROVE KeepNewer
  BY <1>15 DEF DropCandidate, KeepNewer
<1>16. ASSUME NEW a \in Actor, RejectProposal(a) PROVE KeepNewer
  BY <1>16 DEF RejectProposal, KeepNewer
<1>17. ASSUME NEW a \in Actor, ApplyMonitorEvaluation(a) PROVE KeepNewer
  BY <1>17 DEF ApplyMonitorEvaluation, KeepNewer
<1>18. ASSUME NEW a \in Actor, RestoreRelease(a) PROVE KeepNewer
  BY <1>18 DEF RestoreRelease, Expected, CanRollBack, Releases!Rollback, KeepNewer
<1>19. ASSUME NEW a \in Actor, RecordRollback(a) PROVE KeepNewer
  BY <1>19 DEF RecordRollback, KeepNewer
<1>20. ASSUME NEW a \in Actor, Crash(a) PROVE KeepNewer
  BY <1>20 DEF Crash, KeepNewer
<1>21. CASE UNCHANGED vars
  BY <1>21
<1> QED
  BY <1>1, <1>2, <1>3, <1>4, <1>5, <1>6, <1>7, <1>8, <1>9, <1>10, <1>11, <1>12, <1>13, <1>14,
     <1>15, <1>16, <1>17, <1>18, <1>19, <1>20, <1>21 DEF Next, Start, Continue

\* A monitor undoes only the promotion it evaluated, whatever was promoted or
\* rolled back during the evaluation.
THEOREM MonitorKeeps == Spec => MonitorKeepsNewerRelease
<1>1. PromotionInv => Always
  BY DEF PromotionInv
<1> QED
  BY <1>1, StepKeepNewer, PromotionInvariant, PTL DEF Spec, MonitorKeepsNewerRelease, KeepNewer

\* Late evaluations and rejections find a decided proposal and leave it.
Final ==
    \A p \in Candidates :
        /\ status[p] = "approved" => status'[p] \in {"approved", "promoted", "rejected"}
        /\ status[p] = "promoted" => status'[p] \in {"promoted", "rolled_back"}
        /\ status[p] \in {"rejected", "rolled_back"} => status'[p] = status[p]
        /\ status[p] \in Decided => proof'[p] = proof[p]

\* One case per step.
LEMMA StepFinal == Always /\ [Next]_vars => [Final]_vars
<1> SUFFICES ASSUME Always, [Next]_vars
             PROVE  Final \/ UNCHANGED vars
  OBVIOUS
<1> USE PromotionAssumption
<1> USE DEF Always, TypeOK, HasTask, RowsAgree, records, Decided
<1>1. ASSUME NEW p \in Candidates, Create(p) PROVE Final
  BY <1>1 DEF Create, Final
<1>2. ASSUME NEW a \in Actor, BeginRollback(a) PROVE Final
  BY <1>2 DEF BeginRollback, Final
<1>3. ASSUME NEW a \in Actor, NEW p \in Candidates, BeginEvaluation(a, p) PROVE Final
  BY <1>3 DEF BeginEvaluation, Final
<1>4. ASSUME NEW a \in Actor, NEW p \in Candidates, BeginApproval(a, p) PROVE Final
  BY <1>4 DEF BeginApproval, Final
<1>5. ASSUME NEW a \in Actor, NEW p \in Candidates, BeginRejection(a, p) PROVE Final
  BY <1>5 DEF BeginRejection, Final
<1>6. ASSUME NEW a \in Actor, NEW p \in Candidates, BeginMonitoring(a, p) PROVE Final
  BY <1>6 DEF BeginMonitoring, Final
<1>7. ASSUME NEW a \in Actor, CompleteEvaluation(a) PROVE Final
  BY <1>7 DEF CompleteEvaluation, Outcomes, Final
<1>8. ASSUME NEW a \in Actor, ApproveProposal(a) PROVE Final
  BY <1>8 DEF ApproveProposal, Final
<1>9. ASSUME NEW a \in Actor, AcquireSkillFence(a) PROVE Final
  BY <1>9 DEF AcquireSkillFence, AfterFence, Final
<1>10. ASSUME NEW a \in Actor, Promote(a) PROVE Final
  BY <1>10 DEF Promote, CanSwitch, Releases!Promote, Final
<1>11. ASSUME NEW a \in Actor, RecordPromotionDecision(a) PROVE Final
  BY <1>11 DEF RecordPromotionDecision, Recordable, ActivateOnly, Final
<1>12. ASSUME NEW a \in Actor, Compensate(a) PROVE Final
  BY <1>12 DEF Compensate, Releases!Rollback, Final
<1>13. ASSUME NEW a \in Actor, CleanCandidate(a) PROVE Final
  BY <1>13 DEF CleanCandidate, Final
<1>14. ASSUME NEW a \in Actor, ConfirmPromotion(a) PROVE Final
  BY <1>14 DEF ConfirmPromotion, Final
<1>15. ASSUME NEW a \in Actor, DropCandidate(a) PROVE Final
  BY <1>15 DEF DropCandidate, Final
<1>16. ASSUME NEW a \in Actor, RejectProposal(a) PROVE Final
  BY <1>16 DEF RejectProposal, Final
<1>17. ASSUME NEW a \in Actor, ApplyMonitorEvaluation(a) PROVE Final
  BY <1>17 DEF ApplyMonitorEvaluation, Final
<1>18. ASSUME NEW a \in Actor, RestoreRelease(a) PROVE Final
  BY <1>18 DEF RestoreRelease, Expected, CanRollBack, Releases!Rollback, Final
<1>19. ASSUME NEW a \in Actor, RecordRollback(a) PROVE Final
  BY <1>19 DEF RecordRollback, Final
<1>20. ASSUME NEW a \in Actor, Crash(a) PROVE Final
  BY <1>20 DEF Crash, Final
<1>21. CASE UNCHANGED vars
  BY <1>21
<1> QED
  BY <1>1, <1>2, <1>3, <1>4, <1>5, <1>6, <1>7, <1>8, <1>9, <1>10, <1>11, <1>12, <1>13, <1>14,
     <1>15, <1>16, <1>17, <1>18, <1>19, <1>20, <1>21 DEF Next, Start, Continue

\* What was decided of a proposal stays decided, and so does the proof it was
\* approved on.
THEOREM DecisionsFinal == Spec => DecisionsAreFinal
<1>1. PromotionInv => Always
  BY DEF PromotionInv
<1> QED
  BY <1>1, StepFinal, PromotionInvariant, PTL DEF Spec, DecisionsAreFinal, Final
=============================================================================
