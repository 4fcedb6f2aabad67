------------------------------ MODULE Promotion ------------------------------
(***************************************************************************)
(* The approval pipeline of one skill: internal/pipeline (Manager.Create,  *)
(* Evaluate, Approve, Reject, Rollback and Monitor) over the proposals and *)
(* promotions tables of internal/store, the candidate branches and the     *)
(* release pair of internal/improvement.                                   *)
(*                                                                         *)
(* The release pair is the abstract one of module ReleasePair: module      *)
(* ReleaseSwitchProofs shows that the links implement it.  Several         *)
(* commands, daemons and monitors (Actor) run at once; each database       *)
(* transaction, each branch removal and each release switch is a step, and *)
(* between steps an actor can die.  The policy lock is module PolicyLock;  *)
(* its readers, which all of these are, do not exclude each other.         *)
(*                                                                         *)
(* A proposal is named by its exact commits <<base, candidate>>.           *)
(***************************************************************************)
EXTENDS Naturals

CONSTANTS
    Actor,          \* processes and goroutines that run the pipeline
    Candidates,     \* proposals: pairs <<base, candidate>>
    Head,           \* HEAD of the skill's repository
    None,           \* no commit, no proposal, no actor
    MaxMishaps      \* crashes and failed transactions or clean-ups

ASSUME PromotionAssumption ==
    /\ None \notin Actor
    /\ None \notin Candidates
    /\ \A p \in Candidates : p[1] # p[2] /\ None \notin {p[1], p[2]}
    /\ \A p \in Candidates : p[2] # Head      \* a candidate is a new commit
    /\ \A p, q \in Candidates : p[2] = q[2] => p = q
    /\ MaxMishaps \in Nat

VARIABLES
    pair,       \* the release links: previous and current
    status,     \* proposals.status
    proof,      \* evaluation_results: the stored external comparison
    row,        \* promotions.active; a proposal has one promotion id
    branch,     \* proposals whose candidate branch and worktree exist
    fence,      \* holder of the skill fence
    pc,         \* where each actor is
    task,       \* the proposal it works on; for a rollback, the one it expects
    mishaps

vars == <<pair, status, proof, row, branch, fence, pc, task, mishaps>>
records == <<status, proof, row>>

Releases == INSTANCE ReleasePair

Exact(p) == [previous |-> p[1], current |-> p[2]]
Decided == {"approved", "promoted", "rejected", "rolled_back"}
AfterFence == [confirmFence  |-> "confirming",
               switchFence   |-> "switching",
               rollbackFence |-> "restoring"]

Init ==
    /\ Releases!Init
    /\ status = [p \in Candidates |-> "absent"]
    /\ proof = [p \in Candidates |-> "none"]
    /\ row = [p \in Candidates |-> "none"]
    /\ branch = {}
    /\ fence = None
    /\ pc = [a \in Actor |-> "idle"]
    /\ task = [a \in Actor |-> None]
    /\ mishaps = 0

Begin(a, p, to) ==
    /\ pc[a] = "idle"
    /\ pc' = [pc EXCEPT ![a] = to]
    /\ task' = [task EXCEPT ![a] = p]
    /\ UNCHANGED fence

Goto(a, to) ==
    /\ pc' = [pc EXCEPT ![a] = to]
    /\ UNCHANGED <<task, fence>>

\* A handler returns and its deferred release drops the fence it holds; a
\* process that dies loses its memory and its file locks in the same way.
Leave(a) ==
    /\ pc' = [pc EXCEPT ![a] = "idle"]
    /\ task' = [task EXCEPT ![a] = None]
    /\ fence' = IF fence = a THEN None ELSE fence

Mishap ==
    /\ mishaps < MaxMishaps
    /\ mishaps' = mishaps + 1

NoMishap == UNCHANGED mishaps

-----------------------------------------------------------------------------
(* Create and Evaluate. *)

\* Prepare takes the release in use as base, or HEAD before the first
\* promotion; SaveProposal fills the reserved record.
Create(p) ==
    /\ status[p] = "absent"
    /\ p[1] = IF pair.current = None THEN Head ELSE pair.current
    /\ status' = [status EXCEPT ![p] = "pending"]
    /\ branch' = branch \cup {p}
    /\ UNCHANGED <<pair, proof, row, fence, pc, task, mishaps>>

\* The comparison of baseline and candidate: every check passes, or not.
Outcomes == {"pass", "fail"}

BeginEvaluation(a, p) ==
    /\ status[p] \in {"pending", "evaluated"}
    /\ Begin(a, p, "evaluating")
    /\ UNCHANGED <<pair, status, proof, row, branch, mishaps>>

\* Deviation: the result is stored whatever became of the proposal.
CompleteEvaluationAnyStatus(a) ==
    LET p == task[a] IN
    /\ pc[a] = "evaluating"
    /\ \E result \in Outcomes : proof' = [proof EXCEPT ![p] = result]
    /\ status' = [status EXCEPT ![p] = "evaluated"]
    /\ Leave(a)
    /\ UNCHANGED <<pair, row, branch, mishaps>>

\* One transaction stores the results and marks the proposal evaluated; it
\* is rolled back when the proposal has left pending and evaluated.
CompleteEvaluation(a) ==
    LET p == task[a] IN
    /\ pc[a] = "evaluating"
    /\ \/ /\ status[p] \in {"pending", "evaluated"}
          /\ status' = [status EXCEPT ![p] = "evaluated"]
          /\ \E result \in Outcomes : proof' = [proof EXCEPT ![p] = result]
       \/ /\ status[p] \notin {"pending", "evaluated"}
          /\ UNCHANGED <<status, proof>>
    /\ Leave(a)
    /\ UNCHANGED <<pair, row, branch, mishaps>>

-----------------------------------------------------------------------------
(* Approve. *)

\* persistedEvaluation.
Proven(p) == proof[p] = "pass"

\* The status, and for an unpromoted proposal the stored proof, are read
\* here and not again.
BeginApproval(a, p) ==
    /\ \/ /\ status[p] = "promoted"
          /\ Begin(a, p, "confirmFence")
       \/ /\ status[p] # "promoted"
          /\ Proven(p)
          /\ Begin(a, p, "approving")
    /\ UNCHANGED <<pair, records, branch, mishaps>>

ApproveProposal(a) ==
    LET p == task[a] IN
    /\ pc[a] = "approving"
    /\ \/ /\ status[p] \in {"evaluated", "approved"}
          /\ status' = [status EXCEPT ![p] = "approved"]
          /\ Goto(a, "switchFence")
       \/ /\ status[p] \notin {"evaluated", "approved"}
          /\ Leave(a)
          /\ UNCHANGED status
    /\ UNCHANGED <<pair, proof, row, branch, mishaps>>

\* Deviation: promotions and rollbacks of one skill run side by side.
PassFence(a) ==
    /\ pc[a] \in DOMAIN AfterFence
    /\ pc' = [pc EXCEPT ![a] = AfterFence[pc[a]]]
    /\ UNCHANGED <<pair, records, branch, fence, task, mishaps>>

AcquireSkillFence(a) ==
    /\ pc[a] \in DOMAIN AfterFence
    /\ fence = None
    /\ fence' = a
    /\ pc' = [pc EXCEPT ![a] = AfterFence[pc[a]]]
    /\ UNCHANGED <<pair, records, branch, task, mishaps>>

\* Improver.Promote: the pair is in place already, or the candidate's branch
\* stands on the release in use (or on nothing), or the promotion is refused.
CanSwitch(p) ==
    /\ pair.current \in {None, p[1]}
    /\ p \in branch

Promote(a) ==
    LET p == task[a] IN
    /\ pc[a] = "switching"
    /\ \/ /\ pair = Exact(p)
          /\ Goto(a, "recording")
          /\ UNCHANGED pair
       \/ /\ CanSwitch(p)
          /\ Releases!Promote(p[1], p[2])
          /\ Goto(a, "recording")
       \/ /\ pair # Exact(p)
          /\ ~CanSwitch(p)
          /\ Leave(a)
          /\ UNCHANGED pair
    /\ UNCHANGED <<records, branch, mishaps>>

Recordable(p) == row[p] = "none" /\ status[p] \in {"evaluated", "approved"}

\* Deviation: the promotion in force before this one stays active.
Activate(p) == [row EXCEPT ![p] = "active"]

\* The previous promotion of the skill is deactivated by the same transaction.
ActivateOnly(p) ==
    [q \in Candidates |->
        IF q = p THEN "active" ELSE IF row[q] = "active" THEN "inactive" ELSE row[q]]

\* RecordPromotionDecision: a row that exists and is active is accepted as it
\* is; an inactive one, a decided proposal or a failing database is an error.
RecordPromotionDecision(a) ==
    LET p == task[a] IN
    /\ pc[a] = "recording"
    /\ \/ /\ row[p] = "active"
          /\ Goto(a, "cleaning")
          /\ UNCHANGED <<status, row>>
          /\ NoMishap
       \/ /\ Recordable(p)
          /\ row' = ActivateOnly(p)
          /\ status' = [status EXCEPT ![p] = "promoted"]
          /\ Goto(a, "cleaning")
          /\ NoMishap
       \/ /\ \/ row[p] # "active" /\ ~Recordable(p) /\ NoMishap
             \/ Mishap
          /\ Goto(a, "compensating")
          /\ UNCHANGED <<status, row>>
    /\ UNCHANGED <<pair, proof, branch>>

\* Deviation: a promotion that cannot be recorded is left in place.
KeepUnrecorded(a) ==
    /\ pc[a] = "compensating"
    /\ Leave(a)
    /\ UNCHANGED <<pair, records, branch, mishaps>>

\* RollbackExpected with the pair that was just installed.
Compensate(a) ==
    LET p == task[a] IN
    /\ pc[a] = "compensating"
    /\ IF pair = Exact(p) THEN Releases!Rollback ELSE UNCHANGED pair
    /\ Leave(a)
    /\ UNCHANGED <<records, branch, mishaps>>

\* Cleanup of the promoted candidate; its failure is only reported.
CleanCandidate(a) ==
    /\ pc[a] = "cleaning"
    /\ \/ branch' = branch \ {task[a]} /\ NoMishap
       \/ UNCHANGED branch /\ Mishap
    /\ Leave(a)
    /\ UNCHANGED <<pair, records>>

\* Approving a promoted proposal again only repeats its clean-up.
ConfirmPromotion(a) ==
    LET p == task[a] IN
    /\ pc[a] = "confirming"
    /\ branch' = IF row[p] = "active" /\ pair.current = p[2] THEN branch \ {p} ELSE branch
    /\ Leave(a)
    /\ UNCHANGED <<pair, records, mishaps>>

-----------------------------------------------------------------------------
(* Reject, which takes neither the policy lock nor the fence. *)

BeginRejection(a, p) ==
    /\ status[p] \notin {"absent", "promoted", "rolled_back"}
    /\ Begin(a, p, "rejecting")
    /\ UNCHANGED <<pair, records, branch, mishaps>>

DropCandidate(a) ==
    /\ pc[a] = "rejecting"
    /\ \/ branch' = branch \ {task[a]} /\ Goto(a, "rejectingRow") /\ NoMishap
       \/ UNCHANGED branch /\ Leave(a) /\ Mishap
    /\ UNCHANGED <<pair, records>>

\* Deviation: the status read before the clean-up is trusted.
RejectUnchecked(a) ==
    /\ pc[a] = "rejectingRow"
    /\ status' = [status EXCEPT ![task[a]] = "rejected"]
    /\ Leave(a)
    /\ UNCHANGED <<pair, proof, row, branch, mishaps>>

RejectProposal(a) ==
    LET p == task[a] IN
    /\ pc[a] = "rejectingRow"
    /\ status' = IF status[p] \in {"pending", "evaluated", "approved"}
                 THEN [status EXCEPT ![p] = "rejected"] ELSE status
    /\ Leave(a)
    /\ UNCHANGED <<pair, proof, row, branch, mishaps>>

-----------------------------------------------------------------------------
(* Rollback, by hand or by a monitor. *)

BeginRollback(a) ==
    /\ Begin(a, None, "rollbackFence")
    /\ UNCHANGED <<pair, records, branch, mishaps>>

BeginMonitoring(a, p) ==
    /\ row[p] = "active"
    /\ Begin(a, p, "monitoring")
    /\ UNCHANGED <<pair, records, branch, mishaps>>

\* A passing evaluation only stamps the row; a regression asks for the
\* rollback of the promotion that was evaluated.
ApplyMonitorEvaluation(a) ==
    /\ pc[a] = "monitoring"
    /\ \/ Leave(a)
       \/ Goto(a, "rollbackFence")
    /\ UNCHANGED <<pair, records, branch, mishaps>>

\* Deviation: whatever is active now is rolled back.
AnyActive(a, p) == row[p] = "active"

\* The active promotion is the one the caller means.
Expected(a, p) == row[p] = "active" /\ task[a] \in {None, p}

\* Either the links hold exactly this promotion, or an earlier attempt has
\* restored them and only the record is missing.
CanRollBack(p) == pair = Exact(p) \/ pair.current = p[1]

RestoreRelease(a) ==
    /\ pc[a] = "restoring"
    /\ \/ \E p \in Candidates :
            /\ Expected(a, p)
            /\ CanRollBack(p)
            /\ IF pair.current = p[1] THEN UNCHANGED pair ELSE Releases!Rollback
            /\ pc' = [pc EXCEPT ![a] = "recordingRollback"]
            /\ task' = [task EXCEPT ![a] = p]
            /\ UNCHANGED fence
       \/ /\ \A p \in Candidates : ~(Expected(a, p) /\ CanRollBack(p))
          /\ Leave(a)
          /\ UNCHANGED pair
    /\ UNCHANGED <<records, branch, mishaps>>

RecordRollback(a) ==
    LET p == task[a] IN
    /\ pc[a] = "recordingRollback"
    /\ \/ /\ row[p] = "active"
          /\ row' = [row EXCEPT ![p] = "inactive"]
          /\ status' = [status EXCEPT ![p] = "rolled_back"]
          /\ NoMishap
       \/ /\ \/ row[p] # "active" /\ NoMishap
             \/ Mishap
          /\ UNCHANGED <<status, row>>
    /\ Leave(a)
    /\ UNCHANGED <<pair, proof, branch>>

-----------------------------------------------------------------------------

Crash(a) ==
    /\ pc[a] # "idle"
    /\ Mishap
    /\ Leave(a)
    /\ UNCHANGED <<pair, records, branch>>

Start(a) ==
    \/ BeginRollback(a)
    \/ \E p \in Candidates :
        \/ BeginEvaluation(a, p)
        \/ BeginApproval(a, p)
        \/ BeginRejection(a, p)
        \/ BeginMonitoring(a, p)

Continue(a) ==
    \/ CompleteEvaluation(a)
    \/ ApproveProposal(a)
    \/ AcquireSkillFence(a)
    \/ Promote(a)
    \/ RecordPromotionDecision(a)
    \/ Compensate(a)
    \/ CleanCandidate(a)
    \/ ConfirmPromotion(a)
    \/ DropCandidate(a)
    \/ RejectProposal(a)
    \/ ApplyMonitorEvaluation(a)
    \/ RestoreRelease(a)
    \/ RecordRollback(a)

Next ==
    \/ \E p \in Candidates : Create(p)
    \/ \E a \in Actor : Start(a) \/ Continue(a) \/ Crash(a)

Spec == Init /\ [][Next]_vars

-----------------------------------------------------------------------------
\* Type invariant; an active promotion belongs to a promoted proposal.
TypeOK ==
    /\ pair \in [previous : {None} \cup UNION {{p[1], p[2]} : p \in Candidates},
                 current : {None} \cup UNION {{p[1], p[2]} : p \in Candidates}]
    /\ status \in [Candidates -> {"absent", "pending", "evaluated"} \cup Decided]
    /\ proof \in [Candidates -> {"none"} \cup Outcomes]
    /\ row \in [Candidates -> {"none", "active", "inactive"}]
    /\ branch \subseteq Candidates
    /\ fence \in Actor \cup {None}
    /\ pc \in [Actor -> {"idle", "evaluating", "approving", "switching", "recording",
                         "compensating", "cleaning", "confirming", "rejecting", "rejectingRow",
                         "monitoring", "restoring", "recordingRollback"} \cup DOMAIN AfterFence]
    /\ task \in [Actor -> Candidates \cup {None}]
    /\ mishaps \in 0..MaxMishaps
    /\ \A p \in Candidates : row[p] = "active" => status[p] = "promoted"

\* While nobody died and no transaction failed, the active promotion is the
\* release in use whenever no promotion or rollback is under way; there is one
\* at most (store.go RecordPromotionDecision, RecordRollback).
ActiveReleaseInUse ==
    mishaps = 0 /\ fence = None
        => \A p \in Candidates : row[p] = "active" => pair.current = p[2]

\* Under the same conditions a rejected or rolled back candidate is never the
\* release in use, although Reject takes no lock and a rejection can fall
\* between the switch of the links and its record.
DiscardedNeverInUse ==
    mishaps = 0 /\ fence = None
        => \A p \in Candidates : status[p] \in {"rejected", "rolled_back"} => pair.current # p[2]

\* A promotion is recorded only while the links hold exactly its commits, and
\* a rollback only after the release it leaves is out of use.
RecordsFollowLinks ==
    [][\A p \in Candidates :
        /\ row[p] # "active" /\ row'[p] = "active" => pair = Exact(p)
        /\ status[p] # "rolled_back" /\ status'[p] = "rolled_back" => pair.current = p[1]]_vars

\* A monitor only undoes the promotion it evaluated, however many promotions
\* and rollbacks happened during the evaluation (monitor.go, "generation
\* changed; rollback discarded").
MonitorKeepsNewerRelease ==
    [][\A a \in Actor : pc[a] = "restoring" /\ task[a] # None /\ pair' # pair
        => pair = Exact(task[a])]_vars

\* A late evaluation or a late rejection changes nothing that was decided: an
\* approval ends in a promotion or a rejection, a promotion in a rollback, and
\* the proof an approval was given on stays as it was.
DecisionsAreFinal ==
    [][\A p \in Candidates :
        /\ status[p] = "approved" => status'[p] \in {"approved", "promoted", "rejected"}
        /\ status[p] = "promoted" => status'[p] \in {"promoted", "rolled_back"}
        /\ status[p] \in {"rejected", "rolled_back"} => status'[p] = status[p]
        /\ status[p] \in Decided => proof'[p] = proof[p]]_vars
=============================================================================
