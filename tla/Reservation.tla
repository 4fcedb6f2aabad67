----------------------------- MODULE Reservation -----------------------------
(***************************************************************************)
(* How an open cluster becomes one proposal when several daemons and       *)
(* commands try at once: Manager.Create, the recovery of abandoned         *)
(* reservations in processEligible, Evaluate and Reject of                 *)
(* internal/pipeline, over the clusters and proposals tables.              *)
(*                                                                         *)
(* One cluster.  The id of its proposal is derived from the cluster's, so  *)
(* every process addresses the same row.  Each transaction is one step;    *)
(* preparing and removing a candidate branch are steps of their own.  What *)
(* follows an evaluation is module Promotion.                              *)
(***************************************************************************)
EXTENDS Naturals

CONSTANTS
    Worker,         \* processes that create, evaluate and reject
    Candidate,      \* branches: every preparation makes one with a fresh name
    None,           \* no candidate
    MaxMishaps      \* bound on crashes and failing statements, Git commands or clean-ups

ASSUME ReservationAssumption ==
    /\ None \notin Candidate
    /\ None \notin Worker
    /\ MaxMishaps \in Nat

VARIABLES
    cluster,    \* clusters.status
    row,        \* the cluster's row of proposals
    branches,   \* candidate branches that exist
    pc,         \* where each worker is
    made,       \* the candidate a worker has in memory
    unchanged,  \* workers whose listed updated_at is still the row's
    overtaken,  \* has a preparation outlasted emptyReservationStaleAfter? (history)
    lost,       \* candidates left by a crash, a failed preparation or removal (history)
    mishaps

tables == <<cluster, row, unchanged>>
memory == <<pc, made>>
vars == <<tables, branches, memory, overtaken, lost, mishaps>>

\* "by" is history: the worker that reserved or inserted the row.
NoRow == [status |-> "none", candidate |-> None, stale |-> FALSE, by |-> None]
Reserved(w) == [status |-> "pending", candidate |-> None, stale |-> FALSE, by |-> w]

\* A pending reservation that waits for its candidate, and a proposal with one.
Empty == row.status = "pending" /\ row.candidate = None
Filled == row.candidate # None

\* The steps of Create between the reservation and its end.
OwnSteps == {"preparing", "saving", "auditing", "cleaning", "abandoning"}

Init ==
    /\ cluster = "open"
    /\ row = NoRow
    /\ branches = {}
    /\ pc = [w \in Worker |-> "idle"]
    /\ made = [w \in Worker |-> None]
    /\ unchanged = {}
    /\ overtaken = FALSE
    /\ lost = {}
    /\ mishaps = 0

-----------------------------------------------------------------------------

Goto(w, step) ==
    /\ pc' = [pc EXCEPT ![w] = step]
    /\ UNCHANGED made

Take(w, step, c) ==
    /\ pc' = [pc EXCEPT ![w] = step]
    /\ made' = [made EXCEPT ![w] = c]

Done(w) == Take(w, "idle", None)

Mishap ==
    /\ mishaps < MaxMishaps
    /\ mishaps' = mishaps + 1

Lose(w) == lost' = lost \cup ({made[w]} \ {None})

\* Every write of the row changes its updated_at.
Write(newRow) ==
    /\ row' = newRow
    /\ unchanged' = {}

\* The row is deleted and its cluster opened again, unless it was resolved.
Delete ==
    /\ Write(NoRow)
    /\ cluster' = IF cluster = "proposed" THEN "open" ELSE cluster

-----------------------------------------------------------------------------
(* processEligible: pending proposals first, then open clusters. *)

\* Deviation: an empty reservation is left to its maker, however old it is.
ListPendingFilled(w) ==
    /\ pc[w] = "idle"
    /\ IF Filled /\ row.status = "pending"
       THEN Take(w, "evaluating", row.candidate)
       ELSE Goto(w, "creating")
    /\ UNCHANGED <<tables, branches, overtaken, lost, mishaps>>

ListPending(w) ==
    /\ pc[w] = "idle"
    /\ \/ /\ Filled /\ row.status = "pending"
          /\ Take(w, "evaluating", row.candidate)
          /\ UNCHANGED unchanged
       \/ /\ Empty /\ row.stale
          /\ Goto(w, "recovering")
          /\ unchanged' = unchanged \cup {w}
       \/ /\ row.status # "pending" \/ (Empty /\ ~row.stale)
          /\ Goto(w, "creating")
          /\ UNCHANGED unchanged
    /\ UNCHANGED <<cluster, row, branches, overtaken, lost, mishaps>>

\* Deviation: the reservation is recognised by its being empty alone.
AbandonEmpty(w) ==
    /\ pc[w] = "recovering"
    /\ IF Empty
       THEN Delete /\ Goto(w, "creating")
       ELSE UNCHANGED tables /\ Done(w)
    /\ UNCHANGED <<branches, overtaken, lost, mishaps>>

\* Deviation: the reservation is recognised by its id and status alone.
AbandonPending(w) ==
    /\ pc[w] = "recovering"
    /\ IF row.status = "pending"
       THEN Delete /\ Goto(w, "creating")
       ELSE UNCHANGED tables /\ Done(w)
    /\ UNCHANGED <<branches, overtaken, lost, mishaps>>

\* AbandonProposalIfUnchanged: pending, empty, and as old as it was listed.
AbandonIfUnchanged(w) ==
    /\ pc[w] = "recovering"
    /\ IF Empty /\ w \in unchanged
       THEN Delete /\ Goto(w, "creating")
       ELSE UNCHANGED tables /\ Done(w)
    /\ UNCHANGED <<branches, overtaken, lost, mishaps>>

-----------------------------------------------------------------------------
(* Create. *)

LoadCluster(w) ==
    /\ pc[w] = "creating"
    /\ IF cluster = "open" THEN Goto(w, "reserving") ELSE Done(w)
    /\ UNCHANGED <<tables, branches, overtaken, lost, mishaps>>

\* Deviation: the row is reserved and its cluster stays open.
ReserveRowOnly(w) ==
    /\ pc[w] = "reserving"
    /\ IF cluster = "open" /\ row = NoRow
       THEN Write(Reserved(w)) /\ Goto(w, "preparing")
       ELSE UNCHANGED <<row, unchanged>> /\ Done(w)
    /\ UNCHANGED <<cluster, branches, overtaken, lost, mishaps>>

\* The claim of the cluster and the insertion of the row are one transaction.
ReserveProposal(w) ==
    /\ pc[w] = "reserving"
    /\ \/ /\ cluster = "open" /\ row = NoRow
          /\ cluster' = "proposed"
          /\ Write(Reserved(w))
          /\ Goto(w, "preparing")
       \/ /\ cluster # "open" \/ row # NoRow
          /\ Done(w)
          /\ UNCHANGED tables
    /\ UNCHANGED <<branches, overtaken, lost, mishaps>>

Unused(c) == c \notin branches /\ row.candidate # c /\ \A w \in Worker : made[w] # c

\* A preparation leaves its branch behind when "git worktree add -b" fails or is
\* killed after it made the branch, for the removal is deferred only later, and
\* when the removal fails, for its error is ignored.
FailWithBranch(w, c) ==
    /\ Goto(w, "abandoning")
    /\ lost' = lost \cup {c}
    /\ Mishap

\* Any other one that fails has no branch yet, or removes it before it returns.
Prepare(w) ==
    /\ pc[w] = "preparing"
    /\ \/ \E c \in Candidate :
            /\ Unused(c)
            /\ branches' = branches \cup {c}
            /\ \/ Take(w, "saving", c) /\ UNCHANGED <<lost, mishaps>>
               \/ FailWithBranch(w, c)
       \/ Goto(w, "abandoning") /\ UNCHANGED <<branches, lost, mishaps>>
    /\ UNCHANGED <<tables, overtaken>>

\* SaveProposal inserts the row, or fills an empty one; a row that holds other
\* commits is an error.
SaveProposal(w) ==
    /\ pc[w] = "saving"
    /\ \/ /\ ~Filled
          /\ Write([Reserved(w) EXCEPT !.candidate = made[w]])
          /\ Goto(w, "auditing")
          /\ UNCHANGED mishaps
       \/ /\ \/ Filled /\ UNCHANGED mishaps
             \/ Mishap
          /\ Goto(w, "cleaning")
          /\ UNCHANGED <<row, unchanged>>
    /\ UNCHANGED <<cluster, branches, overtaken, lost>>

\* The audit row. A daemon goes on to evaluate what it then finds in the row.
AppendAudit(w) ==
    /\ pc[w] = "auditing"
    /\ \/ Done(w) /\ UNCHANGED mishaps
       \/ Goto(w, "cleaning") /\ Mishap
    /\ UNCHANGED <<tables, branches, overtaken, lost>>

\* Deviation: an aborted creation leaves its branch.
KeepBranch(w) ==
    /\ pc[w] = "cleaning"
    /\ Take(w, "abandoning", None)
    /\ UNCHANGED <<tables, branches, overtaken, lost, mishaps>>

\* abort: the candidate first, whether or not that works, then the row.
Cleanup(w) ==
    /\ pc[w] = "cleaning"
    /\ \/ branches' = branches \ {made[w]} /\ UNCHANGED <<lost, mishaps>>
       \/ UNCHANGED branches /\ Lose(w) /\ Mishap
    /\ Take(w, "abandoning", None)
    /\ UNCHANGED <<tables, overtaken>>

\* Deviation: the row is deleted whatever its status.
AbandonAnyStatus(w) ==
    /\ pc[w] = "abandoning"
    /\ IF row # NoRow THEN Delete ELSE UNCHANGED tables
    /\ Done(w)
    /\ UNCHANGED <<branches, overtaken, lost, mishaps>>

\* The row is recognised by its id and its status alone.
AbandonProposal(w) ==
    /\ pc[w] = "abandoning"
    /\ IF row.status = "pending" THEN Delete ELSE UNCHANGED tables
    /\ Done(w)
    /\ UNCHANGED <<branches, overtaken, lost, mishaps>>

-----------------------------------------------------------------------------
(* Evaluate and Reject. *)

\* By a command, or by a daemon whose Create has returned a proposal.
BeginEvaluation(w) ==
    /\ pc[w] = "idle"
    /\ Filled /\ row.status \in {"pending", "evaluated"}
    /\ Take(w, "evaluating", row.candidate)
    /\ UNCHANGED <<tables, branches, overtaken, lost, mishaps>>

\* One transaction, guarded by the exact commits and the status; nothing is
\* stored when the evaluation ends in an error.
CompleteEvaluation(w) ==
    /\ pc[w] = "evaluating"
    /\ \/ /\ Filled /\ row.candidate = made[w]
          /\ row.status \in {"pending", "evaluated"}
          /\ Write([row EXCEPT !.status = "evaluated"])
       \/ UNCHANGED <<row, unchanged>>
    /\ Done(w)
    /\ UNCHANGED <<cluster, branches, overtaken, lost, mishaps>>

BeginRejection(w) ==
    /\ pc[w] = "idle"
    /\ Filled
    /\ Take(w, "dropping", row.candidate)
    /\ UNCHANGED <<tables, branches, overtaken, lost, mishaps>>

DropCandidate(w) ==
    /\ pc[w] = "dropping"
    /\ \/ branches' = branches \ {made[w]} /\ Goto(w, "rejecting") /\ UNCHANGED mishaps
       \/ UNCHANGED branches /\ Done(w) /\ Mishap
    /\ UNCHANGED <<tables, overtaken, lost>>

RejectProposal(w) ==
    /\ pc[w] = "rejecting"
    /\ IF row.status \in {"pending", "evaluated"}
       THEN Write([row EXCEPT !.status = "rejected"]) /\ cluster' = "resolved"
       ELSE UNCHANGED tables
    /\ Done(w)
    /\ UNCHANGED <<branches, overtaken, lost, mishaps>>

-----------------------------------------------------------------------------
(* Time and death. *)

Abandoned == Empty /\ ~row.stale /\ pc[row.by] \notin OwnSteps

\* Five minutes pass over a reservation whose maker is gone.
GrowStale ==
    /\ Abandoned
    /\ row' = [row EXCEPT !.stale = TRUE]
    /\ UNCHANGED <<cluster, unchanged, branches, memory, overtaken, lost, mishaps>>

\* They pass over one that is still being prepared; once (bound).
Overtake ==
    /\ Empty /\ ~row.stale /\ ~Abandoned
    /\ ~overtaken
    /\ overtaken' = TRUE
    /\ row' = [row EXCEPT !.stale = TRUE]
    /\ UNCHANGED <<cluster, unchanged, branches, memory, lost, mishaps>>

\* A worker dies, or returns with the error of a statement it does not undo.
Crash(w) ==
    /\ pc[w] # "idle"
    /\ Mishap
    /\ IF pc[w] \in OwnSteps THEN Lose(w) ELSE UNCHANGED lost
    /\ Done(w)
    /\ UNCHANGED <<tables, branches, overtaken>>

Step(w) ==
    \/ ListPending(w) \/ AbandonIfUnchanged(w)
    \/ LoadCluster(w) \/ ReserveProposal(w) \/ Prepare(w) \/ SaveProposal(w)
    \/ AppendAudit(w) \/ Cleanup(w) \/ AbandonProposal(w)
    \/ CompleteEvaluation(w) \/ DropCandidate(w) \/ RejectProposal(w)

Next ==
    \/ \E w \in Worker : Step(w) \/ BeginEvaluation(w) \/ BeginRejection(w) \/ Crash(w)
    \/ GrowStale
    \/ Overtake

\* Daemons drain for ever, their statements return, and time passes.
Fairness ==
    /\ \A w \in Worker : WF_vars(Step(w))
    /\ WF_vars(GrowStale)

Spec == Init /\ [][Next]_vars /\ Fairness

-----------------------------------------------------------------------------
\* Type invariant; an evaluated proposal has a candidate.
TypeOK ==
    /\ cluster \in {"open", "proposed", "resolved"}
    /\ row \in [status : {"none", "pending", "evaluated", "rejected"},
                candidate : Candidate \cup {None}, stale : BOOLEAN, by : Worker \cup {None}]
    /\ branches \subseteq Candidate
    /\ pc \in [Worker -> OwnSteps \cup {"idle", "recovering", "creating", "reserving",
                                        "evaluating", "dropping", "rejecting"}]
    /\ made \in [Worker -> Candidate \cup {None}]
    /\ unchanged \subseteq Worker
    /\ overtaken \in BOOLEAN
    /\ lost \subseteq Candidate
    /\ mishaps \in 0..MaxMishaps
    /\ row.status = "none" <=> row = NoRow
    /\ row.status = "evaluated" => Filled

\* What the recovery of abandoned reservations deletes is one that has been
\* empty for five minutes, never a younger one that another daemon has made
\* since the list was read (store.go:1215-1217, proposals.go:440-453).
RecoveryTakesStaleOnly ==
    [][\A w \in Worker :
        pc[w] = "recovering" /\ row' = NoRow /\ row # NoRow /\ pc'[w] = "creating"
            => Empty /\ row.stale]_vars

\* As long as no preparation outlasts the five minutes, a populated proposal is
\* deleted by nobody but the worker whose creation failed (store.go:1215-1217,
\* "preventing stale daemon snapshots from deleting live work").
LiveWorkKeptInTime ==
    [][~overtaken /\ Filled /\ row' = NoRow => pc[row.by] = "abandoning"]_vars

\* A proposal that has been evaluated keeps its row and its candidate, even when
\* the creation it came from fails afterwards (proposals.go:133-136).
EvaluatedKept ==
    [][row.status = "evaluated" => row' # NoRow /\ row'.candidate = row.candidate]_vars

\* Every candidate branch is the row's or somebody is working on it, unless its
\* worker died or Git failed while it was made or removed: a creation that loses
\* the row, or that fails after its preparation, leaves nothing in the repository
\* that Git would have removed (candidate.go:112-120, proposals.go:133-136).
BranchHasOwner ==
    ~overtaken => \A c \in branches \ lost : row.candidate = c \/ \E w \in Worker : made[w] = c

\* No cluster is offered again while it has a proposal, and none waits for a
\* proposal that is not there, through reservation, recovery and failure.
ClusterFollowsProposal ==
    ~overtaken => IF row = NoRow THEN cluster # "proposed" ELSE cluster # "open"

\* An empty reservation blocks its cluster for a while only: it is filled,
\* abandoned by its maker, or recovered by another daemon if that one is dead.
ReservationEnds == Empty ~> ~Empty
=============================================================================
