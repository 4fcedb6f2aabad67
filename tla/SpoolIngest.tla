----------------------------- MODULE SpoolIngest -----------------------------
(***************************************************************************)
(* The spool (internal/capture/spool.go) and the daemons that drain it     *)
(* (internal/daemon/processor.go), with the jobs table of                  *)
(* internal/store/store.go that leases each event to one of them.          *)
(*                                                                         *)
(* An event is one file under one name; a rename or an unlink acts on      *)
(* whatever the name stands for at that moment.  Each SQL statement is one *)
(* step.  Nothing keeps two daemons from draining the same spool.          *)
(***************************************************************************)
EXTENDS Naturals, FiniteSets, FiniteSetsExt

CONSTANTS
    Event,          \* one hook invocation each
    Worker,         \* daemon processes
    None,           \* no event
    Limit,          \* directory entries one scan examines (daemon --limit)
    MaxAttempts,    \* bound: a lease expires only below this many claims
    MaxMishaps,     \* bound on crashes and store failures together
    Retention       \* does a terminal job ever outlive its retention?

ASSUME SpoolAssumption ==
    /\ None \notin Event
    /\ Limit \in Nat \ {0} /\ MaxAttempts \in Nat /\ MaxMishaps \in Nat
    /\ Retention \in BOOLEAN

VARIABLES
    hook,           \* what the hook process of each event is doing
    place,          \* where the event's file is
    job,            \* the event's row of the jobs table
    outcome,        \* how the event's job last ended (history)
    ingested,       \* how often the event was committed (history)
    pc, event, token, left, whole,  \* a worker's memory
    mishaps

files == <<hook, place>>
store == <<job, outcome, ingested>>
memory == <<pc, event, token, left, whole>>
vars == <<files, store, memory, mishaps>>

NoJob == [status |-> "none", attempts |-> 0, leased |-> FALSE, aged |-> FALSE]

Places == {"none", "temporary", "incoming", "processing", "tempTaken", "failed", "gone"}
Scanning == {"recover", "recoverQuarantine", "inspect", "recoverRemove", "recoverFail",
             "recoverMove", "list"}
Handling == {"take", "open", "enqueue", "lookup", "acknowledge", "claim", "defer",
             "work", "remove", "fail", "quarantine"}

Init ==
    /\ hook = [e \in Event |-> "idle"]
    /\ place = [e \in Event |-> "none"]
    /\ job = [e \in Event |-> NoJob]
    /\ outcome = [e \in Event |-> "none"]
    /\ ingested = [e \in Event |-> 0]
    /\ pc = [w \in Worker |-> "idle"]
    /\ event = [w \in Worker |-> None]
    /\ token = [w \in Worker |-> 0]
    /\ left = [w \in Worker |-> {}]
    /\ whole = [w \in Worker |-> FALSE]
    /\ mishaps = 0

-----------------------------------------------------------------------------
(* Capture: a temporary in incoming/, then one rename to its final name. *)

Capture(e) ==
    /\ hook[e] = "idle"
    /\ hook' = [hook EXCEPT ![e] = "writing"]
    /\ place' = [place EXCEPT ![e] = "temporary"]
    /\ UNCHANGED <<store, memory, mishaps>>

Publish(e) ==
    /\ hook[e] = "writing"
    /\ \/ /\ place[e] = "temporary"
          /\ hook' = [hook EXCEPT ![e] = "published"]
          /\ place' = [place EXCEPT ![e] = "incoming"]
       \/ /\ place[e] # "temporary"         \* the rename fails
          /\ hook' = [hook EXCEPT ![e] = "lost"]
          /\ UNCHANGED place
    /\ UNCHANGED <<store, memory, mishaps>>

\* The agent gives the hook one second.
HookTimesOut(e) ==
    /\ hook[e] = "writing"
    /\ hook' = [hook EXCEPT ![e] = "lost"]
    /\ UNCHANGED <<place, store, memory, mishaps>>

-----------------------------------------------------------------------------
(* A worker's moves. *)

Goto(w, step) ==
    /\ pc' = [pc EXCEPT ![w] = step]
    /\ UNCHANGED <<event, token, left, whole>>

\* Back to the scan, without the event.
Continue(w, step) ==
    /\ pc' = [pc EXCEPT ![w] = step]
    /\ event' = [event EXCEPT ![w] = None]
    /\ token' = [token EXCEPT ![w] = 0]
    /\ UNCHANGED <<left, whole>>

\* Drain returns, or the process dies.
Stop(w) ==
    /\ pc' = [pc EXCEPT ![w] = "idle"]
    /\ event' = [event EXCEPT ![w] = None]
    /\ token' = [token EXCEPT ![w] = 0]
    /\ left' = [left EXCEPT ![w] = {}]
    /\ whole' = [whole EXCEPT ![w] = FALSE]

Mishap == mishaps < MaxMishaps /\ mishaps' = mishaps + 1

Crash(w) ==
    /\ pc[w] # "idle"
    /\ Mishap
    /\ Stop(w)
    /\ UNCHANGED <<files, store>>

\* moveEntryNoReplace and removeEntry on processing/<event>.json.
MoveFile(e, destination) ==
    /\ place[e] = "processing"
    /\ place' = [place EXCEPT ![e] = destination]

\* quarantineEntry also takes what openSpoolEntry refuses.
QuarantineFile(e) ==
    /\ place[e] \in {"processing", "tempTaken"}
    /\ place' = [place EXCEPT ![e] = "failed"]

\* The entries of a directory that one bounded walk examines.
Walks(entries) == kSubset(IF Cardinality(entries) < Limit THEN Cardinality(entries) ELSE Limit, entries)

-----------------------------------------------------------------------------
(* recoverProcessing *)

StartDrain(w) ==
    /\ pc[w] = "idle"
    /\ LET entries == {e \in Event : place[e] \in {"processing", "tempTaken"}}
       IN  /\ \E walk \in Walks(entries) : left' = [left EXCEPT ![w] = walk]
           /\ whole' = [whole EXCEPT ![w] = Cardinality(entries) < Limit]
    /\ pc' = [pc EXCEPT ![w] = "recover"]
    /\ UNCHANGED <<files, store, event, token, mishaps>>

RecoverOpen(w) ==
    /\ pc[w] = "recover"
    /\ \E e \in left[w] :
        /\ event' = [event EXCEPT ![w] = e]
        /\ left' = [left EXCEPT ![w] = @ \ {e}]
        /\ pc' = [pc EXCEPT ![w] = IF place[e] = "processing" THEN "inspect"
                                   ELSE "recoverQuarantine"]
    /\ UNCHANGED <<files, store, token, whole, mishaps>>

\* An error of the walk ends the drain.
RecoverQuarantine(w) ==
    /\ pc[w] = "recoverQuarantine"
    /\ \/ QuarantineFile(event[w]) /\ Continue(w, "recover")
       \/ place[event[w]] \notin {"processing", "tempTaken"} /\ UNCHANGED place /\ Stop(w)
    /\ UNCHANGED <<hook, store, mishaps>>

\* Deviation: a processing job is skipped whether or not its lease is live.
InspectAnyLease(w) ==
    /\ pc[w] = "inspect"
    /\ LET j == job[event[w]]
       IN  \/ j.status = "processing" /\ Continue(w, "recover")
           \/ j.status = "completed" /\ Goto(w, "recoverRemove")
           \/ j.status = "failed" /\ Goto(w, "recoverFail")
           \/ j.status \in {"none", "queued"} /\ Goto(w, "recoverMove")
    /\ UNCHANGED <<files, store, mishaps>>

\* Deviation: a failed job's file is removed like a completed one's.
InspectTerminalAlike(w) ==
    /\ pc[w] = "inspect"
    /\ LET j == job[event[w]]
       IN  \/ j.leased /\ Continue(w, "recover")
           \/ j.status \in {"completed", "failed"} /\ Goto(w, "recoverRemove")
           \/ j.status \notin {"completed", "failed"} /\ ~j.leased /\ Goto(w, "recoverMove")
    /\ UNCHANGED <<files, store, mishaps>>

\* The job is read here and acted on in the next step.
Inspect(w) ==
    /\ pc[w] = "inspect"
    /\ LET j == job[event[w]]
       IN  \/ /\ UNCHANGED mishaps
              /\ \/ j.leased /\ Continue(w, "recover")
                 \/ j.status = "completed" /\ Goto(w, "recoverRemove")
                 \/ j.status = "failed" /\ Goto(w, "recoverFail")
                 \/ /\ j.status \in {"none", "queued", "processing"} /\ ~j.leased
                    /\ Goto(w, "recoverMove")
           \/ Mishap /\ Stop(w)
    /\ UNCHANGED <<files, store>>

RecoverTo(w, step, destination) ==
    /\ pc[w] = step
    /\ \/ MoveFile(event[w], destination) /\ Continue(w, "recover")
       \/ place[event[w]] # "processing" /\ UNCHANGED place /\ Stop(w)
    /\ UNCHANGED <<hook, store, mishaps>>

RecoverRemove(w) == RecoverTo(w, "recoverRemove", "gone")
RecoverFail(w)   == RecoverTo(w, "recoverFail", "failed")
RecoverMove(w)   == RecoverTo(w, "recoverMove", "incoming")

Terminal == {"completed", "failed"}

Tombstones == {e \in Event : job[e].status \in Terminal /\ job[e].aged}

\* Deviation: retention does not wait for a complete recovery scan.
PruneAlways(w) ==
    /\ pc[w] = "recover" /\ left[w] = {}
    /\ job' = [e \in Event |-> IF e \in Tombstones THEN NoJob ELSE job[e]]
    /\ Goto(w, "list")
    /\ UNCHANGED <<files, outcome, ingested, mishaps>>

\* PruneRetention, kept from every tombstone unless the scan saw all entries.
Prune(w) ==
    /\ pc[w] = "recover" /\ left[w] = {}
    /\ job' = [e \in Event |-> IF whole[w] /\ e \in Tombstones THEN NoJob ELSE job[e]]
    /\ Goto(w, "list")
    /\ UNCHANGED <<files, outcome, ingested, mishaps>>

-----------------------------------------------------------------------------
(* processFile *)

List(w) ==
    /\ pc[w] = "list"
    /\ LET entries == {e \in Event : place[e] \in {"incoming", "temporary"}}
       IN  \E walk \in Walks(entries) : left' = [left EXCEPT ![w] = walk]
    /\ pc' = [pc EXCEPT ![w] = "take"]
    /\ UNCHANGED <<files, store, event, token, whole, mishaps>>

\* A listed temporary that has been published since is not found any more.
Take(w) ==
    /\ pc[w] = "take"
    /\ \E e \in left[w] :
        /\ left' = [left EXCEPT ![w] = @ \ {e}]
        /\ \/ /\ place[e] = "incoming"
              /\ place' = [place EXCEPT ![e] = "processing"]
              /\ pc' = [pc EXCEPT ![w] = "open"]
              /\ event' = [event EXCEPT ![w] = e]
           \/ /\ place[e] = "temporary"
              /\ place' = [place EXCEPT ![e] = "tempTaken"]
              /\ pc' = [pc EXCEPT ![w] = "open"]
              /\ event' = [event EXCEPT ![w] = e]
           \/ /\ place[e] \notin {"incoming", "temporary"}
              /\ UNCHANGED <<place, pc, event>>
    /\ UNCHANGED <<hook, store, token, whole, mishaps>>

\* What follows the scan in Drain is the business of the pipeline.
FinishDrain(w) ==
    /\ pc[w] = "take" /\ left[w] = {}
    /\ Stop(w)
    /\ UNCHANGED <<files, store, mishaps>>

\* openSpoolEntry and readSpoolEntry.
Open(w) ==
    /\ pc[w] = "open"
    /\ Goto(w, IF place[event[w]] = "processing" THEN "enqueue" ELSE "quarantine")
    /\ UNCHANGED <<files, store, mishaps>>

\* EnqueueJob: insert unless present.
Enqueue(w) ==
    /\ pc[w] = "enqueue"
    /\ \/ /\ job[event[w]].status = "none"
          /\ job' = [job EXCEPT ![event[w]] = [NoJob EXCEPT !.status = "queued"]]
          /\ Goto(w, "claim")
          /\ UNCHANGED mishaps
       \/ /\ job[event[w]].status # "none"
          /\ Goto(w, "lookup")
          /\ UNCHANGED <<job, mishaps>>
       \/ Mishap /\ Goto(w, "quarantine") /\ UNCHANGED job
    /\ UNCHANGED <<files, outcome, ingested>>

\* Deviation: every known job counts as already handled.
LookupKnown(w) ==
    /\ pc[w] = "lookup"
    /\ Goto(w, "acknowledge")
    /\ UNCHANGED <<files, store, mishaps>>

Lookup(w) ==
    /\ pc[w] = "lookup"
    /\ \/ /\ Goto(w, IF job[event[w]].status \in Terminal THEN "acknowledge"
                     ELSE IF job[event[w]].status = "none" THEN "quarantine"
                     ELSE "claim")
          /\ UNCHANGED mishaps
       \/ Mishap /\ Goto(w, "quarantine")
    /\ UNCHANGED <<files, store>>

\* acknowledge and deferToLeaseOwner: a file that is not there any more is an
\* error without an event id, so it goes to quarantine.
HandOff(w, step, destination) ==
    /\ pc[w] = step
    /\ \/ MoveFile(event[w], destination) /\ Continue(w, "take")
       \/ place[event[w]] # "processing" /\ UNCHANGED place /\ Goto(w, "quarantine")
    /\ UNCHANGED <<hook, store, mishaps>>

Acknowledge(w) == HandOff(w, "acknowledge", "gone")
Defer(w)       == HandOff(w, "defer", "incoming")

Claimable(j) == j.status = "queued" \/ (j.status = "processing" /\ ~j.leased)

\* ClaimJob; the number of claims is the fencing token.
Claim(w) ==
    /\ pc[w] = "claim"
    /\ \/ /\ Claimable(job[event[w]])
          /\ job' = [job EXCEPT ![event[w]] =
                        [@ EXCEPT !.status = "processing", !.leased = TRUE,
                                  !.attempts = job[event[w]].attempts + 1]]
          /\ pc' = [pc EXCEPT ![w] = "work"]
          /\ token' = [token EXCEPT ![w] = job[event[w]].attempts + 1]
          /\ UNCHANGED <<event, left, whole, mishaps>>
       \/ ~Claimable(job[event[w]]) /\ Goto(w, "defer") /\ UNCHANGED <<job, mishaps>>
       \/ Mishap /\ Goto(w, "quarantine") /\ UNCHANGED job
    /\ UNCHANGED <<files, outcome, ingested>>

-----------------------------------------------------------------------------
(* The fenced end of an event. *)

Owns(w) == job[event[w]].status = "processing" /\ job[event[w]].attempts = token[w]

\* Deviation: the end of a job keeps leased_until.
EndJobKeepsLease(e, status) ==
    /\ job' = [job EXCEPT ![e].status = status]
    /\ outcome' = [outcome EXCEPT ![e] = status]

EndJob(e, status) ==
    /\ job' = [job EXCEPT ![e] = [@ EXCEPT !.status = status, !.leased = FALSE]]
    /\ outcome' = [outcome EXCEPT ![e] = status]

\* Deviation: the commit does not check that the lease is still this worker's.
WorkUnfenced(w) ==
    /\ pc[w] = "work"
    /\ EndJob(event[w], "completed")
    /\ ingested' = [ingested EXCEPT ![event[w]] = @ + 1]
    /\ Goto(w, "remove")
    /\ UNCHANGED <<files, mishaps>>

\* Normalize, then CommitIngestJob (or CompleteJob when the event is excluded).
Work(w) ==
    /\ pc[w] = "work"
    /\ \/ /\ Owns(w)
          /\ EndJob(event[w], "completed")
          /\ ingested' = [ingested EXCEPT ![event[w]] = @ + 1]
          /\ Goto(w, "remove")
          /\ UNCHANGED mishaps
       \/ Goto(w, "fail") /\ UNCHANGED <<store, mishaps>>
    /\ UNCHANGED files

Remove(w) ==
    /\ pc[w] = "remove"
    /\ \/ MoveFile(event[w], "gone") /\ Continue(w, "take")
       \/ place[event[w]] # "processing" /\ UNCHANGED place /\ Goto(w, "fail")
    /\ UNCHANGED <<hook, store, mishaps>>

\* Deviation: RetryJob without the fencing token.
FailJobUnfenced(w) ==
    /\ pc[w] = "fail"
    /\ \/ job[event[w]].status = "processing" /\ EndJob(event[w], "failed") /\ Goto(w, "quarantine")
       \/ job[event[w]].status # "processing" /\ Continue(w, "take") /\ UNCHANGED <<job, outcome>>
    /\ UNCHANGED <<files, ingested, mishaps>>

\* failClaimedEntry: RetryJob, terminal, and then the quarantine unless it fails.
FailJob(w) ==
    /\ pc[w] = "fail"
    /\ \/ Owns(w) /\ EndJob(event[w], "failed") /\ Goto(w, "quarantine") /\ UNCHANGED mishaps
       \/ ~Owns(w) /\ Continue(w, "take") /\ UNCHANGED <<job, outcome, mishaps>>
       \/ Mishap /\ Continue(w, "take") /\ UNCHANGED <<job, outcome>>
    /\ UNCHANGED <<files, ingested>>

Quarantine(w) ==
    /\ pc[w] = "quarantine"
    /\ \/ QuarantineFile(event[w])
       \/ place[event[w]] \notin {"processing", "tempTaken"} /\ UNCHANGED place
    /\ Continue(w, "take")
    /\ UNCHANGED <<hook, store, mishaps>>

-----------------------------------------------------------------------------
(* Time. *)

\* The one-minute lease runs out, whether its worker is dead or slow.
LeaseExpires(e) ==
    /\ job[e].leased
    /\ job[e].attempts < MaxAttempts
    /\ job' = [job EXCEPT ![e].leased = FALSE]
    /\ UNCHANGED <<files, outcome, ingested, memory, mishaps>>

\* No drain lasts as long as the retention (days).
JobAges(e) ==
    /\ Retention
    /\ \A w \in Worker : pc[w] = "idle"
    /\ job[e].status \in Terminal /\ ~job[e].aged
    /\ job' = [job EXCEPT ![e].aged = TRUE]
    /\ UNCHANGED <<files, outcome, ingested, memory, mishaps>>

Drain(w) ==
    \/ StartDrain(w) \/ RecoverOpen(w) \/ RecoverQuarantine(w) \/ Inspect(w)
    \/ RecoverRemove(w) \/ RecoverFail(w) \/ RecoverMove(w) \/ Prune(w)
    \/ List(w) \/ Take(w) \/ FinishDrain(w) \/ Open(w)
    \/ Enqueue(w) \/ Lookup(w) \/ Acknowledge(w) \/ Claim(w) \/ Defer(w)
    \/ Work(w) \/ Remove(w) \/ FailJob(w) \/ Quarantine(w)

Next ==
    \/ \E e \in Event : Capture(e) \/ Publish(e) \/ HookTimesOut(e) \/ LeaseExpires(e) \/ JobAges(e)
    \/ \E w \in Worker : Drain(w) \/ Crash(w)

\* A daemon polls for ever and each of its steps returns; a clock advances.
Fairness ==
    /\ \A w \in Worker : WF_vars(Drain(w))
    /\ \A e \in Event : WF_vars(LeaseExpires(e))

Spec == Init /\ [][Next]_vars /\ Fairness

-----------------------------------------------------------------------------
\* Type invariant; a worker holds a fencing token exactly from its claim to
\* the end of the event.
TypeOK ==
    /\ hook \in [Event -> {"idle", "writing", "published", "lost"}]
    /\ place \in [Event -> Places]
    /\ job \in [Event -> [status : {"none", "queued", "processing"} \cup Terminal,
                          attempts : 0..MaxAttempts + 1, leased : BOOLEAN, aged : BOOLEAN]]
    /\ outcome \in [Event -> {"none"} \cup Terminal]
    /\ ingested \in [Event -> Nat]
    /\ pc \in [Worker -> {"idle"} \cup Scanning \cup Handling]
    /\ event \in [Worker -> Event \cup {None}]
    /\ left \in [Worker -> SUBSET Event]
    /\ whole \in [Worker -> BOOLEAN]
    /\ mishaps \in 0..MaxMishaps
    /\ \A w \in Worker : pc[w] \in {"work", "remove", "fail"} => token[w] > 0
    /\ \A e \in Event : job[e].leased => job[e].status = "processing"

\* An event's file is deleted only after its ingestion was committed or its
\* failure recorded, whatever crashed in between.
GoneOnlyWhenSettled == \A e \in Event : place[e] = "gone" => outcome[e] # "none"

\* No event is ingested twice: the job row outlives the last copy of the file
\* a drain could replay (processor.go:97-103).
IngestedOnce == \A e \in Event : ingested[e] <= 1

\* The file of an event that could not be ingested is kept for diagnosis
\* (README.md:48).
FailedEventKept == \A e \in Event : outcome[e] = "failed" => place[e] # "gone"

\* Until the worker that holds the current lease generation ends its job,
\* nobody else does (store.go:973-977).
LeaseHolderKeepsJob ==
    \A w \in Worker : pc[w] = "work" /\ job[event[w]].attempts = token[w]
                        => job[event[w]].status = "processing"

\* Every published event is ingested, excluded or kept under failed/ in the end.
PublishedEventSettles ==
    \A e \in Event : hook[e] = "published" ~> place[e] \in {"gone", "failed"}
=============================================================================
