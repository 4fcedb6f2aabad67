----------------------------- MODULE SpoolProofs -----------------------------
(***************************************************************************)
(* The safety of SpoolIngest for any number of events and daemons, any     *)
(* scan limit and any number of mishaps: no event's file is deleted before *)
(* the event was settled, and the holder of the current lease keeps its    *)
(* job.  Without retention no event is ingested twice.  One daemon ingests *)
(* none twice with retention either, and keeps every failed event.         *)
(***************************************************************************)
EXTENDS SpoolIngest, FiniteSetTheorems, TLAPS

Jobs == [status : {"none", "queued", "processing"} \cup Terminal,
         attempts : 0..MaxAttempts + 1, leased : BOOLEAN, aged : BOOLEAN]

\* A job waits unclaimed, only an expired lease is claimed again, and only the
\* retention outdates a job that has ended.
FitsJob(j) ==
    /\ j \in Jobs
    /\ j.leased => j.status = "processing"
    /\ j.status \in {"none", "queued"} => j.attempts = 0
    /\ j.status = "processing" /\ ~j.leased => j.attempts < MaxAttempts
    /\ j.aged => j.status \in Terminal /\ Retention

StoreFits ==
    /\ job \in [Event -> Jobs]
    /\ outcome \in [Event -> {"none"} \cup Terminal]
    /\ ingested \in [Event -> Nat]
    /\ \A e \in Event : FitsJob(job[e])

Moments == {"idle"} \cup Scanning \cup Handling

\* The steps at which a worker has an event, and those after its claim.
Held == Moments \ {"idle", "recover", "list", "take"}
Holding == {"work", "remove", "fail"}

FitsStep(step, e, t) ==
    /\ step \in Moments /\ e \in Event \cup {None} /\ t \in Nat
    /\ step \in Held => e \in Event
    /\ step \in Holding => t > 0

MemoryFits ==
    /\ pc \in [Worker -> Moments]
    /\ event \in [Worker -> Event \cup {None}]
    /\ token \in [Worker -> Nat]
    /\ left \in [Worker -> SUBSET Event]
    /\ whole \in [Worker -> BOOLEAN]
    /\ \A w \in Worker : FitsStep(pc[w], event[w], token[w])

FilesFit ==
    /\ hook \in [Event -> {"idle", "writing", "published", "lost"}]
    /\ place \in [Event -> Places]
    /\ mishaps \in 0..MaxMishaps

\* Whoever is about to delete an event's file has seen the event settled.
Deleting == {"recoverRemove", "acknowledge", "remove"}

Settled ==
    /\ \A e \in Event : job[e].status \in Terminal => outcome[e] # "none"
    /\ \A e \in Event : place[e] = "gone" => outcome[e] # "none"
    /\ \A w \in Worker : pc[w] \in Deleting => outcome[event[w]] # "none"

\* The fencing tokens of an event are its past claims, with one holder each;
\* the job of a holder is not pruned, and not ended under the last of them.
Tokens ==
    /\ \A w \in Worker : pc[w] \in Holding =>
          token[w] \in 1..job[event[w]].attempts /\ ~job[event[w]].aged
    /\ \A v, w \in Worker :
          pc[v] \in Holding /\ pc[w] \in Holding /\ event[v] = event[w] /\ token[v] = token[w]
             => v = w
    /\ \A w \in Worker : pc[w] = "work" /\ job[event[w]].attempts = token[w]
                            => job[event[w]].status = "processing"

SpoolInv == StoreFits /\ MemoryFits /\ FilesFit /\ Settled /\ Tokens

\* Without retention an ingested event's job stays completed.
Once == \A e \in Event : ingested[e] = 0 \/ (ingested[e] = 1 /\ job[e].status = "completed")

-----------------------------------------------------------------------------
(* The jobs table. *)

\* The job of an event becomes j, which outdates nothing it did not.
Becomes(e, j) == FitsJob(j) /\ job' = [job EXCEPT ![e] = j]

\* A job that becomes another one that fits leaves the table fitting, the rest as it was.
LEMMA BecomesFit ==
    ASSUME StoreFits, NEW e \in Event, NEW j, Becomes(e, j)
    PROVE  /\ job' \in [Event -> Jobs] /\ \A d \in Event : FitsJob(job'[d])
           /\ job'[e] = j /\ \A d \in Event : d # e => job'[d] = job[d]
<1>1. j \in Jobs
  BY DEF Becomes, FitsJob
<1>2. job'[e] = j /\ \A d \in Event : d # e => job'[d] = job[d]
  BY DEF Becomes, StoreFits
<1>3. job' \in [Event -> Jobs]
  BY <1>1 DEF Becomes, StoreFits
<1> QED
  BY <1>2, <1>3 DEF Becomes, StoreFits

\* The row an unknown event stands for.
LEMMA NoJobFits ==
    /\ FitsJob(NoJob)
    /\ NoJob.status = "none" /\ NoJob.attempts = 0 /\ NoJob.leased = FALSE /\ NoJob.aged = FALSE
  BY SpoolAssumption DEF FitsJob, NoJob, Jobs, Terminal

\* The clock ends a lease and nothing else of the job.
LEMMA LeaseExpiresJob ==
    ASSUME StoreFits, NEW e \in Event, LeaseExpires(e)
    PROVE  \E j : /\ Becomes(e, j) /\ j.status = job[e].status
                  /\ j.attempts = job[e].attempts /\ j.aged = job[e].aged
<1> DEFINE j == [job[e] EXCEPT !.leased = FALSE]
<1>1. job[e] \in Jobs /\ FitsJob(job[e]) /\ job[e].leased /\ job[e].attempts < MaxAttempts
  BY DEF StoreFits, LeaseExpires
<1>2. /\ j \in Jobs /\ j.status = job[e].status /\ j.attempts = job[e].attempts
      /\ j.aged = job[e].aged /\ j.leased = FALSE
  BY <1>1 DEF Jobs
<1>3. job' = [job EXCEPT ![e] = j]
  BY DEF LeaseExpires
<1> HIDE DEF j
<1> QED
  BY <1>1, <1>2, <1>3 DEF Becomes, FitsJob

\* The clock outdates a job that has ended.
LEMMA JobAgesJob ==
    ASSUME StoreFits, NEW e \in Event, JobAges(e)
    PROVE  \E j : Becomes(e, j) /\ j.status = job[e].status /\ j.attempts = job[e].attempts
<1> DEFINE j == [job[e] EXCEPT !.aged = TRUE]
<1>1. job[e] \in Jobs /\ FitsJob(job[e]) /\ job[e].status \in Terminal /\ Retention
  BY DEF StoreFits, JobAges
<1>2. /\ j \in Jobs /\ j.status = job[e].status /\ j.attempts = job[e].attempts
      /\ j.leased = job[e].leased
  BY <1>1 DEF Jobs
<1>3. job' = [job EXCEPT ![e] = j]
  BY DEF JobAges
<1> HIDE DEF j
<1> QED
  BY <1>1, <1>2, <1>3 DEF Becomes, FitsJob, Terminal

\* EnqueueJob inserts a job where there is none, unclaimed.
LEMMA EnqueueJob ==
    ASSUME StoreFits, NEW w \in Worker, event[w] \in Event, Enqueue(w)
    PROVE  \/ UNCHANGED job
           \/ \E j : /\ Becomes(event[w], j) /\ j.status = "queued" /\ j.attempts = 0
                     /\ j.aged = FALSE /\ job[event[w]].status = "none"
<1> DEFINE j == [NoJob EXCEPT !.status = "queued"]
<1>1. FitsJob(j) /\ j.status = "queued" /\ j.attempts = 0 /\ j.aged = FALSE
  BY NoJobFits DEF FitsJob, Jobs, Terminal
<1> HIDE DEF j
<1>2. ASSUME job' = [job EXCEPT ![event[w]] = j], job[event[w]].status = "none"
      PROVE  \E i : /\ Becomes(event[w], i) /\ i.status = "queued" /\ i.attempts = 0
                    /\ i.aged = FALSE /\ job[event[w]].status = "none"
  BY <1>1, <1>2 DEF Becomes
<1> QED
  BY <1>2 DEF j, Enqueue

\* A claim takes a waiting job or an expired one and counts itself.
LEMMA ClaimJob ==
    ASSUME StoreFits, NEW w \in Worker, event[w] \in Event, Claim(w)
    PROVE  \/ UNCHANGED job /\ pc' = [pc EXCEPT ![w] = "defer"] /\ UNCHANGED <<event, token>>
           \/ UNCHANGED job /\ pc' = [pc EXCEPT ![w] = "quarantine"] /\ UNCHANGED <<event, token>>
           \/ /\ \E j : /\ Becomes(event[w], j) /\ j.status = "processing"
                        /\ j.attempts = job[event[w]].attempts + 1 /\ j.aged = job[event[w]].aged
              /\ job[event[w]].status \in {"queued", "processing"}
              /\ pc' = [pc EXCEPT ![w] = "work"] /\ UNCHANGED event
              /\ token' = [token EXCEPT ![w] = job[event[w]].attempts + 1]
<1> DEFINE old == job[event[w]]
           j == [old EXCEPT !.status = "processing", !.leased = TRUE, !.attempts = @ + 1]
<1>1. old \in Jobs /\ FitsJob(old)
  BY DEF StoreFits
<1>2. ASSUME Claimable(old)
      PROVE  /\ FitsJob(j) /\ j.status = "processing" /\ j.attempts = old.attempts + 1
             /\ j.aged = old.aged /\ old.status \in {"queued", "processing"}
  <2>1. old.status = "queued" \/ (old.status = "processing" /\ ~old.leased)
    BY <1>2 DEF Claimable
  <2>2. old.attempts + 1 \in 0..MaxAttempts + 1 /\ ~old.aged
    BY <1>1, <2>1, SpoolAssumption DEF FitsJob, Terminal, Jobs
  <2>3. /\ j \in Jobs /\ j.status = "processing" /\ j.leased = TRUE
        /\ j.attempts = old.attempts + 1 /\ j.aged = old.aged
    BY <1>1, <2>2 DEF Jobs
  <2> HIDE DEF j
  <2> QED
    BY <2>1, <2>2, <2>3 DEF FitsJob
<1>3. CASE /\ Claimable(old) /\ job' = [job EXCEPT ![event[w]] = j]
           /\ pc' = [pc EXCEPT ![w] = "work"] /\ UNCHANGED event
           /\ token' = [token EXCEPT ![w] = old.attempts + 1]
  <2> HIDE DEF j
  <2> QED
    BY <1>2, <1>3 DEF Becomes
<1>4. CASE Goto(w, "defer") /\ UNCHANGED job
  BY <1>4 DEF Goto
<1>5. CASE Goto(w, "quarantine") /\ UNCHANGED job
  BY <1>5 DEF Goto
<1> QED
  BY <1>3, <1>4, <1>5 DEF Claim

\* The end of a job is the holder's of the current token.
LEMMA EndJobJob ==
    ASSUME StoreFits, NEW w \in Worker, event[w] \in Event, Owns(w),
           NEW status \in Terminal, EndJob(event[w], status)
    PROVE  /\ \E j : /\ Becomes(event[w], j) /\ j.status = status
                     /\ j.attempts = job[event[w]].attempts /\ j.aged = FALSE
           /\ outcome' = [outcome EXCEPT ![event[w]] = status]
           /\ job[event[w]].status = "processing" /\ job[event[w]].attempts = token[w]
<1> DEFINE old == job[event[w]]
           j == [old EXCEPT !.status = status, !.leased = FALSE]
<1>1. old \in Jobs /\ FitsJob(old) /\ old.status = "processing" /\ old.attempts = token[w]
  BY DEF StoreFits, Owns
<1>2. /\ j \in Jobs /\ j.status = status /\ j.leased = FALSE
      /\ j.attempts = old.attempts /\ j.aged = old.aged
  BY <1>1 DEF Jobs
<1>3. old.aged = FALSE
  BY <1>1 DEF FitsJob, Terminal, Jobs
<1>4. job' = [job EXCEPT ![event[w]] = j] /\ outcome' = [outcome EXCEPT ![event[w]] = status]
  BY DEF EndJob
<1> HIDE DEF j
<1>5. FitsJob(j)
  BY <1>2, <1>3 DEF FitsJob, Terminal
<1> QED
  BY <1>1, <1>2, <1>3, <1>4, <1>5 DEF Becomes

\* The job that has ended, in short.
LEMMA EndedJob ==
    ASSUME StoreFits, NEW w \in Worker, event[w] \in Event, Owns(w),
           NEW status \in Terminal, EndJob(event[w], status)
    PROVE  \E j : Becomes(event[w], j) /\ j.status = status
<1>1. \E j : /\ Becomes(event[w], j) /\ j.status = status
             /\ j.attempts = job[event[w]].attempts /\ j.aged = FALSE
  BY EndJobJob, Zenon
<1> QED
  BY ONLY <1>1

\* Retention takes the outdated jobs, whole or not at all.
LEMMA PruneJobs ==
    ASSUME StoreFits, NEW w \in Worker, Prune(w)
    PROVE  /\ job' \in [Event -> Jobs] /\ \A e \in Event : FitsJob(job'[e])
           /\ \A e \in Event : job'[e] = job[e] \/ (job[e].aged /\ job'[e] = NoJob)
<1>1. /\ job' = [e \in Event |-> IF whole[w] /\ e \in Tombstones THEN NoJob ELSE job[e]]
      /\ \A e \in Tombstones : job[e].aged
  BY DEF Prune, Tombstones
<1>2. NoJob \in Jobs
  BY NoJobFits DEF FitsJob
<1> QED
  BY <1>1, <1>2, NoJobFits DEF StoreFits

-----------------------------------------------------------------------------
(* The memory of a worker. *)

Moves(w, step, e, t) ==
    /\ FitsStep(step, e, t)
    /\ pc' = [pc EXCEPT ![w] = step]
    /\ event' = [event EXCEPT ![w] = e]
    /\ token' = [token EXCEPT ![w] = t]

\* A worker's move leaves every worker's memory fitting, the others' as it was.
LEMMA MovesFit ==
    ASSUME MemoryFits, NEW w \in Worker, NEW step, NEW e, NEW t, Moves(w, step, e, t)
    PROVE  /\ pc' \in [Worker -> Moments] /\ event' \in [Worker -> Event \cup {None}]
           /\ token' \in [Worker -> Nat]
           /\ \A v \in Worker : FitsStep(pc'[v], event'[v], token'[v])
           /\ pc'[w] = step /\ event'[w] = e /\ token'[w] = t
           /\ \A v \in Worker : v # w =>
                 pc'[v] = pc[v] /\ event'[v] = event[v] /\ token'[v] = token[v]
<1>1. step \in Moments /\ e \in Event \cup {None} /\ t \in Nat
  BY DEF Moves, FitsStep
<1>2. /\ pc' \in [Worker -> Moments] /\ event' \in [Worker -> Event \cup {None}]
      /\ token' \in [Worker -> Nat]
      /\ pc'[w] = step /\ event'[w] = e /\ token'[w] = t
      /\ \A v \in Worker : v # w =>
            pc'[v] = pc[v] /\ event'[v] = event[v] /\ token'[v] = token[v]
  BY <1>1 DEF Moves, MemoryFits
<1> QED
  BY <1>2 DEF Moves, MemoryFits

\* A worker goes on with the same event.
LEMMA GotoMoves ==
    ASSUME MemoryFits, NEW w \in Worker, NEW step \in Moments, pc[w] \in Held, Goto(w, step),
           step \in Holding => token[w] > 0
    PROVE  Moves(w, step, event[w], token[w])
<1>1. event[w] \in Event /\ token[w] \in Nat
  BY DEF MemoryFits, FitsStep
<1>2. event' = [event EXCEPT ![w] = event[w]] /\ token' = [token EXCEPT ![w] = token[w]]
  BY DEF Goto, MemoryFits
<1> QED
  BY <1>1, <1>2 DEF Moves, Goto, FitsStep

\* A worker goes back to its scan and drops the event.
LEMMA ContinueMoves ==
    ASSUME NEW w \in Worker, NEW step \in {"recover", "take"}, Continue(w, step)
    PROVE  Moves(w, step, None, 0)
  BY DEF Continue, Moves, FitsStep, Moments, Held, Holding, Scanning, Handling

\* A worker stops and forgets everything.
LEMMA StopMoves ==
    ASSUME NEW w \in Worker, Stop(w)
    PROVE  Moves(w, "idle", None, 0)
  BY DEF Stop, Moves, FitsStep, Moments, Held, Holding, Scanning, Handling

\* Every step of a worker moves its memory; it comes to hold a job by a claim
\* only, and goes on holding it until its end.
Enters(w, step, e, t) ==
    \/ step \notin Holding
    \/ pc[w] \in Holding /\ step \in {"remove", "fail"} /\ e = event[w] /\ t = token[w]
    \/ Claim(w) /\ step = "work" /\ e = event[w] /\ t = job[event[w]].attempts + 1

LEMMA WorkerMoves ==
    ASSUME MemoryFits, StoreFits, NEW w \in Worker, Drain(w) \/ Crash(w)
    PROVE  \E step, e, t : /\ Moves(w, step, e, t)
                           /\ Enters(w, step, e, t)
                           /\ step \in Deleting => Inspect(w) \/ Lookup(w) \/ Work(w)
<1> DEFINE Q == \E step, e, t : /\ Moves(w, step, e, t)
                                /\ Enters(w, step, e, t)
                                /\ step \in Deleting => Inspect(w) \/ Lookup(w) \/ Work(w)
<1> USE DEF Held, Holding, Moments, Scanning, Handling, Enters, Deleting
<1>1. ASSUME NEW step \in {"recover", "take"}, Continue(w, step) PROVE Q
  BY <1>1, ContinueMoves
<1>2. CASE Stop(w)
  BY <1>2, StopMoves
<1>3. ASSUME NEW step \in {"recoverRemove", "recoverFail", "recoverMove", "enqueue",
                            "quarantine", "lookup", "acknowledge", "claim", "defer"},
             pc[w] \in Held, Goto(w, step),
             step \in Deleting => Inspect(w) \/ Lookup(w)
      PROVE  Q
  BY <1>3, GotoMoves
<1>4. ASSUME NEW step \in {"remove", "fail"}, pc[w] \in {"work", "remove"}, Goto(w, step),
             step = "remove" => Work(w)
      PROVE  Q
  <2>1. token[w] > 0
    BY <1>4 DEF MemoryFits, FitsStep
  <2> QED
    BY <1>4, <2>1, GotoMoves
<1>5. CASE StartDrain(w)
  <2>1. Moves(w, "recover", event[w], token[w])
    BY <1>5 DEF StartDrain, Moves, FitsStep, MemoryFits
  <2> QED
    BY <2>1
<1>6. CASE RecoverOpen(w)
  <2>1. PICK d \in left[w] :
           /\ event' = [event EXCEPT ![w] = d]
           /\ pc' = [pc EXCEPT ![w] = IF place[d] = "processing" THEN "inspect"
                                      ELSE "recoverQuarantine"]
    BY <1>6 DEF RecoverOpen
  <2> DEFINE step == IF place[d] = "processing" THEN "inspect" ELSE "recoverQuarantine"
  <2>2. d \in Event /\ token' = [token EXCEPT ![w] = token[w]] /\ token[w] \in Nat
    BY <1>6 DEF RecoverOpen, MemoryFits
  <2>3. Moves(w, step, d, token[w])
    BY <2>1, <2>2 DEF Moves, FitsStep
  <2> QED
    BY <2>3
<1>7. CASE Prune(w)
  <2>1. Moves(w, "list", event[w], token[w])
    BY <1>7 DEF Prune, Goto, Moves, FitsStep, MemoryFits
  <2> QED
    BY <2>1
<1>8. CASE List(w)
  <2>1. Moves(w, "take", event[w], token[w])
    BY <1>8 DEF List, Moves, FitsStep, MemoryFits
  <2> QED
    BY <2>1
<1>9. CASE Take(w)
  <2>1. PICK d \in left[w] :
           \/ pc' = [pc EXCEPT ![w] = "open"] /\ event' = [event EXCEPT ![w] = d]
           \/ UNCHANGED <<pc, event>>
    BY <1>9 DEF Take
  <2>2. /\ d \in Event /\ pc[w] = "take" /\ token[w] \in Nat
        /\ token' = [token EXCEPT ![w] = token[w]]
    BY <1>9 DEF Take, MemoryFits
  <2>3. CASE pc' = [pc EXCEPT ![w] = "open"] /\ event' = [event EXCEPT ![w] = d]
    <3>1. Moves(w, "open", d, token[w])
      BY <2>2, <2>3 DEF Moves, FitsStep
    <3> QED
      BY <3>1
  <2>4. CASE UNCHANGED <<pc, event>>
    <3>1. Moves(w, "take", event[w], token[w])
      BY <2>2, <2>4 DEF Moves, FitsStep, MemoryFits
    <3> QED
      BY <3>1
  <2> QED
    BY <2>1, <2>3, <2>4
<1>10. CASE Claim(w)
  <2>1. event[w] \in Event /\ token[w] \in Nat /\ job[event[w]].attempts \in Nat
    BY <1>10, SpoolAssumption DEF Claim, MemoryFits, FitsStep, StoreFits, Jobs
  <2>2. CASE Goto(w, "defer") \/ Goto(w, "quarantine")
    BY <1>3, <1>10, <2>2 DEF Claim
  <2>3. CASE /\ pc' = [pc EXCEPT ![w] = "work"] /\ UNCHANGED event
             /\ token' = [token EXCEPT ![w] = job[event[w]].attempts + 1]
    <3>1. Moves(w, "work", event[w], job[event[w]].attempts + 1)
      BY <2>1, <2>3 DEF Moves, FitsStep, MemoryFits
    <3> QED
      BY <1>10, <3>1
  <2> QED
    BY <1>10, <2>2, <2>3 DEF Claim
<1>11. CASE RecoverQuarantine(w)
  BY <1>1, <1>2, <1>11 DEF RecoverQuarantine
<1>12. CASE Inspect(w)
  BY <1>1, <1>2, <1>3, <1>12 DEF Inspect
<1>13. CASE RecoverRemove(w) \/ RecoverFail(w) \/ RecoverMove(w)
  BY <1>1, <1>2, <1>13 DEF RecoverRemove, RecoverFail, RecoverMove, RecoverTo
<1>14. CASE FinishDrain(w) \/ Crash(w)
  BY <1>2, <1>14 DEF FinishDrain, Crash
<1>15. CASE Open(w)
  BY <1>3, <1>15 DEF Open
<1>16. CASE Enqueue(w)
  BY <1>3, <1>16 DEF Enqueue
<1>17. CASE Lookup(w)
  BY <1>3, <1>17 DEF Lookup
<1>18. CASE Acknowledge(w) \/ Defer(w)
  BY <1>1, <1>3, <1>18 DEF Acknowledge, Defer, HandOff
<1>19. CASE Work(w)
  BY <1>4, <1>19 DEF Work
<1>20. CASE Remove(w)
  BY <1>1, <1>4, <1>20 DEF Remove
<1>21. CASE FailJob(w)
  BY <1>1, <1>3, <1>21 DEF FailJob
<1>22. CASE Quarantine(w)
  BY <1>1, <1>22 DEF Quarantine
<1> QED
  BY <1>5, <1>6, <1>7, <1>8, <1>9, <1>10, <1>11, <1>12, <1>13, <1>14, <1>15, <1>16, <1>17,
     <1>18, <1>19, <1>20, <1>21, <1>22 DEF Drain

-----------------------------------------------------------------------------
(* The invariant. *)

\* The steps that change the store, and those that change a memory.
LEMMA StoreChanges ==
    ASSUME [Next]_vars
    PROVE  \/ UNCHANGED store
           \/ \E e \in Event : LeaseExpires(e) \/ JobAges(e)
           \/ \E w \in Worker : Prune(w) \/ Enqueue(w) \/ Claim(w) \/ Work(w) \/ FailJob(w)
<1>1. ASSUME NEW e \in Event, Capture(e) \/ Publish(e) \/ HookTimesOut(e) PROVE UNCHANGED store
  BY <1>1 DEF Capture, Publish, HookTimesOut
<1>2. ASSUME NEW w \in Worker,
             \/ StartDrain(w) \/ RecoverOpen(w) \/ RecoverQuarantine(w) \/ Inspect(w)
             \/ RecoverRemove(w) \/ RecoverFail(w) \/ RecoverMove(w) \/ List(w) \/ Take(w)
             \/ FinishDrain(w) \/ Open(w) \/ Lookup(w) \/ Acknowledge(w) \/ Defer(w)
             \/ Remove(w) \/ Quarantine(w) \/ Crash(w)
      PROVE  UNCHANGED store
  BY <1>2 DEF StartDrain, RecoverOpen, RecoverQuarantine, Inspect, RecoverRemove, RecoverFail,
              RecoverMove, RecoverTo, List, Take, FinishDrain, Open, Lookup, Acknowledge, Defer,
              HandOff, Remove, Quarantine, Crash, store
<1>3. CASE UNCHANGED vars
  BY <1>3 DEF vars
<1> QED
  BY <1>1, <1>2, <1>3 DEF Next, Drain

\* A step of a hook or of the clock leaves the workers' memories.
LEMMA MemoryChanges ==
    ASSUME [Next]_vars
    PROVE  UNCHANGED memory \/ \E w \in Worker : Drain(w) \/ Crash(w)
  BY DEF Next, Capture, Publish, HookTimesOut, LeaseExpires, JobAges, vars

\* A worker that works on the store has an event.
LEMMA WorkerEvent ==
    ASSUME MemoryFits, NEW w \in Worker, pc[w] \in Held
    PROVE  event[w] \in Event
  BY DEF MemoryFits, FitsStep

\* Every step leaves the jobs table fitting.
LEMMA StepStore == StoreFits /\ MemoryFits /\ [Next]_vars => StoreFits'
<1> SUFFICES ASSUME StoreFits, MemoryFits, [Next]_vars
             PROVE  StoreFits'
  OBVIOUS
<1>1. CASE UNCHANGED store
  BY <1>1 DEF StoreFits, store
<1>2. ASSUME NEW e \in Event, LeaseExpires(e) PROVE StoreFits'
  BY <1>2, LeaseExpiresJob, BecomesFit DEF LeaseExpires, StoreFits
<1>3. ASSUME NEW e \in Event, JobAges(e) PROVE StoreFits'
  BY <1>3, JobAgesJob, BecomesFit DEF JobAges, StoreFits
<1>4. ASSUME NEW w \in Worker, Prune(w) PROVE StoreFits'
  BY <1>4, PruneJobs DEF Prune, StoreFits
<1>5. ASSUME NEW w \in Worker, Enqueue(w) PROVE StoreFits'
  <2>1. event[w] \in Event /\ UNCHANGED <<outcome, ingested>>
    BY <1>5, WorkerEvent DEF Enqueue, Held, Moments, Handling
  <2> QED
    BY <1>5, <2>1, EnqueueJob, BecomesFit DEF StoreFits
<1>6. ASSUME NEW w \in Worker, Claim(w) PROVE StoreFits'
  <2>1. event[w] \in Event /\ UNCHANGED <<outcome, ingested>>
    BY <1>6, WorkerEvent DEF Claim, Held, Moments, Handling
  <2> QED
    BY <1>6, <2>1, ClaimJob, BecomesFit DEF StoreFits
<1>7. ASSUME NEW w \in Worker, Work(w) \/ FailJob(w) PROVE StoreFits'
  <2>1. event[w] \in Event
    BY <1>7, WorkerEvent DEF Work, FailJob, Held, Moments, Handling
  <2>2. CASE UNCHANGED store
    BY <2>2 DEF StoreFits, store
  <2>3. ASSUME NEW status \in Terminal, Owns(w), EndJob(event[w], status)
        PROVE  /\ job' \in [Event -> Jobs] /\ \A d \in Event : FitsJob(job'[d])
               /\ outcome' \in [Event -> {"none"} \cup Terminal]
    <3>1. PICK j : Becomes(event[w], j)
      BY <2>1, <2>3, EndedJob
    <3>2. outcome' = [outcome EXCEPT ![event[w]] = status]
      BY <2>3 DEF EndJob
    <3> QED
      BY <2>1, <3>1, <3>2, BecomesFit DEF StoreFits
  <2>4. ingested' \in [Event -> Nat]
    BY <1>7, <2>1 DEF Work, FailJob, store, StoreFits
  <2> QED
    BY <1>7, <2>2, <2>3, <2>4 DEF Work, FailJob, store, Terminal, StoreFits
<1> QED
  BY <1>1, <1>2, <1>3, <1>4, <1>5, <1>6, <1>7, StoreChanges

\* What a walk examines of the events.
LEMMA WalkFits ==
    ASSUME NEW entries \in SUBSET Event, NEW walk \in Walks(entries)
    PROVE  walk \in SUBSET Event
  BY DEF Walks, kSubset

\* Every step leaves the workers' memories fitting.
LEMMA StepMemory == StoreFits /\ MemoryFits /\ [Next]_vars => MemoryFits'
<1> SUFFICES ASSUME StoreFits, MemoryFits, [Next]_vars
             PROVE  MemoryFits'
  OBVIOUS
<1>1. CASE UNCHANGED memory
  BY <1>1 DEF MemoryFits, memory
<1>2. ASSUME NEW w \in Worker, Drain(w) \/ Crash(w) PROVE MemoryFits'
  <2>1. left' \in [Worker -> SUBSET Event] /\ whole' \in [Worker -> BOOLEAN]
    <3>1. CASE UNCHANGED <<left, whole>> \/ Stop(w)
      BY <3>1 DEF MemoryFits, Stop
    <3>2. CASE StartDrain(w) \/ List(w)
      <4>1. \E walk \in SUBSET Event : left' = [left EXCEPT ![w] = walk]
        <5>1. CASE StartDrain(w)
          <6> DEFINE entries == {e \in Event : place[e] \in {"processing", "tempTaken"}}
          <6>1. PICK walk \in Walks(entries) : left' = [left EXCEPT ![w] = walk]
            BY <5>1 DEF StartDrain
          <6>2. entries \in SUBSET Event
            OBVIOUS
          <6> HIDE DEF entries
          <6> QED
            BY <6>1, <6>2, WalkFits
        <5>2. CASE List(w)
          <6> DEFINE entries == {e \in Event : place[e] \in {"incoming", "temporary"}}
          <6>1. PICK walk \in Walks(entries) : left' = [left EXCEPT ![w] = walk]
            BY <5>2 DEF List
          <6>2. entries \in SUBSET Event
            OBVIOUS
          <6> HIDE DEF entries
          <6> QED
            BY <6>1, <6>2, WalkFits
        <5> QED
          BY <3>2, <5>1, <5>2
      <4>2. UNCHANGED whole \/ \E full \in BOOLEAN : whole' = [whole EXCEPT ![w] = full]
        <5>1. CASE StartDrain(w)
          <6> DEFINE full == Cardinality({e \in Event : place[e] \in {"processing", "tempTaken"}})
                                < Limit
          <6>1. whole' = [whole EXCEPT ![w] = full]
            BY <5>1 DEF StartDrain
          <6>2. full \in BOOLEAN
            OBVIOUS
          <6> HIDE DEF full
          <6> QED
            BY <6>1, <6>2
        <5>2. CASE List(w)
          BY <5>2 DEF List
        <5> QED
          BY <3>2, <5>1, <5>2
      <4> QED
        BY <4>1, <4>2 DEF MemoryFits
    <3>3. CASE RecoverOpen(w) \/ Take(w)
      BY <3>3 DEF MemoryFits, RecoverOpen, Take
    <3> QED
      BY <1>2, <3>1, <3>2, <3>3
         DEF Drain, Crash, RecoverQuarantine, Inspect, RecoverRemove, RecoverFail, RecoverMove,
             RecoverTo, Prune, FinishDrain, Open, Enqueue, Lookup, Acknowledge, Defer, HandOff,
             Claim, Work, Remove, FailJob, Quarantine, Goto, Continue
  <2> QED
    BY <1>2, <2>1, WorkerMoves, MovesFit DEF MemoryFits
<1> QED
  BY <1>1, <1>2, MemoryChanges

\* Files move between the places, and mishaps are counted up to their bound.
LEMMA StepFiles == FilesFit /\ [Next]_vars => FilesFit'
<1> SUFFICES ASSUME FilesFit, [Next]_vars
             PROVE  FilesFit'
  OBVIOUS
<1> USE SpoolAssumption DEF FilesFit, Places, files, Mishap, MoveFile, QuarantineFile
<1>1. ASSUME NEW e \in Event, Capture(e) \/ Publish(e) \/ HookTimesOut(e) PROVE FilesFit'
  BY <1>1 DEF Capture, Publish, HookTimesOut
<1>2. ASSUME NEW e \in Event, LeaseExpires(e) \/ JobAges(e) PROVE FilesFit'
  BY <1>2 DEF LeaseExpires, JobAges
<1>3. ASSUME NEW w \in Worker,
             RecoverRemove(w) \/ RecoverFail(w) \/ RecoverMove(w) \/ RecoverQuarantine(w)
      PROVE  FilesFit'
  BY <1>3 DEF RecoverRemove, RecoverFail, RecoverMove, RecoverTo, RecoverQuarantine
<1>4. ASSUME NEW w \in Worker, Acknowledge(w) \/ Defer(w) \/ Remove(w) \/ Quarantine(w)
      PROVE  FilesFit'
  BY <1>4 DEF Acknowledge, Defer, HandOff, Remove, Quarantine
<1>5. ASSUME NEW w \in Worker, Take(w) PROVE FilesFit'
  BY <1>5 DEF Take
<1>6. ASSUME NEW w \in Worker,
             \/ StartDrain(w) \/ RecoverOpen(w) \/ Inspect(w) \/ Prune(w) \/ List(w)
             \/ FinishDrain(w) \/ Open(w) \/ Enqueue(w) \/ Lookup(w) \/ Claim(w)
             \/ Work(w) \/ FailJob(w) \/ Crash(w)
      PROVE  FilesFit'
  BY <1>6 DEF StartDrain, RecoverOpen, Inspect, Prune, List, FinishDrain, Open, Enqueue, Lookup,
              Claim, Work, FailJob, Crash
<1>7. CASE UNCHANGED vars
  BY <1>7 DEF vars
<1> QED
  BY <1>1, <1>2, <1>3, <1>4, <1>5, <1>6, <1>7 DEF Next, Drain

-----------------------------------------------------------------------------
(* No file goes before its event is settled. *)

\* How the store follows the end of an event.
LEMMA Outcomes ==
    ASSUME StoreFits, MemoryFits, [Next]_vars, NEW e \in Event
    PROVE  /\ outcome[e] # "none" => outcome'[e] # "none"
           /\ job'[e].status \in Terminal /\ job[e].status \notin Terminal
                => outcome'[e] # "none"
<1> DEFINE Q == /\ outcome[e] # "none" => outcome'[e] # "none"
                /\ job'[e].status \in Terminal /\ job[e].status \notin Terminal
                     => outcome'[e] # "none"
<1>1. CASE UNCHANGED store
  BY <1>1 DEF store
<1>2. ASSUME NEW d \in Event, LeaseExpires(d) PROVE Q
  <2>1. PICK j : Becomes(d, j) /\ j.status = job[d].status
    BY <1>2, LeaseExpiresJob
  <2> QED
    BY <1>2, <2>1, BecomesFit DEF LeaseExpires
<1>3. ASSUME NEW d \in Event, JobAges(d) PROVE Q
  <2>1. PICK j : Becomes(d, j) /\ j.status = job[d].status
    BY <1>3, JobAgesJob
  <2> QED
    BY <1>3, <2>1, BecomesFit DEF JobAges
<1>4. ASSUME NEW w \in Worker, Prune(w) PROVE Q
  BY <1>4, PruneJobs, NoJobFits DEF Prune, Terminal
<1>5. ASSUME NEW w \in Worker, Enqueue(w) PROVE Q
  <2>1. event[w] \in Event /\ UNCHANGED outcome
    BY <1>5, WorkerEvent DEF Enqueue, Held, Moments, Handling
  <2>2. CASE UNCHANGED job
    BY <2>1, <2>2
  <2>3. ASSUME NEW j, Becomes(event[w], j), j.status = "queued" PROVE Q
    BY <2>1, <2>3, BecomesFit DEF Terminal
  <2> QED
    BY <1>5, <2>1, <2>2, <2>3, EnqueueJob
<1>6. ASSUME NEW w \in Worker, Claim(w) PROVE Q
  <2>1. event[w] \in Event /\ UNCHANGED outcome
    BY <1>6, WorkerEvent DEF Claim, Held, Moments, Handling
  <2>2. CASE UNCHANGED job
    BY <2>1, <2>2
  <2>3. ASSUME NEW j, Becomes(event[w], j), j.status = "processing" PROVE Q
    BY <2>1, <2>3, BecomesFit DEF Terminal
  <2> QED
    BY <1>6, <2>1, <2>2, <2>3, ClaimJob
<1>7. ASSUME NEW w \in Worker, Work(w) \/ FailJob(w) PROVE Q
  <2>1. event[w] \in Event
    BY <1>7, WorkerEvent DEF Work, FailJob, Held, Moments, Handling
  <2>2. CASE UNCHANGED <<job, outcome>>
    BY <2>2
  <2>3. ASSUME NEW status \in Terminal, Owns(w), EndJob(event[w], status) PROVE Q
    <3>1. PICK j : Becomes(event[w], j)
      BY <2>1, <2>3, EndedJob
    <3>2. outcome' = [outcome EXCEPT ![event[w]] = status] /\ status # "none"
      BY <2>3 DEF EndJob, Terminal
    <3> QED
      BY <2>1, <3>1, <3>2, BecomesFit DEF StoreFits
  <2> QED
    BY <1>7, <2>2, <2>3 DEF Work, FailJob, store, Terminal
<1> QED
  BY <1>1, <1>2, <1>3, <1>4, <1>5, <1>6, <1>7, StoreChanges

\* A file is deleted by a worker that is at one of the deleting steps.
LEMMA Deletes ==
    ASSUME FilesFit, [Next]_vars, NEW e \in Event, place'[e] = "gone", place[e] # "gone"
    PROVE  \E w \in Worker : pc[w] \in Deleting /\ event[w] = e
<1> USE DEF FilesFit, Deleting, files, MoveFile, QuarantineFile
<1>1. ASSUME NEW d \in Event,
             \/ Capture(d) \/ Publish(d) \/ HookTimesOut(d) \/ LeaseExpires(d) \/ JobAges(d)
      PROVE  FALSE
  BY <1>1 DEF Capture, Publish, HookTimesOut, LeaseExpires, JobAges
<1>2. ASSUME NEW w \in Worker, RecoverRemove(w) \/ Acknowledge(w) \/ Remove(w)
      PROVE  pc[w] \in Deleting /\ event[w] = e
  BY <1>2 DEF RecoverRemove, RecoverTo, Acknowledge, HandOff, Remove
<1>3. ASSUME NEW w \in Worker,
             \/ RecoverFail(w) \/ RecoverMove(w) \/ RecoverQuarantine(w) \/ Defer(w)
             \/ Quarantine(w) \/ Take(w)
      PROVE  FALSE
  BY <1>3 DEF RecoverFail, RecoverMove, RecoverTo, RecoverQuarantine, Defer, HandOff,
              Quarantine, Take
<1>4. ASSUME NEW w \in Worker,
             \/ StartDrain(w) \/ RecoverOpen(w) \/ Inspect(w) \/ Prune(w) \/ List(w)
             \/ FinishDrain(w) \/ Open(w) \/ Enqueue(w) \/ Lookup(w) \/ Claim(w)
             \/ Work(w) \/ FailJob(w) \/ Crash(w)
      PROVE  FALSE
  BY <1>4 DEF StartDrain, RecoverOpen, Inspect, Prune, List, FinishDrain, Open, Enqueue, Lookup,
              Claim, Work, FailJob, Crash
<1>5. CASE UNCHANGED vars
  BY <1>5 DEF vars
<1> QED
  BY <1>1, <1>2, <1>3, <1>4, <1>5 DEF Next, Drain

\* Every step keeps the record of how a deleted event ended.
LEMMA StepSettled ==
    StoreFits /\ MemoryFits /\ FilesFit /\ Settled /\ [Next]_vars => Settled'
<1> SUFFICES ASSUME StoreFits, MemoryFits, FilesFit, Settled, [Next]_vars
             PROVE  Settled'
  OBVIOUS
<1>1. ASSUME NEW e \in Event, job'[e].status \in Terminal PROVE outcome'[e] # "none"
  BY <1>1, Outcomes DEF Settled
<1>2. ASSUME NEW w \in Worker, pc[w] \in Deleting
      PROVE  event[w] \in Event /\ outcome[event[w]] # "none"
  BY <1>2, WorkerEvent DEF Settled, Deleting, Held, Moments, Scanning, Handling
<1>3. ASSUME NEW e \in Event, place'[e] = "gone" PROVE outcome'[e] # "none"
  BY <1>2, <1>3, Outcomes, Deletes DEF Settled
<1>4. ASSUME NEW w \in Worker, pc'[w] \in Deleting PROVE outcome'[event'[w]] # "none"
  <2>1. CASE pc'[w] = pc[w] /\ event'[w] = event[w]
    BY <1>2, <1>4, <2>1, Outcomes
  <2>2. ASSUME NEW step, NEW e, NEW t, Moves(w, step, e, t),
               Inspect(w) \/ Lookup(w) \/ Work(w)
        PROVE  outcome'[event'[w]] # "none"
    <3>1. event[w] \in Event
      BY <2>2, WorkerEvent DEF Inspect, Lookup, Work, Held, Moments, Scanning, Handling
    <3>2. CASE Inspect(w) \/ Lookup(w)
      <4>1. /\ pc'[w] = step /\ step \in Deleting
            /\ pc' = [pc EXCEPT ![w] = step] /\ pc \in [Worker -> Moments]
        BY <1>4, <2>2, MovesFit DEF Moves, MemoryFits
      <4>2. event'[w] = event[w] /\ job[event[w]].status \in Terminal
        BY <3>2, <4>1 DEF Inspect, Lookup, Goto, Continue, Stop, Deleting, Terminal
      <4> QED
        BY <3>1, <4>2, Outcomes DEF Settled
    <3>3. CASE Work(w)
      <4>1. CASE EndJob(event[w], "completed") /\ UNCHANGED event
        BY <3>1, <4>1 DEF EndJob, StoreFits
      <4>2. CASE Goto(w, "fail")
        BY <1>4, <4>2 DEF Goto, Deleting, MemoryFits
      <4> QED
        BY <3>3, <4>1, <4>2 DEF Work, Goto
    <3> QED
      BY <2>2, <3>2, <3>3
  <2>3. CASE UNCHANGED memory
    BY <2>1, <2>3 DEF memory
  <2>4. ASSUME NEW v \in Worker, Drain(v) \/ Crash(v) PROVE outcome'[event'[w]] # "none"
    <3>1. PICK step, e, t : /\ Moves(v, step, e, t)
                            /\ step \in Deleting => Inspect(v) \/ Lookup(v) \/ Work(v)
      BY <2>4, WorkerMoves
    <3>2. CASE v = w
      BY <1>4, <2>2, <3>1, <3>2, MovesFit
    <3>3. CASE v # w
      BY <2>1, <3>1, <3>3, MovesFit
    <3> QED
      BY <3>2, <3>3
  <2> QED
    BY <2>3, <2>4, MemoryChanges
<1> QED
  BY <1>1, <1>3, <1>4 DEF Settled

-----------------------------------------------------------------------------
(* Claims and their tokens. *)

\* What a step of a worker does to the jobs.
LEMMA WorkerJobs ==
    ASSUME StoreFits, MemoryFits, NEW w \in Worker, Drain(w) \/ Crash(w)
    PROVE  \/ UNCHANGED job
           \/ /\ pc[w] \notin Holding
              /\ \A e \in Event : job'[e] = job[e] \/ (job[e].aged /\ job'[e] = NoJob)
           \/ /\ pc[w] \notin Holding /\ event[w] \in Event
              /\ job[event[w]].status = "none"
              /\ \E j : Becomes(event[w], j)
           \/ /\ pc[w] \notin Holding /\ event[w] \in Event
              /\ job[event[w]].status \in {"queued", "processing"}
              /\ \E j : /\ Becomes(event[w], j) /\ j.status = "processing"
                        /\ j.attempts = job[event[w]].attempts + 1 /\ j.aged = job[event[w]].aged
           \/ /\ pc[w] \in Holding /\ event[w] \in Event
              /\ job[event[w]].status = "processing" /\ job[event[w]].attempts = token[w]
              /\ \E j : /\ Becomes(event[w], j)
                        /\ j.attempts = job[event[w]].attempts /\ j.aged = FALSE
<1> USE DEF Holding
<1>1. CASE Prune(w)
  BY <1>1, PruneJobs DEF Prune
<1>2. CASE Enqueue(w)
  <2>1. event[w] \in Event /\ pc[w] = "enqueue"
    BY <1>2, WorkerEvent DEF Enqueue, Held, Moments, Handling
  <2> QED
    BY <1>2, <2>1, EnqueueJob
<1>3. CASE Claim(w)
  <2>1. event[w] \in Event /\ pc[w] = "claim"
    BY <1>3, WorkerEvent DEF Claim, Held, Moments, Handling
  <2> QED
    BY <1>3, <2>1, ClaimJob
<1>4. CASE Work(w) \/ FailJob(w)
  <2>1. event[w] \in Event /\ pc[w] \in {"work", "fail"}
    BY <1>4, WorkerEvent DEF Work, FailJob, Held, Moments, Handling
  <2>2. CASE UNCHANGED job
    BY <2>2
  <2>3. ASSUME NEW status \in Terminal, Owns(w), EndJob(event[w], status)
        PROVE  /\ job[event[w]].status = "processing" /\ job[event[w]].attempts = token[w]
               /\ \E j : /\ Becomes(event[w], j)
                         /\ j.attempts = job[event[w]].attempts /\ j.aged = FALSE
    <3>1. /\ \E j : /\ Becomes(event[w], j) /\ j.status = status
                    /\ j.attempts = job[event[w]].attempts /\ j.aged = FALSE
          /\ job[event[w]].status = "processing" /\ job[event[w]].attempts = token[w]
      BY <2>1, <2>3, EndJobJob, Zenon
    <3> QED
      BY <3>1, Zenon
  <2> QED
    BY <1>4, <2>1, <2>2, <2>3 DEF Work, FailJob, store, Terminal
<1>5. CASE \/ StartDrain(w) \/ RecoverOpen(w) \/ RecoverQuarantine(w) \/ Inspect(w)
           \/ RecoverRemove(w) \/ RecoverFail(w) \/ RecoverMove(w) \/ List(w) \/ Take(w)
           \/ FinishDrain(w) \/ Open(w) \/ Lookup(w) \/ Acknowledge(w) \/ Defer(w)
           \/ Remove(w) \/ Quarantine(w) \/ Crash(w)
  BY <1>5 DEF StartDrain, RecoverOpen, RecoverQuarantine, Inspect, RecoverRemove, RecoverFail,
              RecoverMove, RecoverTo, List, Take, FinishDrain, Open, Lookup, Acknowledge, Defer,
              HandOff, Remove, Quarantine, Crash, store
<1> QED
  BY <1>1, <1>2, <1>3, <1>4, <1>5 DEF Drain

\* What a worker that goes on holding its job finds in the jobs table: its
\* claim still counted and, unless it is the one that ends the job, its status.
LEMMA HolderSees ==
    ASSUME StoreFits, MemoryFits, Tokens, NEW w \in Worker, Drain(w) \/ Crash(w),
           NEW x \in Worker, pc[x] \in Holding
    PROVE  /\ token[x] \in 1..job'[event[x]].attempts /\ ~job'[event[x]].aged
           /\ /\ x # w /\ pc[x] = "work" /\ job'[event[x]].attempts = token[x]
              => job'[event[x]].status = "processing"
<1>1. /\ event[x] \in Event /\ token[x] \in Nat
      /\ token[x] \in 1..job[event[x]].attempts /\ ~job[event[x]].aged
      /\ job[event[x]].attempts \in Nat
  BY WorkerEvent, SpoolAssumption
     DEF Tokens, MemoryFits, Holding, Held, Moments, Handling, StoreFits, Jobs
<1>2. pc[x] = "work" /\ job[event[x]].attempts = token[x] => job[event[x]].status = "processing"
  BY DEF Tokens
<1>3. job[event[x]].status # "none"
  BY <1>1 DEF StoreFits, FitsJob
<1>4. CASE UNCHANGED job
  BY <1>1, <1>2, <1>4
<1>5. CASE \A e \in Event : job'[e] = job[e] \/ (job[e].aged /\ job'[e] = NoJob)
  BY <1>1, <1>2, <1>5
<1>6. CASE /\ event[w] \in Event /\ job[event[w]].status = "none"
           /\ \E j : Becomes(event[w], j)
  BY <1>1, <1>2, <1>3, <1>6, BecomesFit
<1>7. CASE /\ event[w] \in Event
           /\ \E j : /\ Becomes(event[w], j) /\ j.status = "processing"
                     /\ j.attempts = job[event[w]].attempts + 1 /\ j.aged = job[event[w]].aged
  BY <1>1, <1>2, <1>7, BecomesFit
<1>8. CASE /\ pc[w] \in Holding /\ event[w] \in Event
           /\ job[event[w]].attempts = token[w]
           /\ \E j : /\ Becomes(event[w], j)
                     /\ j.attempts = job[event[w]].attempts /\ j.aged = FALSE
  <2>1. PICK j : /\ Becomes(event[w], j)
                 /\ j.attempts = job[event[w]].attempts /\ j.aged = FALSE
    BY <1>8
  <2>2. /\ job'[event[w]] = j
        /\ \A e \in Event : e # event[w] => job'[e] = job[e]
    BY <1>8, <2>1, BecomesFit
  <2>3. CASE event[x] # event[w]
    BY <1>1, <1>2, <2>2, <2>3
  <2>4. CASE event[x] = event[w]
    <3>1. job[event[x]].attempts = token[x] => x = w
      BY <1>8, <2>4 DEF Tokens
    <3> QED
      BY <1>1, <2>1, <2>2, <2>4, <3>1
  <2> QED
    BY <2>3, <2>4
<1> QED
  BY <1>4, <1>5, <1>6, <1>7, <1>8, WorkerJobs

\* Steps of hooks and of time leave the holders their jobs.
LEMMA TimePasses ==
    ASSUME StoreFits, MemoryFits, Tokens, [Next]_vars, UNCHANGED memory
    PROVE  Tokens'
<1>1. pc' = pc /\ event' = event /\ token' = token
  BY DEF memory
<1>2. ASSUME NEW w \in Worker, pc[w] \in Holding PROVE event[w] \in Event
  BY <1>2, WorkerEvent DEF Holding, Held, Moments, Handling
<1>3. CASE UNCHANGED job
  BY <1>1, <1>3 DEF Tokens
<1>4. ASSUME NEW e \in Event, LeaseExpires(e) PROVE Tokens'
  <2>1. PICK j : /\ Becomes(e, j) /\ j.status = job[e].status
                 /\ j.attempts = job[e].attempts /\ j.aged = job[e].aged
    BY <1>4, LeaseExpiresJob
  <2>2. job'[e] = j /\ \A d \in Event : d # e => job'[d] = job[d]
    BY <2>1, BecomesFit
  <2>3. \A d \in Event : /\ job'[d].status = job[d].status
                         /\ job'[d].attempts = job[d].attempts /\ job'[d].aged = job[d].aged
    BY <2>1, <2>2
  <2> QED
    BY <1>1, <1>2, <2>3 DEF Tokens, Holding
<1>5. ASSUME NEW e \in Event, JobAges(e) PROVE Tokens'
  BY <1>1, <1>5 DEF JobAges, Tokens, Holding
<1>6. ASSUME NEW w \in Worker, Prune(w) \/ Enqueue(w) \/ Claim(w) \/ Work(w) \/ FailJob(w)
      PROVE  UNCHANGED job
  <2>1. PICK step, e, t : Moves(w, step, e, t)
    BY <1>6, WorkerMoves DEF Drain
  <2>2. pc'[w] = pc[w]
    BY <1>1
  <2> QED
    BY <1>6, <2>2 DEF Prune, Enqueue, Claim, Work, FailJob, Goto, Continue, MemoryFits
<1> QED
  BY <1>3, <1>4, <1>5, <1>6, StoreChanges DEF store

\* Every step keeps one holder per token.
LEMMA StepTokens ==
    StoreFits /\ MemoryFits /\ Tokens /\ [Next]_vars => Tokens'
<1> SUFFICES ASSUME StoreFits, MemoryFits, Tokens, [Next]_vars
             PROVE  Tokens'
  OBVIOUS
<1>1. CASE UNCHANGED memory
  BY <1>1, TimePasses
<1>2. ASSUME NEW w \in Worker, Drain(w) \/ Crash(w) PROVE Tokens'
  <2>1. PICK step, e, t : Moves(w, step, e, t) /\ Enters(w, step, e, t)
    BY <1>2, WorkerMoves
  <2>2. /\ pc'[w] = step /\ event'[w] = e /\ token'[w] = t
        /\ \A v \in Worker : v # w =>
              pc'[v] = pc[v] /\ event'[v] = event[v] /\ token'[v] = token[v]
    BY <2>1, MovesFit
  \* Whoever holds a job after the step held it before, or has just claimed it.
  <2>3. ASSUME NEW x \in Worker, pc'[x] \in Holding,
               ~(x = w /\ Claim(w) /\ step = "work")
        PROVE  /\ pc[x] \in Holding /\ event'[x] = event[x] /\ token'[x] = token[x]
               /\ pc'[x] = "work" => x # w /\ pc[x] = "work"
    BY <2>1, <2>2, <2>3 DEF Enters
  <2>4. ASSUME Claim(w), step = "work"
        PROVE  /\ event[w] \in Event /\ e = event[w] /\ t = job[e].attempts + 1
               /\ job'[e].status = "processing" /\ job'[e].attempts = t /\ ~job'[e].aged
               /\ t \in Nat /\ t > 0
    <3>1. event[w] \in Event
      BY <2>4, WorkerEvent DEF Claim, Held, Moments, Handling
    <3>2. pc \in [Worker -> Moments] /\ pc[w] = "claim"
      BY <2>4 DEF MemoryFits, Claim
    <3>3. /\ \E j : /\ Becomes(event[w], j) /\ j.status = "processing"
                    /\ j.attempts = job[event[w]].attempts + 1 /\ j.aged = job[event[w]].aged
          /\ job[event[w]].status \in {"queued", "processing"}
      BY <2>2, <2>4, <3>1, <3>2, ClaimJob
    <3>4. e = event[w] /\ t = job[e].attempts + 1
      BY <2>1, <2>4, <3>2 DEF Enters, Holding
    <3>5. job[e].attempts \in Nat /\ ~job[e].aged
      BY <3>1, <3>3, <3>4, SpoolAssumption DEF StoreFits, FitsJob, Jobs, Terminal
    <3> QED
      BY <3>1, <3>3, <3>4, <3>5, BecomesFit
  <2>5. ASSUME NEW x \in Worker, pc'[x] \in Holding
        PROVE  /\ token'[x] \in 1..job'[event'[x]].attempts /\ ~job'[event'[x]].aged
               /\ pc'[x] = "work" /\ job'[event'[x]].attempts = token'[x]
                    => job'[event'[x]].status = "processing"
    <3>1. CASE x = w /\ Claim(w) /\ step = "work"
      BY <2>2, <2>4, <3>1
    <3>2. CASE ~(x = w /\ Claim(w) /\ step = "work")
      BY <1>2, <2>3, <2>5, <3>2, HolderSees
    <3> QED
      BY <3>1, <3>2
  <2>6. ASSUME NEW x \in Worker, NEW y \in Worker, pc'[x] \in Holding, pc'[y] \in Holding,
               event'[x] = event'[y], token'[x] = token'[y]
        PROVE  x = y
    <3>1. CASE Claim(w) /\ step = "work"
      <4>1. ASSUME NEW v \in Worker, v # w, pc'[v] \in Holding, event'[v] = e, token'[v] = t
            PROVE  FALSE
        <5>1. pc[v] \in Holding /\ event[v] = e /\ token[v] = t
          BY <2>2, <4>1
        <5>2. t \in 1..job[e].attempts
          BY <5>1 DEF Tokens
        <5>3. job[e].attempts \in Nat
          BY <2>4, <3>1, SpoolAssumption DEF StoreFits, Jobs
        <5> QED
          BY <2>4, <3>1, <5>2, <5>3
      <4>2. CASE x = w \/ y = w
        BY <2>2, <2>6, <4>1, <4>2
      <4>3. CASE x # w /\ y # w
        BY <2>2, <2>6, <4>3 DEF Tokens
      <4> QED
        BY <4>2, <4>3
    <3>2. CASE ~(Claim(w) /\ step = "work")
      BY <2>3, <2>6, <3>2 DEF Tokens
    <3> QED
      BY <3>1, <3>2
  <2> QED
    BY <2>5, <2>6 DEF Tokens, Holding
<1> QED
  BY <1>1, <1>2, MemoryChanges

-----------------------------------------------------------------------------
(* Events are ingested once while their jobs are kept. *)

\* Every step keeps an ingested event completed.
LEMMA StepOnce ==
    ~Retention /\ StoreFits /\ MemoryFits /\ Once /\ [Next]_vars => Once'
<1> SUFFICES ASSUME ~Retention, StoreFits, MemoryFits, Once, [Next]_vars, NEW e \in Event
             PROVE  ingested'[e] = 0 \/ (ingested'[e] = 1 /\ job'[e].status = "completed")
  BY DEF Once
<1> DEFINE Q == ingested'[e] = 0 \/ (ingested'[e] = 1 /\ job'[e].status = "completed")
<1>1. ingested[e] = 0 \/ (ingested[e] = 1 /\ job[e].status = "completed")
  BY DEF Once
<1>2. CASE UNCHANGED store
  BY <1>1, <1>2 DEF store
<1>3. ASSUME NEW d \in Event, LeaseExpires(d) PROVE Q
  <2>1. PICK j : Becomes(d, j) /\ j.status = job[d].status
    BY <1>3, LeaseExpiresJob
  <2> QED
    BY <1>1, <1>3, <2>1, BecomesFit DEF LeaseExpires
<1>4. ASSUME NEW d \in Event, JobAges(d) PROVE Q
  BY <1>4 DEF JobAges
<1>5. ASSUME NEW w \in Worker, Prune(w) PROVE Q
  <2>1. job'[e] = job[e]
    BY <1>5, PruneJobs DEF StoreFits, FitsJob
  <2> QED
    BY <1>1, <1>5, <2>1 DEF Prune
<1>6. ASSUME NEW w \in Worker, Enqueue(w) PROVE Q
  <2>1. event[w] \in Event /\ UNCHANGED ingested
    BY <1>6, WorkerEvent DEF Enqueue, Held, Moments, Handling
  <2>2. ASSUME NEW j, Becomes(event[w], j), job[event[w]].status = "none" PROVE Q
    BY <1>1, <2>1, <2>2, BecomesFit
  <2> QED
    BY <1>1, <1>6, <2>1, <2>2, EnqueueJob
<1>7. ASSUME NEW w \in Worker, Claim(w) PROVE Q
  <2>1. event[w] \in Event /\ UNCHANGED ingested
    BY <1>7, WorkerEvent DEF Claim, Held, Moments, Handling
  <2>2. ASSUME NEW j, Becomes(event[w], j), job[event[w]].status \in {"queued", "processing"}
        PROVE  Q
    BY <1>1, <2>1, <2>2, BecomesFit
  <2> QED
    BY <1>1, <1>7, <2>1, <2>2, ClaimJob
<1>8. ASSUME NEW w \in Worker, Work(w) \/ FailJob(w) PROVE Q
  <2>1. event[w] \in Event
    BY <1>8, WorkerEvent DEF Work, FailJob, Held, Moments, Handling
  <2>2. CASE UNCHANGED <<job, ingested>>
    BY <1>1, <2>2
  <2>3. ASSUME NEW status \in Terminal, Owns(w), EndJob(event[w], status),
               \/ UNCHANGED ingested
               \/ /\ status = "completed"
                  /\ ingested' = [ingested EXCEPT ![event[w]] = @ + 1]
        PROVE  Q
    <3>. Owns(w) /\ EndJob(event[w], status)
      BY <2>3
    <3>1. PICK j : Becomes(event[w], j) /\ j.status = status
      BY <1>1, <2>1, EndedJob DEF StoreFits
    <3>2. job[event[w]].status = "processing"
      BY DEF Owns
    <3>3. /\ job'[event[w]] = j
          /\ \A d \in Event : d # event[w] => job'[d] = job[d]
      BY <2>1, <3>1, BecomesFit
    <3> QED
      BY <1>1, <2>1, <2>3, <3>1, <3>2, <3>3 DEF StoreFits
  <2> QED
    BY <1>8, <2>2, <2>3 DEF Work, FailJob, store, Terminal
<1> QED
  BY <1>2, <1>3, <1>4, <1>5, <1>6, <1>7, <1>8, StoreChanges

-----------------------------------------------------------------------------
(* One daemon alone.  Nobody moves a file from under it, so an event that has *)
(* ended is never taken again, retention or not.                             *)

\* A daemon handles a file where it has put it, and no event that has ended.
Sees == {"inspect", "recoverRemove", "recoverFail", "recoverMove", "enqueue", "lookup", "claim",
         "defer", "work", "remove", "fail"}
Before == {"recoverMove", "open", "enqueue", "lookup", "claim", "defer", "work", "fail"}

Knows(step, p, o) ==
    /\ step # "acknowledge"
    /\ step \in Sees => p = "processing"
    /\ step \in Before => o = "none"
    /\ step \in {"recoverRemove", "remove"} => o = "completed"

\* Where the file of an event may be, and what its job says, once it has ended.
Told(p, s, o, n) ==
    /\ n = IF o = "completed" THEN 1 ELSE 0
    /\ p = "gone" => o = "completed"
    /\ o # "none" => p \in {"processing", "failed", "gone"}
    /\ o # "none" /\ p = "processing" => s = o
    /\ s \in Terminal => o = s

\* A recovery scan that is to be complete still has every file of an event that
\* has ended before it.
Scanned(w) ==
    whole[w] /\ pc[w] \in Scanning \ {"list"} =>
        \A e \in Event : place[e] = "processing" /\ outcome[e] # "none" =>
            \/ e \in left[w]
            \/ e = event[w] /\ pc[w] \in {"inspect", "recoverRemove", "recoverFail"}

Captured == {e \in Event : place[e] # "none"}

AloneInv ==
    /\ IsFiniteSet(Captured)
    /\ \A e \in Event : hook[e] = "idle" => place[e] = "none"
    /\ \A e \in Event : Told(place[e], job[e].status, outcome[e], ingested[e])
    /\ \A w \in Worker : event[w] \in Event => Knows(pc[w], place[event[w]], outcome[event[w]])
    /\ \A w \in Worker : Scanned(w)

Alone == \A v, w \in Worker : v = w

\* A step captures one more event, or none.
LEMMA StepCaptured ==
    ASSUME FilesFit, [Next]_vars, IsFiniteSet(Captured)
    PROVE  IsFiniteSet(Captured')
<1>1. \E e : Captured' \subseteq Captured \cup {e}
  <2>1. ASSUME NEW e \in Event, Capture(e) PROVE Captured' \subseteq Captured \cup {e}
    BY <2>1 DEF Capture, Captured, FilesFit
  <2>2. ASSUME NEW e \in Event,
               Publish(e) \/ HookTimesOut(e) \/ LeaseExpires(e) \/ JobAges(e)
        PROVE  Captured' \subseteq Captured
    BY <2>2 DEF Publish, HookTimesOut, LeaseExpires, JobAges, Captured, FilesFit, files
  <2>3. ASSUME NEW w \in Worker, Drain(w) \/ Crash(w) PROVE Captured' \subseteq Captured
    <3>1. CASE UNCHANGED place
      BY <3>1 DEF Captured
    <3>2. CASE RecoverRemove(w) \/ RecoverFail(w) \/ RecoverMove(w) \/ RecoverQuarantine(w)
      BY <3>2 DEF RecoverRemove, RecoverFail, RecoverMove, RecoverTo, RecoverQuarantine, MoveFile,
                  QuarantineFile, Captured, FilesFit
    <3>3. CASE Acknowledge(w) \/ Defer(w) \/ Remove(w) \/ Quarantine(w)
      BY <3>3 DEF Acknowledge, Defer, HandOff, Remove, Quarantine, MoveFile, QuarantineFile,
                  Captured, FilesFit
    <3>4. CASE Take(w)
      BY <3>4 DEF Take, Captured, FilesFit
    <3>5. CASE \/ StartDrain(w) \/ RecoverOpen(w) \/ Inspect(w) \/ Prune(w) \/ List(w)
               \/ FinishDrain(w) \/ Open(w) \/ Enqueue(w) \/ Lookup(w) \/ Claim(w)
               \/ Work(w) \/ FailJob(w) \/ Crash(w)
      BY <3>1, <3>5
         DEF StartDrain, RecoverOpen, Inspect, Prune, List, FinishDrain, Open, Enqueue, Lookup,
             Claim, Work, FailJob, Crash, files
    <3> QED
      BY <2>3, <3>2, <3>3, <3>4, <3>5 DEF Drain
  <2>4. CASE UNCHANGED vars
    BY <2>4 DEF vars, files, Captured
  <2> QED
    BY <2>1, <2>2, <2>3, <2>4 DEF Next
<1>2. PICK e : Captured' \in SUBSET (Captured \cup {e})
  BY <1>1
<1>3. IsFiniteSet(Captured \cup {e})
  BY FS_AddElement
<1> QED
  BY <1>2, <1>3, FS_Subset

\* A walk below its limit examines every entry.
LEMMA WholeWalk ==
    ASSUME NEW entries, IsFiniteSet(entries), Cardinality(entries) < Limit,
           NEW walk \in Walks(entries)
    PROVE  walk = entries
<1>1. walk \in SUBSET entries /\ Cardinality(walk) = Cardinality(entries)
  BY DEF Walks, kSubset
<1> QED
  BY <1>1, FS_Subset

\* Hooks move only what no daemon has, and time ends no job.
LEMMA AloneWhileTimePasses ==
    ASSUME SpoolInv, AloneInv, NEW e \in Event,
           Capture(e) \/ Publish(e) \/ HookTimesOut(e) \/ LeaseExpires(e) \/ JobAges(e)
    PROVE  AloneInv'
<1>1. /\ UNCHANGED <<outcome, ingested, pc, event, left, whole>>
      /\ \A d \in Event : job'[d].status = job[d].status
  <2>1. CASE Capture(e) \/ Publish(e) \/ HookTimesOut(e)
    BY <2>1 DEF Capture, Publish, HookTimesOut, store, memory
  <2>2. CASE LeaseExpires(e)
    <3>1. PICK j : Becomes(e, j) /\ j.status = job[e].status
      BY <2>2, LeaseExpiresJob DEF SpoolInv
    <3> QED
      BY <2>2, <3>1, BecomesFit DEF LeaseExpires, memory, SpoolInv
  <2>3. CASE JobAges(e)
    <3>1. PICK j : Becomes(e, j) /\ j.status = job[e].status
      BY <2>3, JobAgesJob DEF SpoolInv
    <3> QED
      BY <2>3, <3>1, BecomesFit DEF JobAges, memory, SpoolInv
  <2> QED
    BY <2>1, <2>2, <2>3
<1>2. /\ \A d \in Event : \/ place'[d] = place[d]
                          \/ place[d] = "none" /\ place'[d] = "temporary"
                          \/ place[d] = "temporary" /\ place'[d] = "incoming"
      /\ \A d \in Event : hook'[d] = "idle" => place'[d] = "none"
  <2>1. /\ hook \in [Event -> {"idle", "writing", "published", "lost"}]
        /\ place \in [Event -> Places]
        /\ \A d \in Event : hook[d] = "idle" => place[d] = "none"
    BY DEF SpoolInv, FilesFit, AloneInv
  <2> QED
    BY <2>1 DEF Capture, Publish, HookTimesOut, LeaseExpires, JobAges, files
<1>3. IsFiniteSet(Captured')
  BY StepCaptured DEF Next, SpoolInv, AloneInv
<1>4. ASSUME NEW d \in Event PROVE Told(place'[d], job'[d].status, outcome'[d], ingested'[d])
  <2>1. Told(place[d], job[d].status, outcome[d], ingested[d])
    BY DEF AloneInv
  <2> QED
    BY <1>1, <1>2, <2>1 DEF Told
<1>5. ASSUME NEW w \in Worker, event'[w] \in Event
      PROVE  Knows(pc'[w], place'[event'[w]], outcome'[event'[w]])
  <2>1. Knows(pc[w], place[event[w]], outcome[event[w]])
    BY <1>1, <1>5 DEF AloneInv
  <2> QED
    BY <1>1, <1>2, <1>5, <2>1 DEF Knows
<1>6. ASSUME NEW w \in Worker PROVE Scanned(w)'
  <2>1. Scanned(w)
    BY DEF AloneInv
  <2> QED
    BY <1>1, <1>2, <2>1 DEF Scanned
<1> QED
  BY <1>2, <1>3, <1>4, <1>5, <1>6 DEF AloneInv

\* What a step of the only daemon has to keep.
Keeps(w) ==
    /\ UNCHANGED hook
    /\ \A d \in Event : place[d] = "none" => place'[d] = "none"
    /\ \A d \in Event : Told(place'[d], job'[d].status, outcome'[d], ingested'[d])
    /\ event'[w] \in Event => Knows(pc'[w], place'[event'[w]], outcome'[event'[w]])
    /\ Scanned(w)'

\* A scan starts with every file that is under processing, or will not be complete.
LEMMA AloneStartDrain ==
    ASSUME SpoolInv, AloneInv, NEW w \in Worker, StartDrain(w) PROVE Keeps(w)
<1> DEFINE entries == {e \in Event : place[e] \in {"processing", "tempTaken"}}
<1>1. PICK walk \in Walks(entries) : left' = [left EXCEPT ![w] = walk]
  BY DEF StartDrain
<1>2. /\ left'[w] = walk /\ whole'[w] = (Cardinality(entries) < Limit)
      /\ pc'[w] = "recover" /\ UNCHANGED <<hook, place, job, outcome, ingested, event>>
  BY <1>1 DEF StartDrain, SpoolInv, MemoryFits, files, store
<1>3. IsFiniteSet(entries)
  <2>1. entries \in SUBSET Captured
    BY DEF Captured
  <2> QED
    BY <2>1, FS_Subset DEF AloneInv
<1>4. whole'[w] => left'[w] = entries
  BY <1>2, <1>3, WholeWalk
<1>5. Scanned(w)'
  BY <1>2, <1>4 DEF Scanned
<1> QED
  BY <1>2, <1>5 DEF Keeps, AloneInv, Knows, Sees, Before

\* The scan hands each of them to its inspection.
LEMMA AloneRecoverOpen ==
    ASSUME SpoolInv, AloneInv, NEW w \in Worker, RecoverOpen(w) PROVE Keeps(w)
<1>1. PICK e \in left[w] :
        /\ event' = [event EXCEPT ![w] = e]
        /\ left' = [left EXCEPT ![w] = @ \ {e}]
        /\ pc' = [pc EXCEPT ![w] = IF place[e] = "processing" THEN "inspect"
                                   ELSE "recoverQuarantine"]
  BY DEF RecoverOpen
<1>2. /\ e \in Event /\ event'[w] = e /\ left'[w] = left[w] \ {e}
      /\ pc'[w] = IF place[e] = "processing" THEN "inspect" ELSE "recoverQuarantine"
      /\ pc[w] = "recover" /\ UNCHANGED <<hook, place, job, outcome, ingested, whole>>
  BY <1>1 DEF RecoverOpen, SpoolInv, MemoryFits, files, store
<1>3. Scanned(w)
  BY DEF AloneInv
<1>4. Scanned(w)'
  BY <1>2, <1>3 DEF Scanned, Scanning
<1> QED
  BY <1>2, <1>4 DEF Keeps, AloneInv, Knows, Sees, Before

\* The inspection finds how the event has ended, if it has.
LEMMA AloneInspect ==
    ASSUME SpoolInv, AloneInv, NEW w \in Worker, Inspect(w) PROVE Keeps(w)
<1> DEFINE e == event[w]
<1>1. /\ e \in Event /\ pc[w] = "inspect" /\ UNCHANGED <<hook, place, job, outcome, ingested>>
      /\ FitsJob(job[e]) /\ outcome[e] \in {"none"} \cup Terminal
  BY WorkerEvent DEF Inspect, SpoolInv, Held, Moments, Scanning, files, store, StoreFits
<1>2. Told(place[e], job[e].status, outcome[e], ingested[e]) /\ place[e] = "processing"
  BY <1>1 DEF AloneInv, Knows, Sees
<1>3. Scanned(w)
  BY DEF AloneInv
<1>4. CASE Stop(w)
  <2>1. pc'[w] = "idle" /\ event'[w] = None
    BY <1>4 DEF Stop, SpoolInv, MemoryFits
  <2> QED
    BY <1>1, <2>1, SpoolAssumption DEF Keeps, AloneInv, Scanned, Scanning
<1>5. CASE job[e].leased /\ Continue(w, "recover")
  <2>1. /\ pc'[w] = "recover" /\ event'[w] = None /\ UNCHANGED <<left, whole>>
        /\ job[e].status = "processing"
    BY <1>1, <1>5 DEF Continue, SpoolInv, MemoryFits, FitsJob
  <2>2. outcome[e] = "none"
    BY <1>1, <1>2, <2>1 DEF Told, Terminal
  <2>3. Scanned(w)'
    BY <1>1, <1>3, <2>1, <2>2 DEF Scanned, Scanning
  <2> QED
    BY <1>1, <2>1, <2>3, SpoolAssumption DEF Keeps, AloneInv
<1>6. ASSUME NEW step \in {"recoverRemove", "recoverFail", "recoverMove"}, Goto(w, step),
             \/ step = "recoverRemove" /\ job[e].status = "completed"
             \/ step = "recoverFail" /\ job[e].status = "failed"
             \/ step = "recoverMove" /\ job[e].status \in {"none", "queued", "processing"}
      PROVE  Keeps(w)
  <2>1. pc'[w] = step /\ UNCHANGED <<event, left, whole>>
    BY <1>6 DEF Goto, SpoolInv, MemoryFits
  <2>2. /\ step = "recoverRemove" => outcome[e] = "completed"
        /\ step = "recoverMove" => outcome[e] = "none"
    BY <1>1, <1>2, <1>6 DEF Told, Terminal
  <2>3. Knows(step, place[e], outcome[e])
    BY <1>2, <1>6, <2>2 DEF Knows, Sees, Before
  <2>4. Scanned(w)'
    BY <1>1, <1>3, <1>6, <2>1, <2>2 DEF Scanned, Scanning
  <2> QED
    BY <1>1, <2>1, <2>3, <2>4 DEF Keeps, AloneInv
<1> QED
  BY <1>4, <1>5, <1>6 DEF Inspect

\* Its verdict is carried out: the file goes, is kept, or comes back.
LEMMA AloneRecoverTo ==
    ASSUME SpoolInv, AloneInv, NEW w \in Worker,
           RecoverRemove(w) \/ RecoverFail(w) \/ RecoverMove(w)
    PROVE  Keeps(w)
<1> DEFINE e == event[w]
<1>1. /\ e \in Event /\ UNCHANGED <<hook, job, outcome, ingested>>
      /\ pc[w] \in {"recoverRemove", "recoverFail", "recoverMove"}
      /\ place \in [Event -> Places]
  BY WorkerEvent
     DEF RecoverRemove, RecoverFail, RecoverMove, RecoverTo, SpoolInv, Held, Moments, Scanning,
         store, FilesFit
<1>2. /\ Told(place[e], job[e].status, outcome[e], ingested[e])
      /\ Knows(pc[w], place[e], outcome[e]) /\ Scanned(w)
  BY <1>1 DEF AloneInv
<1>3. place[e] = "processing"
  BY <1>1, <1>2 DEF Knows, Sees
<1>4. /\ \/ pc[w] = "recoverRemove" /\ place'[e] = "gone"
         \/ pc[w] = "recoverFail" /\ place'[e] = "failed"
         \/ pc[w] = "recoverMove" /\ place'[e] = "incoming"
      /\ \A d \in Event : d # e => place'[d] = place[d]
      /\ Continue(w, "recover")
  BY <1>1, <1>3 DEF RecoverRemove, RecoverFail, RecoverMove, RecoverTo, MoveFile
<1>5. pc'[w] = "recover" /\ event'[w] = None /\ UNCHANGED <<left, whole>>
  BY <1>4 DEF Continue, SpoolInv, MemoryFits
<1>6. Told(place'[e], job'[e].status, outcome'[e], ingested'[e])
  BY <1>1, <1>2, <1>4 DEF Told, Knows, Before
<1>7. \A d \in Event : Told(place'[d], job'[d].status, outcome'[d], ingested'[d])
  BY <1>1, <1>4, <1>6 DEF AloneInv
<1>8. Scanned(w)'
  BY <1>1, <1>2, <1>4, <1>5 DEF Scanned, Scanning
<1> QED
  BY <1>1, <1>3, <1>4, <1>5, <1>7, <1>8, SpoolAssumption DEF Keeps

\* What is refused is kept, and takes no ended event out of the scan but its own.
LEMMA AloneQuarantine ==
    ASSUME SpoolInv, AloneInv, NEW w \in Worker, RecoverQuarantine(w) \/ Quarantine(w)
    PROVE  Keeps(w)
<1> DEFINE e == event[w]
<1>1. /\ e \in Event /\ UNCHANGED <<hook, job, outcome, ingested>>
      /\ pc[w] \in {"recoverQuarantine", "quarantine"} /\ place \in [Event -> Places]
  BY WorkerEvent
     DEF RecoverQuarantine, Quarantine, SpoolInv, Held, Moments, Scanning, Handling, store, FilesFit
<1>2. Told(place[e], job[e].status, outcome[e], ingested[e]) /\ Scanned(w)
  BY <1>1 DEF AloneInv
<1>3. /\ \/ place[e] \in {"processing", "tempTaken"} /\ place'[e] = "failed"
         \/ place'[e] = place[e]
      /\ \A d \in Event : d # e => place'[d] = place[d]
  BY <1>1 DEF RecoverQuarantine, Quarantine, QuarantineFile
<1>4. /\ event'[w] = None
      /\ \/ pc'[w] \in {"idle", "take"}
         \/ pc[w] = "recoverQuarantine" /\ pc'[w] = "recover" /\ UNCHANGED <<left, whole>>
  BY DEF RecoverQuarantine, Quarantine, Continue, Stop, SpoolInv, MemoryFits
<1>5. Told(place'[e], job'[e].status, outcome'[e], ingested'[e])
  BY <1>1, <1>2, <1>3 DEF Told
<1>6. \A d \in Event : Told(place'[d], job'[d].status, outcome'[d], ingested'[d])
  BY <1>1, <1>3, <1>5 DEF AloneInv
<1>7. Scanned(w)'
  BY <1>1, <1>2, <1>3, <1>4 DEF Scanned, Scanning
<1> QED
  BY <1>1, <1>3, <1>4, <1>6, <1>7, SpoolAssumption DEF Keeps

\* After a complete scan no file of an ended event is left for its tombstone.
LEMMA AlonePrune ==
    ASSUME SpoolInv, AloneInv, NEW w \in Worker, Prune(w) PROVE Keeps(w)
<1>1. /\ pc[w] = "recover" /\ left[w] = {} /\ pc'[w] = "list"
      /\ UNCHANGED <<hook, place, outcome, ingested, event, left, whole>>
      /\ job' = [d \in Event |-> IF whole[w] /\ d \in Tombstones THEN NoJob ELSE job[d]]
  BY DEF Prune, Goto, SpoolInv, MemoryFits, files
<1>2. Scanned(w)
  BY DEF AloneInv
<1>3. ASSUME NEW d \in Event
      PROVE  Told(place'[d], job'[d].status, outcome'[d], ingested'[d])
  <2>1. Told(place[d], job[d].status, outcome[d], ingested[d])
    BY DEF AloneInv
  <2>2. CASE job'[d] = job[d]
    BY <1>1, <2>1, <2>2
  <2>3. CASE whole[w] /\ job'[d] = NoJob
    <3>1. ~(place[d] = "processing" /\ outcome[d] # "none")
      BY <1>1, <1>2, <2>3 DEF Scanned, Scanning
    <3> QED
      BY <1>1, <2>1, <2>3, <3>1, NoJobFits DEF Told, Terminal
  <2> QED
    BY <1>1, <2>2, <2>3
<1>4. event'[w] \in Event => Knows(pc'[w], place'[event'[w]], outcome'[event'[w]])
  BY <1>1 DEF Knows, Sees, Before
<1> QED
  BY <1>1, <1>3, <1>4 DEF Keeps, Scanned, Scanning

\* What is taken has not ended.
LEMMA AloneTake ==
    ASSUME SpoolInv, AloneInv, NEW w \in Worker, Take(w) PROVE Keeps(w)
<1>1. PICK e \in left[w] :
        \/ /\ place[e] \in {"incoming", "temporary"}
           /\ place' = [place EXCEPT ![e] = IF place[e] = "incoming" THEN "processing"
                                            ELSE "tempTaken"]
           /\ pc' = [pc EXCEPT ![w] = "open"]
           /\ event' = [event EXCEPT ![w] = e]
        \/ UNCHANGED <<place, pc, event>>
  BY DEF Take
<1>2. /\ e \in Event /\ pc[w] = "take" /\ UNCHANGED <<hook, job, outcome, ingested, whole>>
      /\ place \in [Event -> Places]
  BY DEF Take, SpoolInv, MemoryFits, store, FilesFit
<1>3. CASE UNCHANGED <<place, pc, event>>
  BY <1>2, <1>3 DEF Keeps, AloneInv, Scanned, Scanning
<1>4. CASE /\ place[e] \in {"incoming", "temporary"}
           /\ place' = [place EXCEPT ![e] = IF place[e] = "incoming" THEN "processing"
                                            ELSE "tempTaken"]
           /\ pc' = [pc EXCEPT ![w] = "open"]
           /\ event' = [event EXCEPT ![w] = e]
  <2>1. /\ pc'[w] = "open" /\ event'[w] = e /\ place'[e] \in {"processing", "tempTaken"}
        /\ \A d \in Event : d # e => place'[d] = place[d]
    BY <1>2, <1>4 DEF SpoolInv, MemoryFits
  <2>2. Told(place[e], job[e].status, outcome[e], ingested[e])
    BY <1>2 DEF AloneInv
  <2>3. outcome[e] = "none"
    BY <1>4, <2>2 DEF Told
  <2>4. Told(place'[e], job'[e].status, outcome'[e], ingested'[e])
    BY <1>2, <2>1, <2>2, <2>3 DEF Told
  <2>5. \A d \in Event : Told(place'[d], job'[d].status, outcome'[d], ingested'[d])
    BY <1>2, <2>1, <2>4 DEF AloneInv
  <2>6. Knows(pc'[w], place'[e], outcome'[e])
    BY <1>2, <2>1, <2>3 DEF Knows, Sees, Before
  <2> QED
    BY <1>2, <1>4, <2>1, <2>5, <2>6 DEF Keeps, Scanned, Scanning
<1> QED
  BY <1>1, <1>3, <1>4

\* The steps that only read: the next one is about the same event or about none.
LEMMA AloneReads ==
    ASSUME SpoolInv, AloneInv, NEW w \in Worker,
           List(w) \/ FinishDrain(w) \/ Crash(w) \/ Open(w) \/ Lookup(w)
    PROVE  Keeps(w)
<1>1. UNCHANGED <<hook, place, job, outcome, ingested>>
  BY DEF List, FinishDrain, Crash, Open, Lookup, files, store
<1>2. CASE List(w) \/ FinishDrain(w) \/ Crash(w)
  <2>1. \/ pc'[w] = "take" /\ UNCHANGED event
        \/ pc'[w] = "idle" /\ event'[w] = None
    BY <1>2 DEF List, FinishDrain, Crash, Stop, SpoolInv, MemoryFits
  <2>2. event'[w] \in Event => Knows(pc'[w], place'[event'[w]], outcome'[event'[w]])
    BY <1>1, <2>1, SpoolAssumption DEF Knows, Sees, Before
  <2> QED
    BY <1>1, <2>1, <2>2 DEF Keeps, AloneInv, Scanned, Scanning
<1>3. CASE Open(w) \/ Lookup(w)
  <2>1. /\ event[w] \in Event /\ pc[w] \in {"open", "lookup"}
        /\ outcome[event[w]] \in {"none"} \cup Terminal
    BY <1>3, WorkerEvent DEF Open, Lookup, SpoolInv, Held, Moments, Handling, StoreFits
  <2>2. /\ Told(place[event[w]], job[event[w]].status, outcome[event[w]], ingested[event[w]])
        /\ Knows(pc[w], place[event[w]], outcome[event[w]])
    BY <2>1 DEF AloneInv
  <2>3. outcome[event[w]] = "none" /\ job[event[w]].status \notin Terminal
    BY <2>1, <2>2 DEF Knows, Before, Told, Terminal
  <2>4. /\ UNCHANGED event
        /\ \/ pc'[w] = "quarantine"
           \/ pc[w] = "open" /\ pc'[w] = "enqueue" /\ place[event[w]] = "processing"
           \/ pc[w] = "lookup" /\ pc'[w] = "claim"
    BY <1>3, <2>3 DEF Open, Lookup, Goto, SpoolInv, MemoryFits
  <2>5. Knows(pc'[w], place'[event'[w]], outcome'[event'[w]])
    BY <1>1, <2>2, <2>3, <2>4 DEF Knows, Sees, Before
  <2> QED
    BY <1>1, <2>4, <2>5 DEF Keeps, AloneInv, Scanned, Scanning
<1> QED
  BY <1>2, <1>3

\* A file is given back before its event has ended, and removed after its commit.
LEMMA AloneHandsOff ==
    ASSUME SpoolInv, AloneInv, NEW w \in Worker, Acknowledge(w) \/ Defer(w) \/ Remove(w)
    PROVE  Keeps(w)
<1> DEFINE e == event[w]
<1>1. /\ e \in Event /\ pc[w] \in {"acknowledge", "defer", "remove"}
      /\ place \in [Event -> Places] /\ UNCHANGED <<hook, job, outcome, ingested>>
  BY WorkerEvent
     DEF Acknowledge, Defer, HandOff, Remove, SpoolInv, Held, Moments, Handling, FilesFit, store
<1>2. Told(place[e], job[e].status, outcome[e], ingested[e]) /\ Knows(pc[w], place[e], outcome[e])
  BY <1>1 DEF AloneInv
<1>3. place[e] = "processing" /\ pc[w] # "acknowledge"
  BY <1>1, <1>2 DEF Knows, Sees
<1>4. /\ \/ pc[w] = "defer" /\ place'[e] = "incoming"
         \/ pc[w] = "remove" /\ place'[e] = "gone"
      /\ \A d \in Event : d # e => place'[d] = place[d]
      /\ pc'[w] = "take" /\ event'[w] = None
  BY <1>1, <1>3
     DEF Acknowledge, Defer, HandOff, Remove, MoveFile, Continue, SpoolInv, MemoryFits
<1>5. Told(place'[e], job'[e].status, outcome'[e], ingested'[e])
  BY <1>1, <1>2, <1>4 DEF Told, Knows, Before
<1>6. \A d \in Event : Told(place'[d], job'[d].status, outcome'[d], ingested'[d])
  BY <1>1, <1>4, <1>5 DEF AloneInv
<1> QED
  BY <1>1, <1>3, <1>4, <1>6, SpoolAssumption DEF Keeps, Scanned, Scanning

\* A job begins and is claimed while its event has not ended.
LEMMA AloneBegins ==
    ASSUME SpoolInv, AloneInv, NEW w \in Worker, Enqueue(w) \/ Claim(w) PROVE Keeps(w)
<1> DEFINE e == event[w]
<1>1. /\ e \in Event /\ pc[w] \in {"enqueue", "claim"}
      /\ UNCHANGED <<hook, place, outcome, ingested>> /\ StoreFits
  BY WorkerEvent DEF Enqueue, Claim, SpoolInv, Held, Moments, Handling, files
<1>2. Told(place[e], job[e].status, outcome[e], ingested[e]) /\ Knows(pc[w], place[e], outcome[e])
  BY <1>1 DEF AloneInv
<1>3. /\ \A d \in Event : d # e => job'[d] = job[d]
      /\ job'[e] = job[e] \/ job'[e].status \in {"queued", "processing"}
  <2>1. ASSUME NEW j, Becomes(e, j), j.status \in {"queued", "processing"}
        PROVE  /\ \A d \in Event : d # e => job'[d] = job[d]
               /\ job'[e] = job[e] \/ job'[e].status \in {"queued", "processing"}
    BY <1>1, <2>1, BecomesFit
  <2> QED
    BY <1>1, <2>1, EnqueueJob, ClaimJob
<1>4. Told(place'[e], job'[e].status, outcome'[e], ingested'[e])
  BY <1>1, <1>2, <1>3 DEF Told, Knows, Sees, Before, Terminal
<1>5. \A d \in Event : Told(place'[d], job'[d].status, outcome'[d], ingested'[d])
  BY <1>1, <1>3, <1>4 DEF AloneInv
<1>6. pc'[w] \in {"claim", "lookup", "quarantine", "work", "defer"} /\ UNCHANGED event
  BY DEF Enqueue, Claim, Goto, SpoolInv, MemoryFits
<1>7. Knows(pc'[w], place'[e], outcome'[e])
  BY <1>1, <1>2, <1>6 DEF Knows, Sees, Before
<1> QED
  BY <1>1, <1>5, <1>6, <1>7 DEF Keeps, Scanned, Scanning

\* It ends once, by a commit or a failure.
LEMMA AloneEnds ==
    ASSUME SpoolInv, AloneInv, NEW w \in Worker, Work(w) \/ FailJob(w) PROVE Keeps(w)
<1> DEFINE e == event[w]
<1>1. /\ e \in Event /\ pc[w] \in {"work", "fail"} /\ UNCHANGED <<hook, place>>
      /\ StoreFits /\ ingested \in [Event -> Nat]
  BY WorkerEvent DEF Work, FailJob, SpoolInv, Held, Moments, Handling, files, StoreFits
<1>2. Told(place[e], job[e].status, outcome[e], ingested[e]) /\ Knows(pc[w], place[e], outcome[e])
  BY <1>1 DEF AloneInv
<1>3. place[e] = "processing" /\ outcome[e] = "none" /\ ingested[e] = 0
  BY <1>1, <1>2 DEF Knows, Sees, Before, Told
<1>4. CASE /\ UNCHANGED <<job, outcome, ingested>>
           /\ Goto(w, "fail") \/ Continue(w, "take")
  <2>1. \/ pc'[w] = "fail" /\ UNCHANGED event
        \/ pc'[w] = "take" /\ event'[w] = None
    BY <1>4 DEF Goto, Continue, SpoolInv, MemoryFits
  <2>2. event'[w] \in Event => Knows(pc'[w], place'[event'[w]], outcome'[event'[w]])
    BY <1>1, <1>3, <1>4, <2>1, SpoolAssumption DEF Knows, Sees, Before
  <2> QED
    BY <1>1, <1>4, <2>1, <2>2 DEF Keeps, AloneInv, Scanned, Scanning
<1>5. ASSUME NEW status \in Terminal, Owns(w), EndJob(e, status),
             \/ /\ status = "completed" /\ Goto(w, "remove")
                /\ ingested' = [ingested EXCEPT ![e] = @ + 1]
             \/ /\ status = "failed" /\ Goto(w, "quarantine")
                /\ UNCHANGED ingested
      PROVE  Keeps(w)
  <2>0. StoreFits /\ event[w] \in Event /\ Owns(w) /\ EndJob(event[w], status)
    BY <1>1, <1>5
  <2>1. PICK j : Becomes(event[w], j) /\ j.status = status
    BY ONLY <2>0, EndedJob
  <2>2. job'[e].status = status /\ \A d \in Event : d # e => job'[d] = job[d]
    BY <1>1, <2>1, BecomesFit
  <2>3. outcome'[e] = status /\ \A d \in Event : d # e => outcome'[d] = outcome[d]
    BY <1>1, <1>5 DEF EndJob, StoreFits
  <2>4. /\ ingested'[e] = IF status = "completed" THEN 1 ELSE 0
        /\ \A d \in Event : d # e => ingested'[d] = ingested[d]
    BY <1>1, <1>3, <1>5 DEF Terminal
  <2>5. Told(place'[e], job'[e].status, outcome'[e], ingested'[e])
    BY <1>1, <1>3, <2>2, <2>3, <2>4 DEF Told, Terminal
  <2>6. \A d \in Event : Told(place'[d], job'[d].status, outcome'[d], ingested'[d])
    BY <1>1, <2>2, <2>3, <2>4, <2>5 DEF AloneInv
  <2>7. /\ UNCHANGED event
        /\ pc'[w] = IF status = "completed" THEN "remove" ELSE "quarantine"
    BY <1>5 DEF Goto, SpoolInv, MemoryFits
  <2>8. Knows(pc'[w], place'[e], outcome'[e])
    BY <1>1, <1>3, <2>3, <2>7 DEF Knows, Sees, Before
  <2> QED
    BY <1>1, <2>6, <2>7, <2>8 DEF Keeps, Scanned, Scanning
<1> QED
  BY <1>4, <1>5 DEF Work, FailJob, store, Terminal

\* The invariant of a daemon alone.
LEMMA StepAlone == Alone /\ SpoolInv /\ AloneInv /\ [Next]_vars => AloneInv'
<1> SUFFICES ASSUME Alone, SpoolInv, AloneInv, [Next]_vars PROVE AloneInv'
  OBVIOUS
<1>1. ASSUME NEW w \in Worker, Keeps(w) PROVE AloneInv'
  <2>1. IsFiniteSet(Captured')
    BY StepCaptured DEF SpoolInv, AloneInv
  <2>2. \A v \in Worker : v = w
    BY DEF Alone
  <2>3. \A e \in Event : hook'[e] = "idle" => place'[e] = "none"
    BY <1>1 DEF Keeps, AloneInv
  <2> QED
    BY <1>1, <2>1, <2>2, <2>3 DEF AloneInv, Keeps
<1>2. ASSUME NEW w \in Worker, Drain(w) \/ Crash(w) PROVE Keeps(w)
  BY <1>2, AloneStartDrain, AloneRecoverOpen, AloneInspect, AloneRecoverTo, AloneQuarantine,
     AlonePrune, AloneTake, AloneReads, AloneHandsOff, AloneBegins, AloneEnds DEF Drain
<1>3. CASE UNCHANGED vars
  BY <1>3 DEF vars, files, store, memory, AloneInv, Captured, Scanned
<1> QED
  BY <1>1, <1>2, <1>3, AloneWhileTimePasses DEF Next

-----------------------------------------------------------------------------
(* The theorems. *)

\* Nothing has been captured at the start.
LEMMA InitInv == Init => SpoolInv /\ Once
<1> SUFFICES ASSUME Init
             PROVE  SpoolInv /\ Once
  OBVIOUS
<1>1. StoreFits /\ Once
  BY NoJobFits DEF Init, StoreFits, FitsJob, Once, Terminal
<1>2. MemoryFits
  BY DEF Init, MemoryFits, FitsStep, Moments, Held, Holding, Scanning, Handling
<1>3. FilesFit
  BY SpoolAssumption DEF Init, FilesFit, Places
<1>4. Settled /\ Tokens
  BY NoJobFits DEF Init, Settled, Tokens, Deleting, Holding, Terminal
<1> QED
  BY <1>1, <1>2, <1>3, <1>4 DEF SpoolInv

\* SpoolInv holds from the start and every step keeps it.
THEOREM SpoolInvariant == Spec => []SpoolInv
<1>1. SpoolInv /\ [Next]_vars => SpoolInv'
  BY StepStore, StepMemory, StepFiles, StepSettled, StepTokens DEF SpoolInv
<1> QED
  BY InitInv, <1>1, PTL DEF Spec

\* What SpoolIngest says of its variables: a worker is between two events or
\* holds one, with a fencing token after its claim.
THEOREM TypeCorrect == Spec => []TypeOK
<1>1. SpoolInv => TypeOK
  <2> SUFFICES ASSUME SpoolInv
               PROVE  TypeOK
    OBVIOUS
  <2>1. /\ job \in [Event -> [status : {"none", "queued", "processing"} \cup Terminal,
                              attempts : 0..MaxAttempts + 1, leased : BOOLEAN,
                              aged : BOOLEAN]]
        /\ \A e \in Event : job[e].leased => job[e].status = "processing"
    BY DEF SpoolInv, StoreFits, FitsJob, Jobs
  <2>2. /\ pc \in [Worker -> {"idle"} \cup Scanning \cup Handling]
        /\ \A w \in Worker : pc[w] \in {"work", "remove", "fail"} => token[w] > 0
    BY DEF SpoolInv, MemoryFits, FitsStep, Moments, Holding
  <2> QED
    BY <2>1, <2>2 DEF TypeOK, SpoolInv, StoreFits, MemoryFits, FilesFit
<1> QED
  BY <1>1, SpoolInvariant, PTL

\* An event's file is deleted only after the event was ingested or failed.
THEOREM SettledBeforeGone == Spec => []GoneOnlyWhenSettled
<1>1. SpoolInv => GoneOnlyWhenSettled
  BY DEF SpoolInv, Settled, GoneOnlyWhenSettled
<1> QED
  BY <1>1, SpoolInvariant, PTL

\* Nobody ends the job of the worker that holds its current lease generation.
THEOREM HolderKeepsJob == Spec => []LeaseHolderKeepsJob
<1>1. SpoolInv => LeaseHolderKeepsJob
  BY DEF SpoolInv, Tokens, LeaseHolderKeepsJob
<1> QED
  BY <1>1, SpoolInvariant, PTL

\* Where the retention outlasts the spool, any number of daemons, crashes and
\* replays ingest an event once.
THEOREM IngestedOnceWithoutRetention ==
    ASSUME ~Retention
    PROVE  Spec => []IngestedOnce
<1>1. SpoolInv /\ Once /\ [Next]_vars => Once'
  BY StepOnce DEF SpoolInv
<1>2. Once => IngestedOnce
  BY DEF Once, IngestedOnce
<1> QED
  BY InitInv, <1>1, <1>2, SpoolInvariant, PTL DEF Spec

\* No event of the empty spool has ended.
LEMMA InitAlone == Init => AloneInv
<1> SUFFICES ASSUME Init PROVE AloneInv
  OBVIOUS
<1>1. IsFiniteSet(Captured)
  <2>1. Captured = {}
    BY DEF Init, Captured
  <2> QED
    BY <2>1, FS_EmptySet
<1> QED
  BY <1>1, NoJobFits, SpoolAssumption DEF Init, AloneInv, Told, Scanned, Terminal

\* While one daemon drains the spool, with any crashes, replays and retention,
\* every event keeps to what its file and its job said when it ended.
THEOREM AloneInvariant ==
    ASSUME Alone
    PROVE  Spec => []AloneInv
<1>1. SpoolInv /\ AloneInv /\ [Next]_vars => AloneInv'
  BY StepAlone
<1> QED
  BY InitAlone, <1>1, SpoolInvariant, PTL DEF Spec

\* One daemon ingests no event twice, though it prunes the jobs it would know it by.
THEOREM IngestedOnceAlone ==
    ASSUME Alone
    PROVE  Spec => []IngestedOnce
<1>1. AloneInv => IngestedOnce
  BY DEF AloneInv, Told, IngestedOnce
<1> QED
  BY <1>1, AloneInvariant, PTL

\* One daemon deletes no file of an event it could not ingest.
THEOREM FailedKeptAlone ==
    ASSUME Alone
    PROVE  Spec => []FailedEventKept
<1>1. AloneInv => FailedEventKept
  BY DEF AloneInv, Told, FailedEventKept
<1> QED
  BY <1>1, AloneInvariant, PTL
=============================================================================
