---------------------------- MODULE EvaluatorRun ----------------------------
(***************************************************************************)
(* One evaluation of a candidate (internal/improvement/evaluation.go): the *)
(* external evaluator is run on the baseline and then on the candidate, in *)
(* a process tree that the handshake, the deadline and the kill of         *)
(* process_group_{unix,linux,darwin}.go are to contain.                    *)
(*                                                                         *)
(* Actors: the caller (pc), the goroutine of os/exec that watches the      *)
(* context (watcher), the bootstrap that becomes the evaluator (leader),   *)
(* and the processes it forks.                                             *)
(***************************************************************************)
EXTENDS Naturals, FiniteSets

CONSTANTS
    Member,         \* processes an evaluator may fork
    OutputLimit,    \* cappedBuffer.limit
    MaxOutput       \* bound on what a run writes

ASSUME EvaluatorAssumption == OutputLimit \in Nat /\ MaxOutput \in Nat

VARIABLES
    platform,       \* where skillloop runs
    pc, run,        \* the step of the call, and the run it is in
    leader, exit,   \* the leader process and how it ended
    contained,      \* the filter is installed: no descendant leaves the process group
    sent,           \* bytes written to the handshake pipe
    alive,          \* the descendants of each run's evaluator
    cause,          \* why runCtx is done
    watcher, once,  \* the watching goroutine; has terminate run?
    status,         \* runErr, what command.Wait returned
    written, kept, truncated,   \* output, the capped buffer
    swapped,        \* state directories that no longer stand under their names
    result, verdict,            \* what the two runs and the evaluation say
    own             \* how each evaluator ended by itself (history)

process == <<leader, exit, contained, sent, alive>>
context == <<cause, watcher, once>>
buffer == <<written, kept, truncated>>
caller == <<pc, run, status, result, verdict>>
vars == <<platform, caller, process, context, buffer, swapped, own>>

Runs == {"baseline", "candidate"}
Names == Runs \cup {"pair"}

\* A zombie still belongs to its process group, a reaped process does not.
Running == {"bootstrap", "filtered", "ready", "refused", "evaluating"}

Init ==
    /\ platform \in {"linux", "darwin"}
    /\ pc = "idle" /\ run = "baseline"
    /\ leader = "reaped" /\ exit = "none" /\ contained = FALSE /\ sent = 0
    /\ alive = [r \in Runs |-> {}]
    /\ cause = "none" /\ watcher = "off" /\ once = FALSE
    /\ status = "none"
    /\ written = 0 /\ kept = 0 /\ truncated = FALSE
    /\ swapped = {}
    /\ result = [r \in Runs |-> "none"] /\ verdict = "none"
    /\ own = [r \in Runs |-> "none"]

-----------------------------------------------------------------------------
(* The kill. *)

\* Deviation: the group kill is left to the deadline.
KillAfterWaitNever == FALSE

\* On macOS the evaluator has no descendants, and its process id is not
\* signalled once it may belong to another process.
KillAfterWait == platform = "linux"

\* killProcessGroup, killEvaluatorProcess: SIGKILL to every process of the
\* group at once.  A descendant that could leave the group may survive.
Kill ==
    /\ IF leader \in Running THEN leader' = "zombie" /\ exit' = "signal"
       ELSE UNCHANGED <<leader, exit>>
    /\ \E survivors \in SUBSET (IF contained THEN {} ELSE alive[run]) :
         alive' = [alive EXCEPT ![run] = survivors]
    /\ UNCHANGED <<contained, sent>>

\* terminate: at most one kill for each run.
Terminate ==
    /\ once' = TRUE
    /\ IF once THEN UNCHANGED process ELSE Kill

-----------------------------------------------------------------------------
(* The bootstrap, the evaluator and what it forks. *)

Leads(from) == leader = from

BootstrapFails ==
    /\ leader' = "zombie" /\ exit' = "bootstrap"
    /\ UNCHANGED <<contained, sent>>

\* Install the seccomp filter, or verify that Seatbelt denies fork.
Contain ==
    /\ Leads("bootstrap")
    /\ \/ leader' = "filtered" /\ contained' = TRUE /\ UNCHANGED <<exit, sent>>
       \/ BootstrapFails
    /\ UNCHANGED <<platform, caller, alive, context, buffer, swapped, own>>

\* signalEvaluatorContainment: enter the worktree, then the ready byte.
SignalReady ==
    /\ Leads("filtered")
    /\ \/ leader' = "ready" /\ sent' = 1 /\ UNCHANGED <<exit, contained>>
       \/ BootstrapFails
    /\ UNCHANGED <<platform, caller, alive, context, buffer, swapped, own>>

\* Deviation: a failing exec leaves no byte behind.
ExecSilently ==
    /\ Leads("ready")
    /\ \/ leader' = "evaluating"
       \/ leader' = "refused"
    /\ UNCHANGED <<platform, caller, exit, contained, sent, alive, context, buffer, swapped, own>>

\* exec closes the handshake pipe; a failing one writes a second byte.
Exec ==
    /\ Leads("ready")
    /\ \/ leader' = "evaluating" /\ UNCHANGED sent
       \/ leader' = "refused" /\ sent' = 2
    /\ UNCHANGED <<platform, caller, exit, contained, alive, context, buffer, swapped, own>>

Refuse ==
    /\ Leads("refused")
    /\ BootstrapFails
    /\ UNCHANGED <<platform, caller, alive, context, buffer, swapped, own>>

\* Some process runs the evaluator's code for run r.
Evaluating(r) == alive[r] # {} \/ (r = run /\ leader = "evaluating")

Fork(r, m) ==
    /\ platform = "linux"
    /\ Evaluating(r)
    /\ \A s \in Runs : m \notin alive[s]
    /\ alive' = [alive EXCEPT ![r] = @ \cup {m}]
    /\ UNCHANGED <<platform, caller, leader, exit, contained, sent, context, buffer, swapped, own>>

MemberExits(r, m) ==
    /\ m \in alive[r]
    /\ alive' = [alive EXCEPT ![r] = @ \ {m}]
    /\ UNCHANGED <<platform, caller, leader, exit, contained, sent, context, buffer, swapped, own>>

\* The evaluator itself decides, whatever its children still do.
EvaluatorExits ==
    /\ Leads("evaluating")
    /\ leader' = "zombie"
    /\ \E code \in {"pass", "fail"} : exit' = code /\ own' = [own EXCEPT ![run] = code]
    /\ UNCHANGED <<platform, caller, contained, sent, alive, context, buffer, swapped>>

\* A signal that skillloop did not send: out of memory, an operator.
LeaderDies ==
    /\ leader \in Running
    /\ leader' = "zombie" /\ exit' = "signal"
    /\ UNCHANGED <<platform, caller, contained, sent, alive, context, buffer, swapped, own>>

\* The evaluator's code replaces a state directory by another one.
Swap(r, name) ==
    /\ Evaluating(r)
    /\ swapped' = swapped \cup {name}
    /\ UNCHANGED <<platform, caller, process, context, buffer, own>>

\* cappedBuffer.Write
Keep(size) ==
    LET remaining == OutputLimit - kept
    IN  IF kept >= OutputLimit
        THEN truncated' = TRUE /\ UNCHANGED kept
        ELSE /\ kept' = IF size > remaining THEN OutputLimit ELSE kept + size
             /\ truncated' = (truncated \/ size > remaining)

WriteOutput(size) ==
    /\ Evaluating(run)
    /\ pc \notin {"idle", "prepare", "start", "report", "verify"}
    /\ written + size <= MaxOutput
    /\ written' = written + size
    /\ Keep(size)
    /\ UNCHANGED <<platform, caller, process, context, swapped, own>>

-----------------------------------------------------------------------------
(* The context of the run. *)

Underway == pc \notin {"idle", "prepare", "start", "verify"}

\* The timeout, or the cancellation of the caller's context.
Done(why) ==
    /\ Underway
    /\ cause = "none"
    /\ cause' = why
    /\ UNCHANGED <<platform, caller, process, watcher, once, buffer, swapped, own>>

\* Deviation: the deadline only ends the wait for the output.
InterruptWithoutKill ==
    /\ watcher = "armed" /\ cause # "none"
    /\ watcher' = "fired"
    /\ UNCHANGED <<platform, caller, process, cause, once, buffer, swapped, own>>

\* os/exec calls command.Cancel when the context is done before Wait is over.
Interrupt ==
    /\ watcher = "armed" /\ cause # "none"
    /\ watcher' = "fired"
    /\ Terminate
    /\ UNCHANGED <<platform, caller, cause, buffer, swapped, own>>

-----------------------------------------------------------------------------
(* The caller: runExactPair and runOneAt. *)

Begin ==
    /\ pc = "idle"
    /\ pc' = "prepare"
    /\ run' = "baseline"
    /\ swapped' = {}
    /\ result' = [r \in Runs |-> "none"] /\ verdict' = "none"
    /\ own' = [r \in Runs |-> "none"]
    /\ UNCHANGED <<platform, process, context, status, buffer>>

\* The deferred clean-up removes the worktrees and returns.
Return(outcome) ==
    /\ pc' = "idle"
    /\ verdict' = outcome

\* The pair directory and the two worktrees.
Prepare ==
    /\ pc = "prepare"
    /\ \/ pc' = "start" /\ UNCHANGED verdict
       \/ Return("error")
    /\ UNCHANGED <<platform, run, process, context, status, buffer, swapped, result, own>>

Start ==
    /\ pc = "start"
    /\ \/ /\ pc' = "ready"
          /\ leader' = "bootstrap" /\ exit' = "none" /\ contained' = FALSE /\ sent' = 0
          /\ cause' = "none" /\ watcher' = "armed" /\ once' = FALSE
          /\ written' = 0 /\ kept' = 0 /\ truncated' = FALSE
          /\ status' = "none"
          /\ UNCHANGED verdict
       \/ /\ Return("error")
          /\ UNCHANGED <<leader, exit, contained, sent, context, buffer, status>>
    /\ UNCHANGED <<platform, run, alive, swapped, result, own>>

\* The first read of confirmContainment: a byte, or the end of the pipe.
ReadReady ==
    /\ pc = "ready"
    /\ \/ sent >= 1 /\ pc' = "exec"
       \/ sent = 0 /\ leader \notin Running /\ pc' = "abort"
    /\ UNCHANGED <<platform, run, process, context, status, buffer, swapped, result, verdict, own>>

\* The second read: the end of the pipe, or the byte of a failing exec.
ReadExec ==
    /\ pc = "exec"
    /\ \/ sent = 2 /\ pc' = "abort"
       \/ sent = 1 /\ leader \in {"evaluating", "zombie"} /\ pc' = "wait"
    /\ UNCHANGED <<platform, run, process, context, status, buffer, swapped, result, verdict, own>>

Abort ==
    /\ pc = "abort"
    /\ Terminate
    /\ pc' = "abortWait"
    /\ UNCHANGED <<platform, run, cause, watcher, status, buffer, swapped, result, verdict, own>>

AbortWait ==
    /\ pc = "abortWait" /\ leader = "zombie"
    /\ leader' = "reaped"
    /\ watcher' = "off"
    /\ Return("error")
    /\ UNCHANGED <<platform, run, exit, contained, sent, alive, cause, once, status, buffer,
                   swapped, result, own>>

\* command.Wait reaps the leader, whatever its descendants do ...
Wait ==
    /\ pc = "wait" /\ leader = "zombie"
    /\ leader' = "reaped"
    /\ pc' = "collect"
    /\ UNCHANGED <<platform, run, exit, contained, sent, alive, context, status, buffer, swapped,
                   result, verdict, own>>

\* ... and then hears from the watcher, whose kill makes an error of success.
Collect ==
    /\ pc = "collect"
    /\ watcher' = "off"
    /\ \/ watcher = "armed" /\ status' = exit
       \/ watcher = "fired" /\ status' \in (IF exit = "pass" THEN {exit, "interrupted"} ELSE {exit})
    /\ pc' = "sweep"
    /\ UNCHANGED <<platform, run, process, cause, once, buffer, swapped, result, verdict, own>>

\* terminateAfterWait
Sweep ==
    /\ pc = "sweep"
    /\ IF KillAfterWait THEN Terminate ELSE UNCHANGED <<process, once>>
    /\ pc' = "drain"
    /\ UNCHANGED <<platform, run, cause, watcher, status, buffer, swapped, result, verdict, own>>

\* The reader ends with the last writer, or is closed after runnerWaitDelay.
Drain ==
    /\ pc = "drain"
    /\ pc' = "report"
    /\ UNCHANGED <<platform, run, process, context, status, buffer, swapped, result, verdict, own>>

\* A run without an exit code of its own is an error, or timed out.
Report ==
    /\ pc = "report"
    /\ LET timedOut == cause = "deadline"
       IN  \/ /\ status \in {"signal", "interrupted"} /\ ~timedOut
              /\ Return("error")
              /\ UNCHANGED <<run, result>>
           \/ /\ timedOut \/ status \notin {"signal", "interrupted"}
              /\ result' = [result EXCEPT ![run] =
                    IF timedOut THEN "timedOut" ELSE IF status = "pass" THEN "pass" ELSE "fail"]
              /\ pc' = IF run = "baseline" THEN "start" ELSE "verify"
              /\ run' = "candidate"
              /\ UNCHANGED verdict
    /\ UNCHANGED <<platform, process, context, status, buffer, swapped, own>>

Proves == result["baseline"] = "fail" /\ result["candidate"] = "pass"

\* verifyStateChildIdentity of the pair and of both worktrees.
Verify ==
    /\ pc = "verify"
    /\ Return(IF swapped # {} THEN "error" ELSE IF Proves THEN "proof" ELSE "noProof")
    /\ UNCHANGED <<platform, run, process, context, status, buffer, swapped, result, own>>

Caller ==
    \/ Begin \/ Prepare \/ Start \/ ReadReady \/ ReadExec \/ Abort \/ AbortWait
    \/ Wait \/ Collect \/ Sweep \/ Drain \/ Report \/ Verify

Bootstrap == Contain \/ SignalReady \/ Exec \/ Refuse

Next ==
    \/ Caller \/ Bootstrap \/ Interrupt
    \/ Done("deadline") \/ Done("cancelled")
    \/ EvaluatorExits \/ LeaderDies
    \/ \E r \in Runs :
         \/ \E m \in Member : Fork(r, m) \/ MemberExits(r, m)
         \/ \E name \in Names : Swap(r, name)
    \/ \E size \in 1..2 : WriteOutput(size)

\* The caller's goroutines run and the deadline comes; of the evaluator, and
\* of its bootstrap, nothing is assumed.
Fairness ==
    /\ WF_vars(Caller)
    /\ WF_vars(Interrupt)
    /\ WF_vars(Done("deadline"))

Spec == Init /\ [][Next]_vars /\ Fairness

-----------------------------------------------------------------------------
\* Type invariant; the buffer holds a prefix of the output and says when it is
\* a proper one.
TypeOK ==
    /\ pc \in {"idle", "prepare", "start", "ready", "exec", "abort", "abortWait", "wait",
               "collect", "sweep", "drain", "report", "verify"}
    /\ run \in Runs
    /\ leader \in Running \cup {"zombie", "reaped"}
    /\ exit \in {"none", "pass", "fail", "signal", "bootstrap"}
    /\ status \in {"none", "pass", "fail", "signal", "bootstrap", "interrupted"}
    /\ sent \in 0..2 /\ contained \in BOOLEAN /\ once \in BOOLEAN
    /\ alive \in [Runs -> SUBSET Member]
    /\ cause \in {"none", "deadline", "cancelled"}
    /\ watcher \in {"off", "armed", "fired"}
    /\ swapped \subseteq Names
    /\ result \in [Runs -> {"none", "pass", "fail", "timedOut"}]
    /\ verdict \in {"none", "error", "proof", "noProof"}
    /\ own \in [Runs -> {"none", "pass", "fail"}]
    /\ written \in 0..MaxOutput
    /\ kept = IF written > OutputLimit THEN OutputLimit ELSE written
    /\ truncated \in BOOLEAN
    /\ truncated <=> written > OutputLimit

\* No process of a run outlives it: the candidate is evaluated, and the call
\* returns, with nothing of an earlier run still at work (evaluation.go:263-265).
NoProcessOutlivesItsRun ==
    \A r \in Runs :
        Evaluating(r) => /\ run = r
                         /\ pc \notin {"idle", "prepare", "start", "drain", "report", "verify"}

\* A proof rests on two verdicts the evaluator gave by itself, in the two
\* worktrees it was given: no failure of the bootstrap, no kill and no signal
\* counts as the baseline's failure (process_group_unix.go:64-66).
ProofIsGenuine ==
    verdict = "proof" =>
        /\ own["baseline"] = "fail" /\ own["candidate"] = "pass"
        /\ swapped = {}

\* Whatever the evaluator and its descendants do, the call returns.
CallReturns == pc # "idle" ~> pc = "idle"
=============================================================================
