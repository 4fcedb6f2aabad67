------------------------- MODULE EvaluatorRunProofs -------------------------
(***************************************************************************)
(* The safety properties of EvaluatorRun for any set of processes an       *)
(* evaluator may fork, any output limit and both platforms.  The inductive *)
(* invariant follows the process tree (who is alive, contained or killed), *)
(* the handshake (which bytes can have been sent by a leader that failed)  *)
(* and the verdicts (which exit code each result comes from).              *)
(***************************************************************************)
EXTENDS EvaluatorRun, TLAPS

\* The steps of the call at which the leader has not been reaped.
InRun == {"ready", "exec", "abort", "abortWait", "wait"}

\* Descendants belong to the run underway, to Linux and to a group they cannot
\* leave; the first kill leaves none.
TreeInv ==
    /\ platform \in {"linux", "darwin"}
    /\ leader # "reaped" <=> pc \in InRun
    /\ leader \in {"filtered", "ready", "refused", "evaluating"} => contained
    /\ \A r \in Runs : alive[r] # {} =>
          r = run /\ platform = "linux" /\ contained /\ pc \in InRun \cup {"collect", "sweep"}
    /\ once => leader \in {"zombie", "reaped"} /\ alive[run] = {}
    /\ pc = "abortWait" => once

\* One byte on the pipe is a bootstrap that has not failed: nobody who fails
\* leaves exactly one.
HandshakeInv ==
    /\ leader \in {"bootstrap", "filtered"} => sent = 0
    /\ leader \in {"ready", "evaluating"} => sent = 1
    /\ leader = "refused" => sent = 2
    /\ exit = "bootstrap" => sent # 1
    /\ leader \in Running => exit = "none"
    /\ pc \in InRun \cup {"collect"} /\ exit = "none" => leader \in Running
    /\ pc = "wait" => sent = 1 /\ leader \in {"evaluating", "zombie"}
    /\ pc = "collect" => sent = 1

\* What a run reports is how its evaluator ended by itself, or no verdict.
VerdictInv ==
    /\ pc \in InRun \cup {"collect"} /\ exit \in {"pass", "fail"} => own[run] = exit
    /\ pc \in {"sweep", "drain", "report"} =>
          /\ status \in {"pass", "fail", "signal", "interrupted"}
          /\ status \in {"pass", "fail"} => own[run] = status
    /\ \A r \in Runs : result[r] \in {"pass", "fail"} => own[r] = result[r]
    /\ pc \notin {"idle", "verify"} => result["candidate"] = "none"
    /\ pc # "idle" /\ run = "baseline" => result["baseline"] = "none"
    /\ pc = "prepare" => run = "baseline"
    /\ pc = "verify" => run = "candidate"
    /\ verdict = "proof" => pc = "idle"
    /\ ProofIsGenuine

EvaluatorInv == TypeOK /\ TreeInv /\ HandshakeInv /\ VerdictInv

\* The types hold through every step, and the buffer stays a prefix of the output.
LEMMA StepType == TypeOK /\ [Next]_vars => TypeOK'
<1> SUFFICES ASSUME TypeOK, [Next]_vars
             PROVE  TypeOK'
  OBVIOUS
<1> USE EvaluatorAssumption
<1> USE DEF TypeOK, Runs, Names, Running,
            process, context, buffer, caller
<1>1. ASSUME Begin PROVE TypeOK'
  BY <1>1 DEF Begin
<1>2. ASSUME Prepare PROVE TypeOK'
  BY <1>2 DEF Prepare, Return
<1>3. ASSUME Start PROVE TypeOK'
  <2>1. CASE pc' = "ready" /\ leader' = "bootstrap"
    <3>1. /\ written' \in 0..MaxOutput /\ ~(written' > OutputLimit)
          /\ kept' = written' /\ truncated' = FALSE
      BY <1>3, <2>1 DEF Start, Return
    <3>2. sent' \in 0..2 /\ run' \in Runs /\ alive' \in [Runs -> SUBSET Member]
          /\ swapped' \subseteq Names
      BY <1>3, <2>1 DEF Start, Return
    <3> QED BY <1>3, <2>1, <3>1, <3>2 DEF Start, Return
  <2>2. CASE Return("error")
    BY <1>3, <2>2 DEF Start, Return
  <2> QED BY <1>3, <2>1, <2>2 DEF Start
<1>4. ASSUME ReadReady PROVE TypeOK'
  BY <1>4 DEF ReadReady
<1>5. ASSUME ReadExec PROVE TypeOK'
  BY <1>5 DEF ReadExec
<1>6. ASSUME Abort PROVE TypeOK'
  BY <1>6 DEF Abort, Terminate, Kill
<1>7. ASSUME AbortWait PROVE TypeOK'
  BY <1>7 DEF AbortWait, Return
<1>8. ASSUME Wait PROVE TypeOK'
  BY <1>8 DEF Wait
<1>9. ASSUME Collect PROVE TypeOK'
  BY <1>9 DEF Collect
<1>10. ASSUME Sweep PROVE TypeOK'
  <2>1. CASE UNCHANGED <<process, once>>
    BY <1>10, <2>1 DEF Sweep
  <2>2. CASE Terminate
    BY <1>10, <2>2 DEF Sweep, Terminate, Kill
  <2> QED BY <1>10, <2>1, <2>2 DEF Sweep
<1>11. ASSUME Drain PROVE TypeOK'
  BY <1>11 DEF Drain
<1>12. ASSUME Report PROVE TypeOK'
  BY <1>12 DEF Report, Return
<1>13. ASSUME Verify PROVE TypeOK'
  BY <1>13 DEF Verify, Proves, Return
<1>14. ASSUME Contain PROVE TypeOK'
  <2>1. CASE leader' = "filtered" /\ contained' = TRUE /\ UNCHANGED <<exit, sent>>
    BY <1>14, <2>1 DEF Contain
  <2>2. CASE BootstrapFails
    BY <1>14, <2>2 DEF Contain, BootstrapFails
  <2> QED BY <1>14, <2>1, <2>2 DEF Contain
<1>15. ASSUME SignalReady PROVE TypeOK'
  BY <1>15 DEF SignalReady, Leads, BootstrapFails
<1>16. ASSUME Exec PROVE TypeOK'
  BY <1>16 DEF Exec, Leads
<1>17. ASSUME Refuse PROVE TypeOK'
  BY <1>17 DEF Refuse, Leads, BootstrapFails
<1>18. ASSUME Interrupt PROVE TypeOK'
  BY <1>18 DEF Interrupt, Terminate, Kill
<1>19. ASSUME EvaluatorExits PROVE TypeOK'
  BY <1>19 DEF EvaluatorExits, Leads
<1>20. ASSUME LeaderDies PROVE TypeOK'
  BY <1>20 DEF LeaderDies
<1>21. ASSUME NEW why \in {"deadline", "cancelled"}, Done(why) PROVE TypeOK'
  BY <1>21 DEF Done, Underway
<1>22. ASSUME NEW r \in Runs, NEW m \in Member, Fork(r, m) PROVE TypeOK'
  BY <1>22 DEF Fork, Evaluating
<1>23. ASSUME NEW r \in Runs, NEW m \in Member, MemberExits(r, m) PROVE TypeOK'
  BY <1>23 DEF MemberExits
<1>24. ASSUME NEW r \in Runs, NEW name \in Names, Swap(r, name) PROVE TypeOK'
  BY <1>24 DEF Swap, Evaluating
<1>25. ASSUME NEW size \in 1..2, WriteOutput(size) PROVE TypeOK'
  <2>1. written' \in 0..MaxOutput
    BY <1>25 DEF WriteOutput
  <2>2. /\ kept' = (IF written' > OutputLimit THEN OutputLimit ELSE written')
        /\ truncated' \in BOOLEAN
        /\ truncated' <=> written' > OutputLimit
    <3>1. /\ written \in Nat /\ size \in {1, 2} /\ OutputLimit \in Nat
          /\ written' = written + size /\ Keep(size)
      BY <1>25 DEF WriteOutput
    <3>2. CASE written < OutputLimit
      <4>1. kept = written /\ truncated = FALSE /\ ~(kept >= OutputLimit)
        BY <3>1, <3>2
      <4>2. CASE size > OutputLimit - kept
        <5>1. kept' = OutputLimit /\ truncated' = TRUE
          BY <4>1, <4>2, <3>1 DEF Keep
        <5> QED BY <3>1, <4>1, <4>2, <5>1
      <4>3. CASE ~(size > OutputLimit - kept)
        <5>1. kept' = kept + size /\ truncated' = FALSE
          BY <4>1, <4>3, <3>1 DEF Keep
        <5>2. ~(written + size > OutputLimit)
          BY <3>1, <4>1, <4>3
        <5> QED BY <3>1, <4>1, <5>1, <5>2
      <4> QED BY <4>2, <4>3
    <3>3. CASE ~(written < OutputLimit)
      <4>1. kept = OutputLimit
        BY <3>1, <3>3
      <4>2. kept' = OutputLimit /\ truncated' = TRUE
        BY <3>1, <4>1 DEF Keep
      <4> QED BY <3>1, <3>3, <4>2
    <3> QED BY <3>1, <3>2, <3>3
  <2> QED BY <1>25, <2>1, <2>2 DEF WriteOutput
<1>26. CASE UNCHANGED vars
  BY <1>26 DEF vars
<1> QED
  BY <1>1, <1>2, <1>3, <1>4, <1>5, <1>6, <1>7, <1>8, <1>9, <1>10, <1>11, <1>12, <1>13,
     <1>14, <1>15, <1>16, <1>17, <1>18, <1>19, <1>20, <1>21, <1>22, <1>23, <1>24, <1>25,
     <1>26 DEF Next, Caller, Bootstrap

\* No step lets a descendant leave the run it was forked in.
LEMMA StepTree == TypeOK /\ TreeInv /\ [Next]_vars => TreeInv'
<1> SUFFICES ASSUME TypeOK /\ TreeInv, [Next]_vars
             PROVE  TreeInv'
  OBVIOUS
<1> USE EvaluatorAssumption
<1> USE DEF TypeOK, TreeInv, InRun, Runs, Running, Terminate, Kill,
            process, context, buffer, caller
<1>1. ASSUME Begin PROVE TreeInv'
  BY <1>1 DEF Begin
<1>2. ASSUME Prepare PROVE TreeInv'
  BY <1>2 DEF Prepare, Return
<1>3. ASSUME Start PROVE TreeInv'
  BY <1>3 DEF Start, Return
<1>4. ASSUME ReadReady PROVE TreeInv'
  BY <1>4 DEF ReadReady
<1>5. ASSUME ReadExec PROVE TreeInv'
  BY <1>5 DEF ReadExec
<1>6. ASSUME Abort PROVE TreeInv'
  BY <1>6 DEF Abort
<1>7. ASSUME AbortWait PROVE TreeInv'
  BY <1>7 DEF AbortWait, Return
<1>8. ASSUME Wait PROVE TreeInv'
  BY <1>8 DEF Wait
<1>9. ASSUME Collect PROVE TreeInv'
  BY <1>9 DEF Collect
<1>10. ASSUME Sweep PROVE TreeInv'
  BY <1>10 DEF Sweep, KillAfterWait
<1>11. ASSUME Drain PROVE TreeInv'
  BY <1>11 DEF Drain
<1>12. ASSUME Report PROVE TreeInv'
  BY <1>12 DEF Report, Return
<1>13. ASSUME Verify PROVE TreeInv'
  BY <1>13 DEF Verify, Proves, Return
<1>14. ASSUME Contain PROVE TreeInv'
  BY <1>14 DEF Contain, Leads, BootstrapFails
<1>15. ASSUME SignalReady PROVE TreeInv'
  BY <1>15 DEF SignalReady, Leads, BootstrapFails
<1>16. ASSUME Exec PROVE TreeInv'
  BY <1>16 DEF Exec, Leads
<1>17. ASSUME Refuse PROVE TreeInv'
  BY <1>17 DEF Refuse, Leads, BootstrapFails
<1>18. ASSUME Interrupt PROVE TreeInv'
  BY <1>18 DEF Interrupt
<1>19. ASSUME EvaluatorExits PROVE TreeInv'
  BY <1>19 DEF EvaluatorExits, Leads
<1>20. ASSUME LeaderDies PROVE TreeInv'
  BY <1>20 DEF LeaderDies
<1>21. ASSUME NEW why \in {"deadline", "cancelled"}, Done(why) PROVE TreeInv'
  BY <1>21 DEF Done, Underway
<1>22. ASSUME NEW r \in Runs, NEW m \in Member, Fork(r, m) PROVE TreeInv'
  BY <1>22 DEF Fork, Evaluating
<1>23. ASSUME NEW r \in Runs, NEW m \in Member, MemberExits(r, m) PROVE TreeInv'
  BY <1>23 DEF MemberExits
<1>24. ASSUME NEW r \in Runs, NEW name \in Names, Swap(r, name) PROVE TreeInv'
  BY <1>24 DEF Swap, Evaluating
<1>25. ASSUME NEW size \in 1..2, WriteOutput(size) PROVE TreeInv'
  BY <1>25 DEF WriteOutput, Keep, Evaluating
<1>26. CASE UNCHANGED vars
  BY <1>26 DEF vars
<1> QED
  BY <1>1, <1>2, <1>3, <1>4, <1>5, <1>6, <1>7, <1>8, <1>9, <1>10, <1>11, <1>12, <1>13,
     <1>14, <1>15, <1>16, <1>17, <1>18, <1>19, <1>20, <1>21, <1>22, <1>23, <1>24, <1>25,
     <1>26 DEF Next, Caller, Bootstrap

\* No step of a failing leader leaves exactly one byte.
LEMMA StepHandshake == TypeOK /\ TreeInv /\ HandshakeInv /\ [Next]_vars => HandshakeInv'
<1> SUFFICES ASSUME TypeOK /\ TreeInv /\ HandshakeInv, [Next]_vars
             PROVE  HandshakeInv'
  OBVIOUS
<1> USE EvaluatorAssumption
<1> USE DEF TypeOK, HandshakeInv, TreeInv, InRun, Running, Terminate, Kill,
            process, context, buffer, caller
<1>1. ASSUME Begin PROVE HandshakeInv'
  BY <1>1 DEF Begin
<1>2. ASSUME Prepare PROVE HandshakeInv'
  BY <1>2 DEF Prepare, Return
<1>3. ASSUME Start PROVE HandshakeInv'
  BY <1>3 DEF Start, Return
<1>4. ASSUME ReadReady PROVE HandshakeInv'
  BY <1>4 DEF ReadReady
<1>5. ASSUME ReadExec PROVE HandshakeInv'
  BY <1>5 DEF ReadExec
<1>6. ASSUME Abort PROVE HandshakeInv'
  BY <1>6 DEF Abort
<1>7. ASSUME AbortWait PROVE HandshakeInv'
  BY <1>7 DEF AbortWait, Return
<1>8. ASSUME Wait PROVE HandshakeInv'
  BY <1>8 DEF Wait
<1>9. ASSUME Collect PROVE HandshakeInv'
  BY <1>9 DEF Collect
<1>10. ASSUME Sweep PROVE HandshakeInv'
  BY <1>10 DEF Sweep, KillAfterWait
<1>11. ASSUME Drain PROVE HandshakeInv'
  BY <1>11 DEF Drain
<1>12. ASSUME Report PROVE HandshakeInv'
  BY <1>12 DEF Report, Return
<1>13. ASSUME Verify PROVE HandshakeInv'
  BY <1>13 DEF Verify, Proves, Return
<1>14. ASSUME Contain PROVE HandshakeInv'
  BY <1>14 DEF Contain, Leads, BootstrapFails
<1>15. ASSUME SignalReady PROVE HandshakeInv'
  <2>1. pc # "wait"
    BY <1>15 DEF SignalReady, Leads
  <2>2. CASE leader' = "ready" /\ sent' = 1 /\ UNCHANGED <<exit, contained>>
    BY <1>15, <2>1, <2>2 DEF SignalReady, Leads
  <2>3. CASE BootstrapFails
    BY <1>15, <2>1, <2>3 DEF SignalReady, Leads, BootstrapFails
  <2> QED BY <1>15, <2>2, <2>3 DEF SignalReady
<1>16. ASSUME Exec PROVE HandshakeInv'
  BY <1>16 DEF Exec, Leads
<1>17. ASSUME Refuse PROVE HandshakeInv'
  BY <1>17 DEF Refuse, Leads, BootstrapFails
<1>18. ASSUME Interrupt PROVE HandshakeInv'
  BY <1>18 DEF Interrupt
<1>19. ASSUME EvaluatorExits PROVE HandshakeInv'
  BY <1>19 DEF EvaluatorExits, Leads
<1>20. ASSUME LeaderDies PROVE HandshakeInv'
  BY <1>20 DEF LeaderDies
<1>21. ASSUME NEW why \in {"deadline", "cancelled"}, Done(why) PROVE HandshakeInv'
  BY <1>21 DEF Done, Underway
<1>22. ASSUME NEW r \in Runs, NEW m \in Member, Fork(r, m) PROVE HandshakeInv'
  BY <1>22 DEF Fork, Evaluating
<1>23. ASSUME NEW r \in Runs, NEW m \in Member, MemberExits(r, m) PROVE HandshakeInv'
  BY <1>23 DEF MemberExits
<1>24. ASSUME NEW r \in Runs, NEW name \in Names, Swap(r, name) PROVE HandshakeInv'
  BY <1>24 DEF Swap, Evaluating
<1>25. ASSUME NEW size \in 1..2, WriteOutput(size) PROVE HandshakeInv'
  BY <1>25 DEF WriteOutput, Keep, Evaluating
<1>26. CASE UNCHANGED vars
  BY <1>26 DEF vars
<1> QED
  BY <1>1, <1>2, <1>3, <1>4, <1>5, <1>6, <1>7, <1>8, <1>9, <1>10, <1>11, <1>12, <1>13,
     <1>14, <1>15, <1>16, <1>17, <1>18, <1>19, <1>20, <1>21, <1>22, <1>23, <1>24, <1>25,
     <1>26 DEF Next, Caller, Bootstrap

\* No step makes a verdict out of anything but the evaluator's own exit.
LEMMA StepVerdict == TypeOK /\ TreeInv /\ HandshakeInv /\ VerdictInv /\ [Next]_vars => VerdictInv'
<1> SUFFICES ASSUME TypeOK /\ TreeInv /\ HandshakeInv /\ VerdictInv, [Next]_vars
             PROVE  VerdictInv'
  OBVIOUS
<1> USE EvaluatorAssumption
<1> USE DEF TypeOK, VerdictInv, TreeInv, HandshakeInv, ProofIsGenuine, InRun, Runs, Running,
            Terminate, Kill,
            process, context, buffer, caller
<1>1. ASSUME Begin PROVE VerdictInv'
  BY <1>1 DEF Begin
<1>2. ASSUME Prepare PROVE VerdictInv'
  BY <1>2 DEF Prepare, Return
<1>3. ASSUME Start PROVE VerdictInv'
  BY <1>3 DEF Start, Return
<1>4. ASSUME ReadReady PROVE VerdictInv'
  BY <1>4 DEF ReadReady
<1>5. ASSUME ReadExec PROVE VerdictInv'
  BY <1>5 DEF ReadExec
<1>6. ASSUME Abort PROVE VerdictInv'
  BY <1>6 DEF Abort
<1>7. ASSUME AbortWait PROVE VerdictInv'
  BY <1>7 DEF AbortWait, Return
<1>8. ASSUME Wait PROVE VerdictInv'
  BY <1>8 DEF Wait
<1>9. ASSUME Collect PROVE VerdictInv'
  BY <1>9 DEF Collect
<1>10. ASSUME Sweep PROVE VerdictInv'
  BY <1>10 DEF Sweep, KillAfterWait
<1>11. ASSUME Drain PROVE VerdictInv'
  BY <1>11 DEF Drain
<1>12. ASSUME Report PROVE VerdictInv'
  BY <1>12 DEF Report, Return
<1>13. ASSUME Verify PROVE VerdictInv'
  BY <1>13 DEF Verify, Proves, Return
<1>14. ASSUME Contain PROVE VerdictInv'
  BY <1>14 DEF Contain, Leads, BootstrapFails
<1>15. ASSUME SignalReady PROVE VerdictInv'
  BY <1>15 DEF SignalReady, Leads, BootstrapFails
<1>16. ASSUME Exec PROVE VerdictInv'
  BY <1>16 DEF Exec, Leads
<1>17. ASSUME Refuse PROVE VerdictInv'
  BY <1>17 DEF Refuse, Leads, BootstrapFails
<1>18. ASSUME Interrupt PROVE VerdictInv'
  BY <1>18 DEF Interrupt
<1>19. ASSUME EvaluatorExits PROVE VerdictInv'
  BY <1>19 DEF EvaluatorExits, Leads
<1>20. ASSUME LeaderDies PROVE VerdictInv'
  BY <1>20 DEF LeaderDies
<1>21. ASSUME NEW why \in {"deadline", "cancelled"}, Done(why) PROVE VerdictInv'
  BY <1>21 DEF Done, Underway
<1>22. ASSUME NEW r \in Runs, NEW m \in Member, Fork(r, m) PROVE VerdictInv'
  BY <1>22 DEF Fork, Evaluating
<1>23. ASSUME NEW r \in Runs, NEW m \in Member, MemberExits(r, m) PROVE VerdictInv'
  BY <1>23 DEF MemberExits
<1>24. ASSUME NEW r \in Runs, NEW name \in Names, Swap(r, name) PROVE VerdictInv'
  BY <1>24 DEF Swap, Evaluating
<1>25. ASSUME NEW size \in 1..2, WriteOutput(size) PROVE VerdictInv'
  BY <1>25 DEF WriteOutput, Keep, Evaluating
<1>26. CASE UNCHANGED vars
  BY <1>26 DEF vars
<1> QED
  BY <1>1, <1>2, <1>3, <1>4, <1>5, <1>6, <1>7, <1>8, <1>9, <1>10, <1>11, <1>12, <1>13,
     <1>14, <1>15, <1>16, <1>17, <1>18, <1>19, <1>20, <1>21, <1>22, <1>23, <1>24, <1>25,
     <1>26 DEF Next, Caller, Bootstrap

-----------------------------------------------------------------------------
(* The theorems. *)

\* Before the first evaluation nothing runs.
LEMMA InitInv == Init => EvaluatorInv
<1> SUFFICES ASSUME Init
             PROVE  EvaluatorInv
  OBVIOUS
<1>1. TypeOK
  <2>1. 0 \in 0..MaxOutput /\ ~(0 > OutputLimit)
    BY EvaluatorAssumption
  <2>2. /\ alive \in [Runs -> SUBSET Member]
        /\ result \in [Runs -> {"none", "pass", "fail", "timedOut"}]
        /\ own \in [Runs -> {"none", "pass", "fail"}]
    BY DEF Init
  <2>3. written \in 0..MaxOutput /\ ~(written > OutputLimit) /\ kept = written
        /\ truncated = FALSE
    BY <2>1 DEF Init
  <2>4. /\ pc = "idle" /\ run \in Runs /\ leader = "reaped" /\ exit = "none"
        /\ contained = FALSE /\ once = FALSE /\ sent \in 0..2 /\ cause = "none"
        /\ watcher = "off" /\ status = "none" /\ verdict = "none" /\ swapped \subseteq Names
    BY DEF Init, Runs
  <2> QED BY <2>2, <2>3, <2>4 DEF TypeOK
<1>2. TreeInv
  BY DEF Init, TreeInv, InRun, Runs
<1>3. HandshakeInv
  BY DEF Init, HandshakeInv, InRun, Running
<1>4. VerdictInv
  BY DEF Init, VerdictInv, ProofIsGenuine, InRun, Runs
<1> QED BY <1>1, <1>2, <1>3, <1>4 DEF EvaluatorInv

\* No evaluator, no deadline and no signal takes an evaluation out of the
\* inductive invariant.
THEOREM EvaluatorInvariant == Spec => []EvaluatorInv
<1>1. EvaluatorInv /\ [Next]_vars => EvaluatorInv'
  BY StepType, StepTree, StepHandshake, StepVerdict DEF EvaluatorInv
<1> QED BY InitInv, <1>1, PTL DEF Spec

\* The type invariant, and with it: the capped buffer holds a prefix of the
\* output and says when it is a proper one (evaluation.go, cappedBuffer.Write).
THEOREM TypeCorrect == Spec => []TypeOK
<1>1. EvaluatorInv => TypeOK
  BY DEF EvaluatorInv
<1> QED BY <1>1, EvaluatorInvariant, PTL

\* However many processes an evaluator forks and whenever it ends, none of them
\* is at work when the next run starts or the call returns.
THEOREM ProcessesContained == Spec => []NoProcessOutlivesItsRun
<1>1. EvaluatorInv => NoProcessOutlivesItsRun
  BY DEF EvaluatorInv, TypeOK, TreeInv, InRun, Runs, Running, Evaluating,
         NoProcessOutlivesItsRun
<1> QED BY <1>1, EvaluatorInvariant, PTL

\* A proof of improvement is never made of a kill, a signal or a bootstrap that
\* failed.
THEOREM ProofGenuine == Spec => []ProofIsGenuine
<1>1. EvaluatorInv => ProofIsGenuine
  BY DEF EvaluatorInv, VerdictInv
<1> QED BY <1>1, EvaluatorInvariant, PTL
=============================================================================
