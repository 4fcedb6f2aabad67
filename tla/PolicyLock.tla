----------------------------- MODULE PolicyLock -----------------------------
(***************************************************************************)
(* The two advisory file locks of internal/config/policy_lock.go and the   *)
(* configuration file they protect.                                        *)
(*                                                                         *)
(* A decision (create, evaluate, approve, monitor: the callers of          *)
(* acquireCurrentPolicy) takes the gate shared, the policy lock shared,    *)
(* drops the gate, loads the file and decides.  config.Save takes the gate *)
(* exclusive, keeps it while it waits for the policy lock exclusive,       *)
(* renames the new file into place and drops both, policy lock first.      *)
(*                                                                         *)
(* Every acquisition opens a descriptor of its own and polls flock without *)
(* blocking, so a failed attempt changes nothing and is not a step here.   *)
(* The kernel drops a dead process's locks.                                *)
(***************************************************************************)
EXTENDS FiniteSets

CONSTANTS
    Proc,       \* processes and goroutines that decide or change the policy
    Policies,   \* contents of the configuration file
    NoPolicy    \* nothing loaded

ASSUME NoPolicyAssumption == NoPolicy \notin Policies

VARIABLES
    gate,       \* holders of config.yaml.policy.gate.lock
    policy,     \* holders of config.yaml.policy.lock
    config,     \* contents of config.yaml
    pc,         \* where each process is in its lock protocol
    view        \* the configuration a reader has loaded

vars == <<gate, policy, config, pc, view>>

Readers == {"readGate", "readPolicy", "readUngate", "reading", "deciding"}
Writers == {"writeGate", "writePolicy", "writing", "written", "writeUngate"}

-----------------------------------------------------------------------------
(* flock(2): shared holders or one exclusive holder. *)

Free == [shared |-> {}, exclusive |-> {}]

CanShare(lock) == lock.exclusive = {}
CanExclude(lock) == lock.exclusive = {} /\ lock.shared = {}

Share(lock, p)   == [lock EXCEPT !.shared = @ \cup {p}]
Exclude(lock, p) == [lock EXCEPT !.exclusive = @ \cup {p}]
Drop(lock, p)    == [shared |-> lock.shared \ {p}, exclusive |-> lock.exclusive \ {p}]

Goto(p, from, to) == pc[p] = from /\ pc' = [pc EXCEPT ![p] = to]

Init ==
    /\ gate = Free
    /\ policy = Free
    /\ config \in Policies
    /\ pc = [p \in Proc |-> "idle"]
    /\ view = [p \in Proc |-> NoPolicy]

-----------------------------------------------------------------------------
(* AcquirePolicyReadLock, the decision it covers, and its release. *)

StartRead(p) ==
    /\ Goto(p, "idle", "readGate")
    /\ UNCHANGED <<gate, policy, config, view>>

ReadGate(p) ==
    /\ Goto(p, "readGate", "readPolicy")
    /\ CanShare(gate)
    /\ gate' = Share(gate, p)
    /\ UNCHANGED <<policy, config, view>>

ReadPolicy(p) ==
    /\ Goto(p, "readPolicy", "readUngate")
    /\ CanShare(policy)
    /\ policy' = Share(policy, p)
    /\ UNCHANGED <<gate, config, view>>

ReadUngate(p) ==
    /\ Goto(p, "readUngate", "reading")
    /\ gate' = Drop(gate, p)
    /\ UNCHANGED <<policy, config, view>>

\* Deviation: the lock covers the load and not the decision.
LoadThenUnlock(p) ==
    /\ Goto(p, "reading", "deciding")
    /\ view' = [view EXCEPT ![p] = config]
    /\ policy' = Drop(policy, p)
    /\ UNCHANGED <<gate, config>>

\* currentSettings: the file is loaded under the lock.
Load(p) ==
    /\ Goto(p, "reading", "deciding")
    /\ view' = [view EXCEPT ![p] = config]
    /\ UNCHANGED <<gate, policy, config>>

\* The deferred unlock, after the mutation the loaded policy authorized.
ReadRelease(p) ==
    /\ Goto(p, "deciding", "idle")
    /\ policy' = Drop(policy, p)
    /\ view' = [view EXCEPT ![p] = NoPolicy]
    /\ UNCHANGED <<gate, config>>

-----------------------------------------------------------------------------
(* acquirePolicyWriteLock inside config.Save. *)

StartWrite(p) ==
    /\ Goto(p, "idle", "writeGate")
    /\ UNCHANGED <<gate, policy, config, view>>

\* Deviation: the gate is passed through and not held while waiting.
WriteGatePassed(p) ==
    /\ Goto(p, "writeGate", "writePolicy")
    /\ CanExclude(gate)
    /\ UNCHANGED <<gate, policy, config, view>>

WriteGate(p) ==
    /\ Goto(p, "writeGate", "writePolicy")
    /\ CanExclude(gate)
    /\ gate' = Exclude(gate, p)
    /\ UNCHANGED <<policy, config, view>>

WritePolicy(p) ==
    /\ Goto(p, "writePolicy", "writing")
    /\ CanExclude(policy)
    /\ policy' = Exclude(policy, p)
    /\ UNCHANGED <<gate, config, view>>

\* The rename that publishes the temporary file, or an error before it.
Replace(p) ==
    /\ Goto(p, "writing", "written")
    /\ config' \in Policies
    /\ UNCHANGED <<gate, policy, view>>

\* Deviation: the gate is opened while the policy lock is still held.
WriteReleaseGateFirst(p) ==
    /\ Goto(p, "written", "writeUngate")
    /\ gate' = Drop(gate, p)
    /\ UNCHANGED <<policy, config, view>>

WriteRelease(p) ==
    /\ Goto(p, "written", "writeUngate")
    /\ policy' = Drop(policy, p)
    /\ UNCHANGED <<gate, config, view>>

WriteUngate(p) ==
    /\ Goto(p, "writeUngate", "idle")
    /\ gate' = Drop(gate, p)
    /\ UNCHANGED <<policy, config, view>>

-----------------------------------------------------------------------------
(* A cancelled or failed acquisition and the death of the process end the  *)
(* same way: what was acquired so far is dropped.                          *)

\* Deviation: the failed second acquisition forgets the gate.
ReleaseLeaksGate(p) ==
    /\ policy' = Drop(policy, p)
    /\ pc' = [pc EXCEPT ![p] = "idle"]
    /\ view' = [view EXCEPT ![p] = NoPolicy]
    /\ UNCHANGED <<gate, config>>

Release(p) ==
    /\ gate' = Drop(gate, p)
    /\ policy' = Drop(policy, p)
    /\ pc' = [pc EXCEPT ![p] = "idle"]
    /\ view' = [view EXCEPT ![p] = NoPolicy]
    /\ UNCHANGED config

Fail(p) ==
    /\ pc[p] \in {"readGate", "readPolicy", "readUngate", "writeGate", "writePolicy"}
    /\ Release(p)

Crash(p) ==
    /\ pc[p] \in {"reading", "deciding", "writing", "written", "writeUngate"}
    /\ Release(p)

Read(p) ==
    ReadGate(p) \/ ReadPolicy(p) \/ ReadUngate(p) \/ Load(p) \/ ReadRelease(p)

Write(p) ==
    WriteGate(p) \/ WritePolicy(p) \/ Replace(p) \/ WriteRelease(p) \/ WriteUngate(p)

Next ==
    \E p \in Proc :
        \/ StartRead(p) \/ Read(p)
        \/ StartWrite(p) \/ Write(p)
        \/ Fail(p) \/ Crash(p)

\* A process that holds or waits for a lock keeps running: every decision is
\* bounded by the evaluator's timeout and every poll is retried.
Fairness == \A p \in Proc : WF_vars(Read(p)) /\ WF_vars(Write(p))

Spec == Init /\ [][Next]_vars /\ Fairness

-----------------------------------------------------------------------------
\* What flock allows: any number of shared holders or a single exclusive one.
LockTables ==
    {lock \in [shared : SUBSET Proc, exclusive : SUBSET Proc] :
        lock.exclusive # {} => /\ lock.shared = {}
                               /\ \E p \in Proc : lock.exclusive = {p}}

\* Type invariant; the lock tables of policy_lock.go are tables flock allows.
TypeOK ==
    /\ gate \in LockTables
    /\ policy \in LockTables
    /\ config \in Policies
    /\ pc \in [Proc -> {"idle"} \cup Readers \cup Writers]
    /\ view \in [Proc -> Policies \cup {NoPolicy}]

\* The policy a decision was loaded under is still the file's content for as
\* long as the decision runs: no mode change lands between the load and the
\* mutation it authorizes (policy_lock.go:20-22).
DecisionUsesCurrentPolicy ==
    \A p \in Proc : pc[p] = "deciding" => view[p] = config

\* Once a writer owns the gate no further reader obtains the policy lock: the
\* readers it waits for can only drain (policy_lock.go:49-50).
NoReaderPassesQueuedWriter ==
    [][gate.exclusive # {} => policy'.shared \subseteq policy.shared]_vars

\* A writer that owns the gate is not starved by decisions that keep arriving:
\* it publishes its file, or gives up or dies (policy_lock.go:49-50,
\* README.md:250).
QueuedWriterServed ==
    \A p \in Proc : pc[p] = "writePolicy" ~> pc[p] \in {"writing", "idle"}

\* Every lock has the owner its protocol step says it has: an acquisition that
\* fails half way, a release and a crash leave nothing locked behind them.
LockOwnership ==
    \A p \in Proc :
        /\ p \in gate.shared      <=> pc[p] \in {"readPolicy", "readUngate"}
        /\ p \in gate.exclusive   <=> pc[p] \in {"writePolicy", "writing", "written", "writeUngate"}
        /\ p \in policy.shared    <=> pc[p] \in {"readUngate", "reading", "deciding"}
        /\ p \in policy.exclusive <=> pc[p] \in {"writing", "written"}

\* A decision that has got past the gate is never blocked by a writer: it
\* holds the policy lock without waiting for anyone.
GateHolderNeverWaits ==
    \A p \in Proc : pc[p] = "readPolicy" => CanShare(policy)
=============================================================================
