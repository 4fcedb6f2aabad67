-------------------------- MODULE PolicyLockProofs --------------------------
(***************************************************************************)
(* The safety properties of PolicyLock for any set of processes and any    *)
(* set of policies.  The inductive invariant is the type invariant, the    *)
(* ownership of every lock by the protocol step that took it, and the      *)
(* agreement of a deciding reader with the file.                           *)
(***************************************************************************)
EXTENDS PolicyLock, TLAPS

PolicyInv == TypeOK /\ LockOwnership /\ DecisionUsesCurrentPolicy

\* Dropping a process from a table flock allows leaves one flock allows, and
\* removes that process and no other (the unlock closures, policy_lock.go:122-129).
LEMMA DropTable ==
    ASSUME NEW lock \in LockTables, NEW p \in Proc
    PROVE  /\ Drop(lock, p) \in LockTables
           /\ Drop(lock, p).shared = lock.shared \ {p}
           /\ Drop(lock, p).exclusive = lock.exclusive \ {p}
<1>1. lock.shared \in SUBSET Proc /\ lock.exclusive \in SUBSET Proc
  BY DEF LockTables
<1>2. Drop(lock, p) \in [shared : SUBSET Proc, exclusive : SUBSET Proc]
  BY <1>1 DEF Drop
<1>3. ASSUME Drop(lock, p).exclusive # {}
      PROVE  /\ Drop(lock, p).shared = {}
             /\ \E q \in Proc : Drop(lock, p).exclusive = {q}
  BY <1>3 DEF Drop, LockTables
<1> QED BY <1>2, <1>3 DEF LockTables, Drop

\* A granted shared request keeps the table one flock allows.
LEMMA ShareTable ==
    ASSUME NEW lock \in LockTables, NEW p \in Proc, CanShare(lock)
    PROVE  /\ Share(lock, p) \in LockTables
           /\ Share(lock, p).shared = lock.shared \cup {p}
           /\ Share(lock, p).exclusive = {}
  BY DEF Share, CanShare, LockTables

\* A granted exclusive request keeps the table one flock allows.
LEMMA ExcludeTable ==
    ASSUME NEW lock \in LockTables, NEW p \in Proc, CanExclude(lock)
    PROVE  /\ Exclude(lock, p) \in LockTables
           /\ Exclude(lock, p).shared = {}
           /\ Exclude(lock, p).exclusive = {p}
  BY DEF Exclude, CanExclude, LockTables

\* The invariant holds when no process has asked for a lock yet.
LEMMA InitInv == Init => PolicyInv
  BY DEF Init, PolicyInv, TypeOK, LockTables, LockOwnership,
         DecisionUsesCurrentPolicy, Free, Readers, Writers

\* Every step of every process keeps it: one step of the proof per action.
LEMMA StepInv == PolicyInv /\ [Next]_vars => PolicyInv'
<1> SUFFICES ASSUME PolicyInv, [Next]_vars
             PROVE  PolicyInv'
  OBVIOUS
<1> USE DEF PolicyInv, TypeOK, LockOwnership, DecisionUsesCurrentPolicy,
            Readers, Writers, Goto
<1>1. ASSUME NEW p \in Proc, StartRead(p) PROVE PolicyInv'
  BY <1>1 DEF StartRead
<1>2. ASSUME NEW p \in Proc, ReadGate(p) PROVE PolicyInv'
  <2>1. gate' \in LockTables /\ gate'.shared = gate.shared \cup {p}
        /\ gate'.exclusive = {} /\ gate.exclusive = {}
    BY <1>2, ShareTable DEF ReadGate, CanShare
  <2> QED BY <1>2, <2>1 DEF ReadGate
<1>3. ASSUME NEW p \in Proc, ReadPolicy(p) PROVE PolicyInv'
  <2>1. policy' \in LockTables /\ policy'.shared = policy.shared \cup {p}
        /\ policy'.exclusive = {} /\ policy.exclusive = {}
    BY <1>3, ShareTable DEF ReadPolicy, CanShare
  <2> QED BY <1>3, <2>1 DEF ReadPolicy
<1>4. ASSUME NEW p \in Proc, ReadUngate(p) PROVE PolicyInv'
  BY <1>4, DropTable DEF ReadUngate
<1>5. ASSUME NEW p \in Proc, Load(p) PROVE PolicyInv'
  BY <1>5 DEF Load
<1>6. ASSUME NEW p \in Proc, ReadRelease(p) PROVE PolicyInv'
  BY <1>6, DropTable DEF ReadRelease
<1>7. ASSUME NEW p \in Proc, StartWrite(p) PROVE PolicyInv'
  BY <1>7 DEF StartWrite
<1>8. ASSUME NEW p \in Proc, WriteGate(p) PROVE PolicyInv'
  <2>1. gate' \in LockTables /\ gate'.shared = {} /\ gate.shared = {}
        /\ gate'.exclusive = {p} /\ gate.exclusive = {}
    BY <1>8, ExcludeTable DEF WriteGate, CanExclude
  <2> QED BY <1>8, <2>1 DEF WriteGate
<1>9. ASSUME NEW p \in Proc, WritePolicy(p) PROVE PolicyInv'
  <2>1. policy' \in LockTables /\ policy'.shared = {} /\ policy.shared = {}
        /\ policy'.exclusive = {p} /\ policy.exclusive = {}
    BY <1>9, ExcludeTable DEF WritePolicy, CanExclude
  <2> QED BY <1>9, <2>1 DEF WritePolicy
<1>10. ASSUME NEW p \in Proc, Replace(p) PROVE PolicyInv'
  \* The writer's exclusive hold leaves no reader deciding.
  <2>1. policy.shared = {}
    BY <1>10 DEF Replace, LockTables
  <2>2. \A q \in Proc : pc'[q] # "deciding"
    BY <1>10, <2>1 DEF Replace
  <2> QED BY <1>10, <2>2 DEF Replace
<1>11. ASSUME NEW p \in Proc, WriteRelease(p) PROVE PolicyInv'
  BY <1>11, DropTable DEF WriteRelease
<1>12. ASSUME NEW p \in Proc, WriteUngate(p) PROVE PolicyInv'
  BY <1>12, DropTable DEF WriteUngate
<1>13. ASSUME NEW p \in Proc, Release(p) PROVE PolicyInv'
  BY <1>13, DropTable DEF Release
<1>14. CASE UNCHANGED vars
  BY <1>14 DEF vars
<1> QED
  BY <1>1, <1>2, <1>3, <1>4, <1>5, <1>6, <1>7, <1>8, <1>9, <1>10, <1>11,
     <1>12, <1>13, <1>14 DEF Next, Read, Write, Fail, Crash

\* No schedule, crash or failed acquisition takes the lock protocol out of the
\* inductive invariant.
THEOREM PolicyInvariant == Spec => []PolicyInv
  BY InitInv, StepInv, PTL DEF Spec

\* The type invariant, for any number of processes.
THEOREM TypeCorrect == Spec => []TypeOK
<1>1. PolicyInv => TypeOK
  BY DEF PolicyInv
<1> QED BY <1>1, PolicyInvariant, PTL

\* No lock outlives the protocol step that took it.
THEOREM OwnershipCorrect == Spec => []LockOwnership
<1>1. PolicyInv => LockOwnership
  BY DEF PolicyInv
<1> QED BY <1>1, PolicyInvariant, PTL

\* No decision runs on a policy that a config writer has since replaced.
THEOREM DecisionCurrent == Spec => []DecisionUsesCurrentPolicy
<1>1. PolicyInv => DecisionUsesCurrentPolicy
  BY DEF PolicyInv
<1> QED BY <1>1, PolicyInvariant, PTL

\* A reader that has passed the gate takes the policy lock at once: whoever
\* holds that lock exclusive would hold the gate exclusive too.
THEOREM GateHolderFree == Spec => []GateHolderNeverWaits
<1>1. PolicyInv => GateHolderNeverWaits
  <2> SUFFICES ASSUME PolicyInv, NEW p \in Proc, pc[p] = "readPolicy",
                      policy.exclusive # {}
               PROVE  FALSE
    BY DEF GateHolderNeverWaits, CanShare
  <2>1. p \in gate.shared
    BY DEF PolicyInv, LockOwnership
  <2>2. PICK q \in Proc : policy.exclusive = {q}
    BY DEF PolicyInv, TypeOK, LockTables
  <2>3. q \in gate.exclusive
    BY <2>2 DEF PolicyInv, LockOwnership
  <2> QED BY <2>1, <2>3 DEF PolicyInv, TypeOK, LockTables
<1> QED BY <1>1, PolicyInvariant, PTL

\* A writer that owns the gate sees the readers it waits for only drain.
THEOREM NoReaderPasses == Spec => NoReaderPassesQueuedWriter
<1>1. PolicyInv /\ [Next]_vars
      => [gate.exclusive # {} => policy'.shared \subseteq policy.shared]_vars
  <2> SUFFICES ASSUME PolicyInv, Next, gate.exclusive # {}
               PROVE  policy'.shared \subseteq policy.shared
    OBVIOUS
  <2>1. ASSUME NEW p \in Proc, ReadPolicy(p) PROVE FALSE
    \* It would hold the gate shared beside the writer.
    BY <2>1 DEF ReadPolicy, Goto, PolicyInv, LockOwnership, TypeOK, LockTables
  <2>2. ASSUME NEW p \in Proc, WritePolicy(p)
        PROVE  policy'.shared \subseteq policy.shared
    <3>1. policy \in LockTables /\ CanExclude(policy) /\ policy' = Exclude(policy, p)
      BY <2>2 DEF WritePolicy, PolicyInv, TypeOK
    <3> QED BY <3>1, ExcludeTable
  <2>3. ASSUME NEW p \in Proc, policy' = policy \/ policy' = Drop(policy, p)
        PROVE  policy'.shared \subseteq policy.shared
    BY <2>3, DropTable DEF PolicyInv, TypeOK
  <2> QED
    BY <2>1, <2>2, <2>3
       DEF Next, Read, Write, Fail, Crash, Release, StartRead, ReadGate, ReadUngate,
           Load, ReadRelease, StartWrite, WriteGate, Replace, WriteRelease, WriteUngate
<1> QED BY <1>1, PolicyInvariant, PTL DEF Spec, NoReaderPassesQueuedWriter
=============================================================================
