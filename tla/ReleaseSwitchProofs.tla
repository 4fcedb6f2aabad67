------------------------ MODULE ReleaseSwitchProofs ------------------------
(***************************************************************************)
(* ReleaseSwitch implements ReleasePair for any set of processes,          *)
(* revisions and candidates, when the fsync that follows the journal's     *)
(* unlink does not fail.  The inductive invariant says what the journal    *)
(* and the links hold at every step of the lock holder.                    *)
(***************************************************************************)
EXTENDS ReleaseSwitch, TLAPS

\* Why the running operation may install its target over the pair it found.
Authorized(p, found) ==
    \/ /\ op[p].kind = "promote"
       /\ found.current \in {None, op[p].pair.previous}
    \/ /\ op[p].kind \in {"rollback", "rollback expected"}
       /\ found.current # None
       /\ found.previous # None
       /\ found.current # found.previous

\* What the lock holder knows at each of its steps.
StepKnows(p) ==
    /\ pc[p] \in {"decide", "materialize", "writeJournal"} => ~journal.exists
    /\ pc[p] \in {"materialize", "writeJournal"} => Authorized(p, links)
    /\ pc[p] = "materialize" => op[p].kind = "promote"
    /\ pc[p] = "writeJournal" /\ op[p].kind = "promote" => Complete(op[p].pair)
    /\ pc[p] \in Restoring \cup Switching => journal.exists /\ undo[p] = journal.pair
    /\ pc[p] \in {"restoreCurrent", "restoreJournal"} => links.previous = undo[p].previous
    /\ pc[p] = "restoreJournal" => links.current = undo[p].current
    /\ pc[p] \in Switching => Authorized(p, undo[p]) /\ Complete(Target(p))
    /\ pc[p] \in {"switchCurrent", "commit"} => links.previous = Target(p).previous
    /\ pc[p] = "commit" => links.current = Target(p).current

SwitchInv ==
    /\ TypeOK
    /\ RollbackTargetExists
    /\ \A p \in Proc : StepKnows(p)

\* The two fields of a request.
LEMMA RequestFields ==
    ASSUME NEW kind, NEW pair
    PROVE  Request(kind, pair).kind = kind /\ Request(kind, pair).pair = pair
  BY DEF Request

\* What the requests of Promote carry: two different revisions (release.go:88-92).
LEMMA PromoteRequest ==
    ASSUME NEW o \in Requests \cup {NoOp}, o.kind = "promote"
    PROVE  /\ \E c \in Candidates : o.pair = PairOf(c)
           /\ o.pair \in Pairs
           /\ o.pair.previous \in Commit
           /\ o.pair.current \in Commit
           /\ o.pair.previous # o.pair.current
<1>1. PICK c \in Candidates : o.pair = PairOf(c)
  <2>1. o # NoOp
    BY DEF NoOp
  <2>2. o \notin {Request("rollback", NoPair), Request("read", NoPair)}
    BY DEF Request
  <2>3. \A c \in Candidates : o # Request("rollback expected", PairOf(c))
    <3> TAKE c \in Candidates
    <3>1. Request("rollback expected", PairOf(c)).kind = "rollback expected"
      BY RequestFields
    <3> QED BY <3>1
  <2>4. PICK c \in Candidates : o = Request("promote", PairOf(c))
    BY <2>1, <2>2, <2>3 DEF Requests
  <2> QED BY <2>4 DEF Request
<1>2. c[1] \in Commit /\ c[2] \in Commit /\ c[1] # c[2]
  BY CandidatesAssumption
<1> QED BY <1>1, <1>2 DEF PairOf, Pairs

\* One link moves and the other stays (atomicSymlinkAt, release.go:710-735).
LEMMA SetPrevious ==
    ASSUME links \in Pairs, NEW t \in Commit \cup {None}, SetLink("previous", t)
    PROVE  /\ links' \in Pairs
           /\ links'.previous = t
           /\ links'.current = links.current
  BY DEF SetLink, Pairs

\* As SetPrevious, for the other link.
LEMMA SetCurrent ==
    ASSUME links \in Pairs, NEW t \in Commit \cup {None}, SetLink("current", t)
    PROVE  /\ links' \in Pairs
           /\ links'.current = t
           /\ links'.previous = links.previous
  BY DEF SetLink, Pairs

\* An empty release root satisfies the invariant.
LEMMA InitSwitchInv == Init => SwitchInv
  BY CandidatesAssumption
     DEF Init, SwitchInv, TypeOK, RollbackTargetExists, StablePair, Complete, StepKnows,
         NoJournal, NoPair, Pairs, Restoring, Switching, Deciding

-----------------------------------------------------------------------------
(* Type correctness, for every fault the model allows. *)

\* Leaving an operation keeps the lock and the program counters in step.
LEMMA LeaveType ==
    ASSUME TypeOK, NEW p \in Proc, pc[p] # "idle", Leave(p)
    PROVE  /\ owner' \in Proc \cup {None}
           /\ pc' \in [Proc -> {"idle", "recover"} \cup Restoring \cup Deciding \cup Switching]
           /\ op' \in [Proc -> Requests \cup {NoOp}]
           /\ undo' \in [Proc -> Pairs]
           /\ \A q \in Proc : owner' = q <=> pc'[q] # "idle"
  BY CandidatesAssumption DEF TypeOK, Leave, Pairs, NoPair

\* So does moving to another step of the same operation.
LEMMA GotoType ==
    ASSUME TypeOK, NEW p \in Proc, pc[p] # "idle",
           NEW step \in {"recover"} \cup Restoring \cup Deciding \cup Switching,
           Goto(p, step) \/ GiveUp(p, step)
    PROVE  /\ owner' \in Proc \cup {None}
           /\ pc' \in [Proc -> {"idle", "recover"} \cup Restoring \cup Deciding \cup Switching]
           /\ op' \in [Proc -> Requests \cup {NoOp}]
           /\ \A q \in Proc : owner' = q <=> pc'[q] # "idle"
<1>1. step # "idle"
  BY DEF Restoring, Deciding, Switching
<1> QED BY <1>1 DEF TypeOK, Goto, GiveUp

\* A link operation, done or failed, leaves two links.
LEMMA LinkType ==
    ASSUME links \in Pairs, NEW t \in Commit \cup {None}, NEW name \in {"previous", "current"},
           SetLink(name, t) \/ LinkFails(name, t)
    PROVE  links' \in Pairs
<1>1. CASE UNCHANGED links
  BY <1>1
<1>2. CASE SetLink(name, t)
  BY <1>2, SetPrevious, SetCurrent
<1> QED BY <1>1, <1>2 DEF LinkFails

\* The members of a pair are revisions or absent.
LEMMA PairMembers ==
    ASSUME NEW pair \in Pairs
    PROVE  /\ pair["previous"] = pair.previous /\ pair.previous \in Commit \cup {None}
           /\ pair["current"] = pair.current /\ pair.current \in Commit \cup {None}
  BY DEF Pairs

\* A request carries a pair, and so does what an operation installs.
LEMMA OpPair ==
    ASSUME TypeOK, NEW p \in Proc
    PROVE  op[p].pair \in Pairs /\ Target(p) \in Pairs /\ undo[p] \in Pairs
<1>1. \A c \in Candidates : PairOf(c) \in Pairs
  BY CandidatesAssumption DEF PairOf, Pairs
<1>2. NoPair \in Pairs
  BY DEF NoPair, Pairs
<1>3. op[p].pair \in Pairs
  <2>1. op[p] \in Requests \cup {NoOp}
    BY DEF TypeOK
  <2>2. CASE op[p] = NoOp
    BY <2>2, <1>2 DEF NoOp
  <2>3. ASSUME NEW c \in Candidates,
               op[p] \in {Request("promote", PairOf(c)), Request("rollback expected", PairOf(c))}
        PROVE  op[p].pair \in Pairs
    <3>1. Request("promote", PairOf(c)).pair = PairOf(c)
      BY RequestFields
    <3>2. Request("rollback expected", PairOf(c)).pair = PairOf(c)
      BY RequestFields
    <3> QED BY <2>3, <3>1, <3>2, <1>1
  <2>4. CASE op[p] \in {Request("rollback", NoPair), Request("read", NoPair)}
    BY <2>4, <1>2 DEF Request
  <2> QED BY <2>1, <2>2, <2>3, <2>4 DEF Requests
<1>4. undo[p] \in Pairs
  BY DEF TypeOK
<1> QED BY <1>3, <1>4 DEF Target, Pairs

\* Every step of every process keeps the types, under every fault.
LEMMA TypeStep == TypeOK /\ [Next]_vars => TypeOK'
<1> SUFFICES ASSUME TypeOK, [Next]_vars
             PROVE  TypeOK'
  OBVIOUS
<1> DEFINE LockType ==
      /\ owner \in Proc \cup {None}
      /\ pc \in [Proc -> {"idle", "recover"} \cup Restoring \cup Deciding \cup Switching]
      /\ op \in [Proc -> Requests \cup {NoOp}]
      /\ \A p \in Proc : owner = p <=> pc[p] # "idle"
    LinkTypes ==
      /\ links \in Pairs
      /\ journal \in [exists : BOOLEAN, pair : Pairs]
      /\ releases \subseteq Commit
      /\ undo \in [Proc -> Pairs]
<1>0. /\ LockType /\ LinkTypes
      /\ (LockType' /\ LinkTypes' => TypeOK')
  BY DEF TypeOK
<1>1. ASSUME NEW p \in Proc, pc[p] # "idle", Leave(p)
      PROVE  LockType' /\ undo' \in [Proc -> Pairs]
  BY <1>1, LeaveType
<1>2. ASSUME NEW p \in Proc, pc[p] # "idle",
             NEW step \in {"recover"} \cup Restoring \cup Deciding \cup Switching,
             Goto(p, step) \/ GiveUp(p, step)
      PROVE  LockType'
  BY <1>2, GotoType
<1>3. NoJournal \in [exists : BOOLEAN, pair : Pairs]
  BY DEF NoJournal, NoPair, Pairs
<1> HIDE DEF LockType
<1> USE DEF Restoring, Deciding, Switching
<1>4. ASSUME NEW p \in Proc, NEW request \in Requests, Acquire(p, request) PROVE TypeOK'
  <2>1. LockType'
    BY <1>0, <1>4, CandidatesAssumption DEF Acquire, LockType
  <2> QED BY <1>0, <1>4, <2>1 DEF Acquire
<1>5. ASSUME NEW p \in Proc, ReadJournal(p) PROVE TypeOK'
  <2>1. LockType'
    BY <1>5, <1>1, <1>2 DEF ReadJournal
  <2>2. undo' \in [Proc -> Pairs]
    BY <1>0, <1>5, <1>1 DEF ReadJournal
  <2> QED BY <1>0, <1>5, <2>1, <2>2 DEF ReadJournal
<1>6. ASSUME NEW p \in Proc, RestorePrevious(p) \/ RestoreCurrent(p) PROVE TypeOK'
  <2>1. PICK from \in Restoring, name \in {"previous", "current"}, to \in Restoring :
            from # "idle" /\ RestoreLink(p, from, name, to)
    BY <1>6 DEF RestorePrevious, RestoreCurrent
  <2>2. undo[p][name] \in Commit \cup {None}
    BY <1>0, OpPair, PairMembers
  <2>3. links' \in Pairs
    BY <1>0, <2>1, <2>2, LinkType DEF RestoreLink
  <2>4. LockType'
    BY <2>1, <1>1, <1>2 DEF RestoreLink
  <2>5. undo' \in [Proc -> Pairs]
    BY <1>0, <2>1, <1>1 DEF RestoreLink
  <2> QED BY <1>0, <2>1, <2>3, <2>4, <2>5 DEF RestoreLink
<1>7. ASSUME NEW p \in Proc, RestoreJournal(p) PROVE TypeOK'
  <2>1. LockType'
    BY <1>7, <1>1, <1>2 DEF RestoreJournal
  <2>2. undo' \in [Proc -> Pairs]
    BY <1>0, <1>7, <1>1 DEF RestoreJournal
  <2> QED BY <1>0, <1>3, <1>7, <2>1, <2>2 DEF RestoreJournal
<1>8. ASSUME NEW p \in Proc, Decide(p) PROVE TypeOK'
  <2>1. LockType'
    BY <1>8, <1>1, <1>2 DEF Decide
  <2>2. undo' \in [Proc -> Pairs]
    BY <1>0, <1>8, <1>1 DEF Decide
  <2> QED BY <1>0, <1>8, <2>1, <2>2 DEF Decide
<1>9. ASSUME NEW p \in Proc, Materialize(p) PROVE TypeOK'
  <2>1. LockType'
    BY <1>9, <1>1, <1>2 DEF Materialize
  <2>2. undo' \in [Proc -> Pairs]
    BY <1>0, <1>9, <1>1 DEF Materialize
  <2>3. op[p].pair.previous \in Commit /\ op[p].pair.current \in Commit
    BY <1>0, <1>9, PromoteRequest DEF LockType, Materialize
  <2> QED BY <1>0, <1>9, <2>1, <2>2, <2>3 DEF Materialize
<1>10. ASSUME NEW p \in Proc, WriteJournal(p) PROVE TypeOK'
  <2>1. LockType'
    BY <1>10, <1>1, <1>2 DEF WriteJournal
  <2>2. undo' \in [Proc -> Pairs]
    BY <1>0, <1>10, <1>1 DEF WriteJournal
  <2>3. [exists |-> TRUE, pair |-> links] \in [exists : BOOLEAN, pair : Pairs]
    BY <1>0
  <2>4. journal' \in [exists : BOOLEAN, pair : Pairs]
    BY <1>0, <1>10, <2>3 DEF WriteJournal
  <2> QED BY <1>0, <1>10, <2>1, <2>2, <2>4 DEF WriteJournal
<1>11. ASSUME NEW p \in Proc, SwitchPrevious(p) \/ SwitchCurrent(p) PROVE TypeOK'
  <2>1. PICK from \in Switching, name \in {"previous", "current"}, to \in Switching :
            from # "idle" /\ SwitchLink(p, from, name, to)
    BY <1>11 DEF SwitchPrevious, SwitchCurrent
  <2>2. Target(p)[name] \in Commit \cup {None}
    BY <1>0, OpPair, PairMembers
  <2>3. links' \in Pairs
    BY <1>0, <2>1, <2>2, LinkType DEF SwitchLink
  <2>4. LockType'
    BY <2>1, <1>2 DEF SwitchLink
  <2> QED BY <1>0, <2>1, <2>3, <2>4 DEF SwitchLink, GiveUp
<1>12. ASSUME NEW p \in Proc, CommitSwitch(p) PROVE TypeOK'
  <2>1. LockType'
    BY <1>12, <1>1, <1>2 DEF CommitSwitch
  <2>2. undo' \in [Proc -> Pairs]
    BY <1>0, <1>12, <1>1 DEF CommitSwitch, GiveUp
  <2> QED BY <1>0, <1>3, <1>12, <2>1, <2>2 DEF CommitSwitch
<1>13. ASSUME NEW p \in Proc, Crash(p) PROVE TypeOK'
  <2>1. LockType' /\ undo' \in [Proc -> Pairs]
    BY <1>13, <1>1 DEF Crash
  <2> QED BY <1>0, <1>13, <2>1 DEF Crash
<1>14. CASE UNCHANGED vars
  BY <1>0, <1>14 DEF vars, LockType
<1> QED
  BY <1>4, <1>5, <1>6, <1>7, <1>8, <1>9, <1>10, <1>11, <1>12, <1>13, <1>14 DEF Next, Step

\* Every reachable state is well typed, whatever fails and whoever crashes: in
\* particular no process is inside an operation without the lock, and none has
\* left one with it (release.go:371-458).
THEOREM TypeCorrect == Spec => []TypeOK
<1>1. Init => TypeOK
  BY InitSwitchInv DEF SwitchInv
<1> QED BY <1>1, TypeStep, PTL DEF Spec

-----------------------------------------------------------------------------
(* Who is at work: the lock holder alone. *)

\* Nothing is asked of a process that is outside every operation.
LEMMA IdleKnows ==
    ASSUME NEW q \in Proc, pc'[q] = "idle"
    PROVE  StepKnows(q)' /\ ~(pc'[q] \in Deciding)
  BY DEF StepKnows, Restoring, Switching, Deciding

\* While one process takes a step every other one is idle.
LEMMA OthersIdle ==
    ASSUME TypeOK, TypeOK', NEW p \in Proc, NEW q \in Proc, q # p,
           pc[p] # "idle" \/ owner = None, pc'[p] # "idle" \/ owner' = None
    PROVE  pc[q] = "idle" /\ pc'[q] = "idle"
  BY CandidatesAssumption DEF TypeOK

\* The lock is held by the one process whose step it is, or by nobody.
LEMMA ActorOwns ==
    ASSUME TypeOK, [Next]_vars, ~UNCHANGED vars
    PROVE  \E p \in Proc :
              /\ Step(p)
              /\ \A q \in Proc : q # p => pc[q] = "idle" /\ pc'[q] = "idle"
<1>1. PICK p \in Proc : Step(p)
  BY DEF Next
<1>2. TypeOK'
  BY TypeStep
<1>4. /\ pc[p] # "idle" \/ owner = None
      /\ pc'[p] # "idle" \/ owner' = None
  <2>1. CASE \E request \in Requests : Acquire(p, request)
    BY <2>1 DEF Acquire, TypeOK
  <2>2. CASE \/ ReadJournal(p) \/ RestorePrevious(p) \/ RestoreCurrent(p) \/ RestoreJournal(p)
             \/ SwitchPrevious(p) \/ SwitchCurrent(p)
    BY <2>2 DEF ReadJournal, RestorePrevious, RestoreCurrent, RestoreJournal, RestoreLink,
                SwitchPrevious, SwitchCurrent, SwitchLink, Goto, GiveUp, Leave, TypeOK
  <2>3. CASE Decide(p) \/ Materialize(p) \/ WriteJournal(p) \/ CommitSwitch(p) \/ Crash(p)
    BY <2>3 DEF Decide, Materialize, WriteJournal, CommitSwitch, Crash, Goto, GiveUp, Leave, TypeOK
  <2> QED BY <1>1, <2>1, <2>2, <2>3 DEF Step
<1>5. ASSUME NEW q \in Proc, q # p PROVE pc[q] = "idle" /\ pc'[q] = "idle"
  BY <1>2, <1>4, <1>5, OthersIdle
<1> QED BY <1>1, <1>5

\* No guard of Promote, Rollback or CurrentRelease is evaluated on a half
\* switched pair, under every fault the model allows.
THEOREM SettledCorrect == Spec => []DecidesOnSettledPair
<1>1. Init => DecidesOnSettledPair
  BY DEF Init, DecidesOnSettledPair, Deciding
<1>2. TypeOK /\ DecidesOnSettledPair /\ [Next]_vars => DecidesOnSettledPair'
  <2> SUFFICES ASSUME TypeOK, DecidesOnSettledPair, [Next]_vars
               PROVE  DecidesOnSettledPair'
    OBVIOUS
  <2>1. CASE UNCHANGED vars
    BY <2>1 DEF vars, DecidesOnSettledPair
  <2>2. CASE ~UNCHANGED vars
    <3>1. PICK p \in Proc :
              /\ Step(p)
              /\ \A q \in Proc : q # p => pc[q] = "idle" /\ pc'[q] = "idle"
      BY <2>2, ActorOwns
    <3>2. SUFFICES ASSUME pc'[p] \in Deciding
                   PROVE  ~journal'.exists
      BY <3>1, IdleKnows DEF DecidesOnSettledPair
    <3>3. pc[p] \in Deciding => ~journal.exists
      BY DEF DecidesOnSettledPair
    <3>4. pc \in [Proc -> {"idle", "recover"} \cup Restoring \cup Deciding \cup Switching]
      BY DEF TypeOK
    <3> USE DEF Deciding, Goto, GiveUp, Leave
    <3>5. CASE \E request \in Requests : Acquire(p, request)
      BY <3>2, <3>4, <3>5 DEF Acquire
    <3>6. CASE ReadJournal(p) \/ RestorePrevious(p) \/ RestoreCurrent(p)
      BY <3>2, <3>4, <3>6 DEF ReadJournal, RestorePrevious, RestoreCurrent, RestoreLink
    <3>7. CASE RestoreJournal(p)
      BY <3>2, <3>4, <3>7 DEF RestoreJournal, NoJournal
    <3>8. CASE Decide(p) \/ Materialize(p)
      BY <3>2, <3>3, <3>4, <3>8 DEF Decide, Materialize
    <3>9. CASE WriteJournal(p) \/ CommitSwitch(p) \/ Crash(p)
      BY <3>2, <3>4, <3>9 DEF WriteJournal, CommitSwitch, Crash
    <3>10. CASE SwitchPrevious(p) \/ SwitchCurrent(p)
      BY <3>2, <3>4, <3>10 DEF SwitchPrevious, SwitchCurrent, SwitchLink
    <3> QED BY <3>1, <3>5, <3>6, <3>7, <3>8, <3>9, <3>10 DEF Step
  <2> QED BY <2>1, <2>2
<1> QED BY <1>1, <1>2, TypeCorrect, PTL DEF Spec

-----------------------------------------------------------------------------
(* The invariant of the switch, and the implementation of ReleasePair. *)

\* A pair is its two members.
LEMMA PairEquality ==
    ASSUME NEW x \in Pairs, NEW y \in Pairs,
           x.previous = y.previous, x.current = y.current
    PROVE  x = y
  BY DEF Pairs

\* What the directory durably says has not moved.
Stutters == StablePair' = StablePair /\ releases \subseteq releases'

\* A step that leaves the durable pair alone leaves it complete.
LEMMA StutterComplete ==
    ASSUME RollbackTargetExists, Stutters
    PROVE  RollbackTargetExists'
  BY DEF RollbackTargetExists, Stutters, Complete

\* Taking the lock.
LEMMA AcquireInv ==
    ASSUME SwitchInv, NEW p \in Proc, NEW request \in Requests, Acquire(p, request)
    PROVE  StepKnows(p)' /\ Stutters
<1>1. pc'[p] = "recover" /\ UNCHANGED <<links, journal, releases>>
  BY DEF Acquire, SwitchInv, TypeOK
<1> QED BY <1>1 DEF StepKnows, Stutters, StablePair, Restoring, Switching

\* Leaving it, whatever the step did before.
LEMMA LeaveKnows ==
    ASSUME SwitchInv, NEW p \in Proc, Leave(p)
    PROVE  StepKnows(p)'
<1>1. pc'[p] = "idle"
  BY DEF Leave, SwitchInv, TypeOK
<1> QED BY <1>1, IdleKnows

\* Reading the journal.
LEMMA ReadJournalInv ==
    ASSUME SwitchInv, NEW p \in Proc, ReadJournal(p)
    PROVE  StepKnows(p)' /\ Stutters
<1>1. Stutters
  BY DEF ReadJournal, Stutters, StablePair
<1>2. CASE Leave(p)
  BY <1>1, <1>2, LeaveKnows
<1>3. CASE Goto(p, "decide") /\ ~journal.exists
  <2>1. pc'[p] = "decide" /\ ~journal'.exists
    BY <1>3 DEF ReadJournal, Goto, SwitchInv, TypeOK
  <2> QED BY <1>1, <2>1 DEF StepKnows, Restoring, Switching
<1>4. CASE Goto(p, "restorePrevious") /\ journal.exists /\ undo' = [undo EXCEPT ![p] = journal.pair]
  <2>1. pc'[p] = "restorePrevious" /\ journal'.exists /\ undo'[p] = journal'.pair
    BY <1>4 DEF ReadJournal, Goto, SwitchInv, TypeOK
  <2> QED BY <1>1, <2>1 DEF StepKnows, Restoring, Switching
<1> QED BY <1>2, <1>3, <1>4 DEF ReadJournal

\* Restoring a link while the journal still holds the pair.
LEMMA RestoreInv ==
    ASSUME SwitchInv, NEW p \in Proc, RestorePrevious(p) \/ RestoreCurrent(p)
    PROVE  StepKnows(p)' /\ Stutters
<1>1. journal.exists /\ undo[p] = journal.pair
  BY DEF SwitchInv, StepKnows, RestorePrevious, RestoreCurrent, RestoreLink, Restoring
<1>2. Stutters
  BY <1>1 DEF RestorePrevious, RestoreCurrent, RestoreLink, Stutters, StablePair
<1>3. CASE Leave(p)
  BY <1>2, <1>3, LeaveKnows
<1>4. links \in Pairs /\ undo[p] \in Pairs /\ undo[p].previous \in Commit \cup {None}
      /\ undo[p].current \in Commit \cup {None}
  BY OpPair, PairMembers DEF SwitchInv, TypeOK
<1>5. CASE pc[p] = "restorePrevious" /\ SetLink("previous", undo[p]["previous"])
           /\ Goto(p, "restoreCurrent") /\ UNCHANGED undo /\ UNCHANGED <<journal, releases>>
  <2>1. pc'[p] = "restoreCurrent"
    BY <1>5 DEF Goto, SwitchInv, TypeOK
  <2>2. links'.previous = undo[p].previous
    BY <1>4, <1>5, SetPrevious
  <2> QED BY <1>1, <1>2, <1>5, <2>1, <2>2 DEF StepKnows, Restoring, Switching
<1>6. CASE pc[p] = "restoreCurrent" /\ SetLink("current", undo[p]["current"])
           /\ Goto(p, "restoreJournal") /\ UNCHANGED undo /\ UNCHANGED <<journal, releases>>
  <2>1. pc'[p] = "restoreJournal"
    BY <1>6 DEF Goto, SwitchInv, TypeOK
  <2>2. links'.current = undo[p].current /\ links'.previous = links.previous
    BY <1>4, <1>6, SetCurrent
  <2>3. links.previous = undo[p].previous
    BY <1>6 DEF SwitchInv, StepKnows
  <2> QED BY <1>1, <1>2, <1>6, <2>1, <2>2, <2>3 DEF StepKnows, Restoring, Switching
<1> QED BY <1>3, <1>5, <1>6 DEF RestorePrevious, RestoreCurrent, RestoreLink

\* Removing the journal once both links are back.
LEMMA RestoreJournalInv ==
    ASSUME SwitchInv, NEW p \in Proc, RestoreJournal(p)
    PROVE  StepKnows(p)' /\ Stutters
<1>1. /\ journal.exists /\ undo[p] = journal.pair
      /\ links.previous = undo[p].previous /\ links.current = undo[p].current
  BY DEF SwitchInv, StepKnows, RestoreJournal, Restoring
<1>2. links = journal.pair
  BY <1>1, PairEquality, OpPair DEF SwitchInv, TypeOK
<1>3. Stutters
  BY <1>1, <1>2 DEF RestoreJournal, Stutters, StablePair, NoJournal
<1>4. CASE Leave(p)
  BY <1>3, <1>4, LeaveKnows
<1>5. CASE Goto(p, "decide") /\ journal' = NoJournal
  <2>1. pc'[p] = "decide" /\ ~journal'.exists
    BY <1>5 DEF Goto, SwitchInv, TypeOK, NoJournal
  <2> QED BY <1>3, <2>1 DEF StepKnows, Restoring, Switching
<1> QED BY <1>4, <1>5 DEF RestoreJournal

\* The guard of the operation authorizes the switch.
LEMMA DecideInv ==
    ASSUME SwitchInv, NEW p \in Proc, Decide(p)
    PROVE  StepKnows(p)' /\ Stutters
<1>1. Stutters
  BY DEF Decide, Stutters, StablePair
<1>2. CASE Leave(p)
  BY <1>1, <1>2, LeaveKnows
<1>3. ~journal'.exists
  BY DEF Decide, SwitchInv, StepKnows
<1>4. CASE op[p].kind = "promote" /\ PromoteAllowed(op[p].pair) /\ Goto(p, "materialize")
  <2>1. pc'[p] = "materialize" /\ op' = op
    BY <1>4 DEF Goto, SwitchInv, TypeOK
  <2> QED BY <1>1, <1>3, <1>4, <2>1
          DEF Decide, PromoteAllowed, StepKnows, Authorized, Restoring, Switching
<1>5. CASE /\ op[p].kind \in {"rollback", "rollback expected"}
           /\ RollbackAllowed
           /\ Goto(p, "writeJournal")
  <2>1. pc'[p] = "writeJournal" /\ op' = op
    BY <1>5 DEF Goto, SwitchInv, TypeOK
  <2> QED BY <1>1, <1>3, <1>5, <2>1
          DEF Decide, RollbackAllowed, StepKnows, Authorized, Restoring, Switching
<1> QED BY <1>2, <1>4, <1>5 DEF Decide

\* Both releases of a candidate exist before its switch begins.
LEMMA MaterializeInv ==
    ASSUME SwitchInv, NEW p \in Proc, Materialize(p)
    PROVE  StepKnows(p)' /\ Stutters
<1>1. Stutters
  BY DEF Materialize, Stutters, StablePair
<1>2. CASE Leave(p)
  BY <1>1, <1>2, LeaveKnows
<1>3. CASE /\ releases' = releases \cup {op[p].pair.previous, op[p].pair.current}
           /\ Goto(p, "writeJournal")
  <2>1. pc'[p] = "writeJournal" /\ op' = op
    BY <1>3 DEF Goto, SwitchInv, TypeOK
  <2>2. ~journal'.exists /\ Authorized(p, links)'
    BY <2>1 DEF Materialize, SwitchInv, StepKnows, Authorized
  <2>3. op[p].kind = "promote" /\ op[p] \in Requests \cup {NoOp}
    BY DEF Materialize, SwitchInv, TypeOK
  <2>4. op[p].pair.previous # op[p].pair.current
    BY <2>3, PromoteRequest
  <2>5. Complete(op[p].pair)'
    BY <1>3, <2>1, <2>4 DEF Complete
  <2> QED BY <1>1, <2>1, <2>2, <2>5 DEF StepKnows, Restoring, Switching
<1> QED BY <1>2, <1>3 DEF Materialize

\* The journal records the pair the switch starts from.
LEMMA WriteJournalInv ==
    ASSUME SwitchInv, NEW p \in Proc, WriteJournal(p)
    PROVE  StepKnows(p)' /\ Stutters
<1>1. Stutters
  BY DEF WriteJournal, Stutters, StablePair
<1>2. CASE Leave(p)
  BY <1>1, <1>2, LeaveKnows
<1>3. CASE /\ undo' = [undo EXCEPT ![p] = links]
           /\ journal' = [exists |-> TRUE, pair |-> links]
           /\ Goto(p, "switchPrevious")
  <2>1. pc'[p] = "switchPrevious" /\ op' = op /\ undo'[p] = links
    BY <1>3 DEF Goto, SwitchInv, TypeOK
  <2>2. Authorized(p, links)
    BY DEF WriteJournal, SwitchInv, StepKnows
  <2>3. Authorized(p, undo[p])'
    BY <2>1, <2>2 DEF Authorized
  <2>4. Complete(links)
    BY DEF WriteJournal, SwitchInv, RollbackTargetExists, StablePair
  <2>5. Complete(Target(p))'
    <3>1. CASE op[p].kind = "promote"
      <4>1. Complete(op[p].pair)
        BY <3>1 DEF WriteJournal, SwitchInv, StepKnows
      <4> QED BY <3>1, <4>1, <2>1 DEF WriteJournal, Complete, Target
    <3>2. CASE op[p].kind # "promote"
      <4>1. links.current # None
        BY <3>2, <2>2 DEF Authorized
      <4>2. /\ links.current \in releases /\ links.previous \in releases
            /\ links.current # links.previous
        BY <2>4, <4>1 DEF Complete, NoPair
      <4> QED BY <3>2, <4>2, <2>1 DEF WriteJournal, Complete, Target
    <3> QED BY <3>1, <3>2
  <2> QED BY <1>1, <1>3, <2>1, <2>3, <2>5 DEF StepKnows, Restoring, Switching
<1> QED BY <1>2, <1>3 DEF WriteJournal

\* Moving a link under the journal.
LEMMA SwitchLinkInv ==
    ASSUME SwitchInv, NEW p \in Proc, SwitchPrevious(p) \/ SwitchCurrent(p)
    PROVE  StepKnows(p)' /\ Stutters
<1>1. /\ journal.exists /\ undo[p] = journal.pair
      /\ Authorized(p, undo[p]) /\ Complete(Target(p))
  BY DEF SwitchInv, StepKnows, SwitchPrevious, SwitchCurrent, SwitchLink, Switching
<1>2. Stutters
  BY <1>1 DEF SwitchPrevious, SwitchCurrent, SwitchLink, Stutters, StablePair
<1>3. CASE GiveUp(p, "recover")
  <2>1. pc'[p] = "recover"
    BY <1>3 DEF GiveUp, SwitchInv, TypeOK
  <2> QED BY <1>2, <2>1 DEF StepKnows, Restoring, Switching
<1>4. links \in Pairs /\ Target(p).previous \in Commit \cup {None}
      /\ Target(p).current \in Commit \cup {None}
  BY OpPair, PairMembers DEF SwitchInv, TypeOK
<1>5. CASE pc[p] = "switchPrevious" /\ SetLink("previous", Target(p)["previous"])
           /\ Goto(p, "switchCurrent") /\ UNCHANGED undo /\ UNCHANGED <<journal, releases>>
  <2>1. pc'[p] = "switchCurrent" /\ op' = op
    BY <1>5 DEF Goto, SwitchInv, TypeOK
  <2>2. links'.previous = Target(p).previous
    BY <1>4, <1>5, SetPrevious
  <2>3. Target(p)' = Target(p)
    BY <1>5, <2>1 DEF Target
  <2>4. Authorized(p, undo[p])' /\ Complete(Target(p))'
    BY <1>1, <1>5, <2>1, <2>3 DEF Authorized, Complete
  <2> QED BY <1>1, <1>2, <1>5, <2>1, <2>2, <2>3, <2>4 DEF StepKnows, Restoring, Switching
<1>6. CASE pc[p] = "switchCurrent" /\ SetLink("current", Target(p)["current"])
           /\ Goto(p, "commit") /\ UNCHANGED undo /\ UNCHANGED <<journal, releases>>
  <2>1. pc'[p] = "commit" /\ op' = op
    BY <1>6 DEF Goto, SwitchInv, TypeOK
  <2>2. links'.current = Target(p).current /\ links'.previous = links.previous
    BY <1>4, <1>6, SetCurrent
  <2>3. links.previous = Target(p).previous
    BY <1>6 DEF SwitchInv, StepKnows
  <2>4. Target(p)' = Target(p)
    BY <1>6, <2>1 DEF Target
  <2>5. Authorized(p, undo[p])' /\ Complete(Target(p))'
    BY <1>1, <1>6, <2>1, <2>4 DEF Authorized, Complete
  <2> QED BY <1>1, <1>2, <1>6, <2>1, <2>2, <2>3, <2>4, <2>5
          DEF StepKnows, Restoring, Switching
<1> QED BY <1>3, <1>5, <1>6 DEF SwitchPrevious, SwitchCurrent, SwitchLink

\* The commit: the only step that moves the durable pair, from one the guard
\* authorized to the whole target.
LEMMA CommitInv ==
    ASSUME ~JournalSyncFails, SwitchInv, NEW p \in Proc, CommitSwitch(p)
    PROVE  /\ StepKnows(p)'
           /\ \/ Stutters
              \/ /\ Authorized(p, StablePair)
                 /\ Complete(Target(p))
                 /\ undo[p] = StablePair
                 /\ StablePair' = Target(p)
                 /\ releases' = releases
<1>1. /\ journal.exists /\ undo[p] = journal.pair
      /\ Authorized(p, undo[p]) /\ Complete(Target(p))
      /\ links.previous = Target(p).previous /\ links.current = Target(p).current
  BY DEF SwitchInv, StepKnows, CommitSwitch, Switching
<1>2. CASE journal' = NoJournal /\ Leave(p)
  <2>1. links = Target(p)
    BY <1>1, PairEquality, OpPair DEF SwitchInv, TypeOK
  <2>2. StablePair' = Target(p) /\ StablePair = undo[p] /\ releases' = releases
    BY <1>1, <1>2, <2>1 DEF CommitSwitch, StablePair, NoJournal
  <2> QED BY <1>1, <1>2, <2>2, LeaveKnows
<1>3. CASE UNCHANGED journal /\ GiveUp(p, "restorePrevious")
  <2>1. pc'[p] = "restorePrevious" /\ undo' = undo
    BY <1>3 DEF GiveUp, SwitchInv, TypeOK
  <2>2. Stutters
    BY <1>3 DEF CommitSwitch, Stutters, StablePair
  <2> QED BY <1>1, <1>3, <2>1, <2>2 DEF StepKnows, Restoring, Switching
<1> QED BY <1>2, <1>3 DEF CommitSwitch

\* A crash loses the lock and the memory, never the durable pair.
LEMMA CrashInv ==
    ASSUME SwitchInv, NEW p \in Proc, Crash(p)
    PROVE  StepKnows(p)' /\ Stutters
  BY LeaveKnows DEF Crash, Stutters, StablePair

\* A step of one process either leaves the durable pair alone or commits.
LEMMA ActorInv ==
    ASSUME ~JournalSyncFails, SwitchInv, NEW p \in Proc, Step(p)
    PROVE  /\ StepKnows(p)'
           /\ \/ Stutters
              \/ /\ Authorized(p, StablePair)
                 /\ Complete(Target(p))
                 /\ undo[p] = StablePair
                 /\ StablePair' = Target(p)
                 /\ releases' = releases
<1>1. CASE \/ \E request \in Requests : Acquire(p, request)
           \/ ReadJournal(p) \/ RestorePrevious(p) \/ RestoreCurrent(p) \/ RestoreJournal(p)
  BY <1>1, AcquireInv, ReadJournalInv, RestoreInv, RestoreJournalInv
<1>2. CASE Decide(p) \/ Materialize(p) \/ WriteJournal(p) \/ SwitchPrevious(p) \/ SwitchCurrent(p)
  BY <1>2, DecideInv, MaterializeInv, WriteJournalInv, SwitchLinkInv
<1>3. CASE CommitSwitch(p)
  BY <1>3, CommitInv
<1>4. CASE Crash(p)
  BY <1>4, CrashInv
<1> QED BY <1>1, <1>2, <1>3, <1>4 DEF Step

\* Every step preserves the invariant.
LEMMA StepSwitchInv ==
    ASSUME ~JournalSyncFails, SwitchInv, [Next]_vars
    PROVE  SwitchInv'
<1>1. TypeOK'
  BY TypeStep DEF SwitchInv
<1>2. CASE UNCHANGED vars
  <2>1. RollbackTargetExists'
    BY <1>2 DEF vars, SwitchInv, RollbackTargetExists, StablePair, Complete
  <2>2. ASSUME NEW q \in Proc PROVE StepKnows(q)'
    BY <1>2 DEF vars, SwitchInv, StepKnows, Authorized, Complete, Target
  <2> QED BY <1>1, <2>1, <2>2 DEF SwitchInv
<1>3. CASE ~UNCHANGED vars
  <2>1. PICK p \in Proc :
            /\ Step(p)
            /\ \A q \in Proc : q # p => pc[q] = "idle" /\ pc'[q] = "idle"
    BY <1>3, ActorOwns DEF SwitchInv
  <2>2. RollbackTargetExists'
    <3>1. CASE Stutters
      BY <3>1, StutterComplete DEF SwitchInv
    <3>2. CASE Complete(Target(p)) /\ StablePair' = Target(p) /\ releases' = releases
      BY <3>2 DEF RollbackTargetExists, Complete
    <3> QED BY <2>1, <3>1, <3>2, ActorInv
  <2>3. ASSUME NEW q \in Proc PROVE StepKnows(q)'
    BY <2>1, IdleKnows, ActorInv
  <2> QED BY <1>1, <2>2, <2>3 DEF SwitchInv
<1> QED BY <1>2, <1>3

\* The inductive invariant holds as long as the fsync that ends a switch does
\* not fail; ReleaseSwitchSyncFault.cfg shows that this is needed.
THEOREM SwitchInvariant ==
    ASSUME ~JournalSyncFails
    PROVE  Spec => []SwitchInv
<1>1. SwitchInv /\ [Next]_vars => SwitchInv'
  BY StepSwitchInv
<1> QED BY <1>1, InitSwitchInv, PTL DEF Spec

\* After the first promotion there is always another materialized release to
\* go back to, whichever step crashed or failed (README.md:234).
THEOREM RollbackTargetCorrect ==
    ASSUME ~JournalSyncFails
    PROVE  Spec => []RollbackTargetExists
<1>1. SwitchInv => RollbackTargetExists
  BY DEF SwitchInv
<1> QED BY <1>1, SwitchInvariant, PTL

\* A commit is a promotion or a rollback of the abstract pair.
LEMMA CommitImplements ==
    ASSUME TypeOK, NEW p \in Proc, Authorized(p, StablePair), StablePair' = Target(p),
           undo[p] = StablePair
    PROVE  ReleasePair!Next
<1>1. CASE op[p].kind = "promote"
  <2>1. op[p] \in Requests \cup {NoOp}
    BY DEF TypeOK
  <2>2. PICK c \in Candidates : op[p].pair = PairOf(c)
    BY <1>1, <2>1, PromoteRequest
  <2>3. ReleasePair!Promote(c[1], c[2])
    BY <1>1, <2>2 DEF ReleasePair!Promote, Authorized, Target, PairOf
  <2> QED BY <2>3 DEF ReleasePair!Next
<1>2. CASE op[p].kind # "promote"
  <2>1. ReleasePair!Rollback
    BY <1>2 DEF ReleasePair!Rollback, Authorized, Target
  <2> QED BY <2>1 DEF ReleasePair!Next
<1> QED BY <1>1, <1>2

\* The journaled switch of two links, with its recoveries and crashes, is one
\* indivisible step of the pair (README.md:52).
THEOREM SwitchImplementsPair ==
    ASSUME ~JournalSyncFails
    PROVE  Spec => ImplementsReleasePair
<1>1. Init => ReleasePair!Init
  BY DEF Init, ReleasePair!Init, StablePair, NoJournal, NoPair, ReleasePair!NoPair
<1>2. SwitchInv /\ [Next]_vars => [ReleasePair!Next]_StablePair
  <2> SUFFICES ASSUME SwitchInv, [Next]_vars, StablePair' # StablePair
               PROVE  ReleasePair!Next
    OBVIOUS
  <2>1. ~UNCHANGED vars
    BY DEF vars, StablePair
  <2>2. PICK p \in Proc : Step(p)
    BY <2>1, ActorOwns DEF SwitchInv
  <2>3. /\ Authorized(p, StablePair)
        /\ undo[p] = StablePair /\ StablePair' = Target(p)
    BY <2>2, ActorInv DEF Stutters
  <2> QED BY <2>3, CommitImplements DEF SwitchInv
<1> QED
  BY <1>1, <1>2, SwitchInvariant, PTL DEF Spec, ImplementsReleasePair, ReleasePair!Spec
=============================================================================
