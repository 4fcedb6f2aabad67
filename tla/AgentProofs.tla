---------------------------- MODULE AgentProofs ----------------------------
(***************************************************************************)
(* What SkillLoop does to the files of the agents.  Activation, for any    *)
(* number of processes, skills and edits: neither operation touches what   *)
(* is not the skill's own link, and an install that fails leaves no link   *)
(* behind unreported.  HookInstall, for any number of callers and handlers *)
(* and any settings without duplicates: a call changes the one handler it  *)
(* is about, and the settings have what the last call reported until the   *)
(* owner or a call that had read them before undoes it.  The two have      *)
(* nothing in common but whose files they are about: Spec and HookSpec are *)
(* two specifications.                                                     *)
(***************************************************************************)
EXTENDS Activation, HookInstall, SequenceTheorems, FiniteSetTheorems, TLAPS

-----------------------------------------------------------------------------
(* Activation. *)

Steps == {"idle", "plan", "install", "undo", "undoRemove", "uninstall", "remove"}
Results == {"none", "done", "failed", "refused", "crashed"}

Calls == [op : {"none", "install", "uninstall"}, skill : Skill \cup {Absent},
          targets : Seq(Platform), at : Nat, managed : SUBSET Platform,
          created : Seq(Platform)]

\* The links a call has made and not undone, and the one it undoes next.
Links(c) == {c.created[i] : i \in 1..Len(c.created)}
LastLink(c) == c.created[Len(c.created)]

\* A call under way is at one of its targets, or at one of the links it made.
Fits(step, c, r) ==
    /\ step \in Steps /\ c \in Calls /\ r \in Results
    /\ step # "idle" => c.skill \in Skill /\ r = "none"
    /\ step \in {"plan", "install", "uninstall", "remove"} => c.at \in 1..Len(c.targets)
    /\ step = "plan" => c.op # "none"
    /\ step = "install" => c.op = "install"
    /\ step \in {"uninstall", "remove"} => c.op = "uninstall"
    /\ step \in {"undo", "undoRemove"} => Len(c.created) > 0

CallsFit ==
    /\ pc \in [Process -> Steps]
    /\ call \in [Process -> Calls]
    /\ result \in [Process -> Results]
    /\ \A p \in Process : Fits(pc[p], call[p], result[p])

Entries ==
    /\ entry \in [Platform -> {Absent, File} \cup Skill]
    /\ maker \in [Platform -> Process \cup {Nobody}]
    /\ stuck \in [Process -> SUBSET Platform]
    /\ raced \in [Process -> SUBSET Platform]

\* What is about to be removed is the link that was seen, or somebody else has
\* changed the entry since.
SeenLink ==
    \A p \in Process :
        /\ pc[p] = "remove" => entry[Target(p)] = call[p].skill \/ Target(p) \in raced[p]
        /\ pc[p] = "undoRemove" =>
              entry[LastLink(call[p])] = call[p].skill \/ LastLink(call[p]) \in raced[p]

\* The links of a call are those it still has to undo and those it could not.
LinksKnown ==
    /\ \A f \in Platform : maker[f] # Nobody => entry[f] # Absent
    /\ \A p \in Process, f \in Platform : maker[f] = p =>
          /\ pc[p] \notin {"plan", "uninstall", "remove"}
          /\ pc[p] \in {"install", "undo", "undoRemove"} => f \in Links(call[p]) \cup stuck[p]
          /\ result[p] = "failed" => f \in stuck[p]

ActivationInv == CallsFit /\ Entries /\ SeenLink /\ LinksKnown

-----------------------------------------------------------------------------
(* Platforms, calls and the lists in them. *)

\* normalizePlatforms gives at least one platform.
LEMMA PlatformsSequences ==
    \A targets \in Platforms : targets \in Seq(Platform) /\ Len(targets) > 0
<1>1. <<"codex">> \in Seq(Platform) /\ Len(<<"codex">>) = 1
  BY DEF Platform
<1>2. <<"claude">> \in Seq(Platform) /\ Len(<<"claude">>) = 1
  BY DEF Platform
<1>3. <<"codex", "claude">> \in Seq(Platform) /\ Len(<<"codex", "claude">>) = 2
  BY DEF Platform
<1>4. 1 > 0 /\ 2 > 0
  OBVIOUS
<1> QED
  BY <1>1, <1>2, <1>3, <1>4, Zenon DEF Platforms

\* rollback takes the last link off its list and keeps the others.
LEMMA DropLast ==
    ASSUME NEW s \in Seq(Platform), Len(s) > 0
    PROVE  /\ SubSeq(s, 1, Len(s) - 1) \in Seq(Platform)
           /\ Len(SubSeq(s, 1, Len(s) - 1)) = Len(s) - 1
           /\ \A i \in 1..(Len(s) - 1) : SubSeq(s, 1, Len(s) - 1)[i] = s[i]
<1> DEFINE n == Len(s) - 1
<1>1. n \in 0..Len(s) /\ n - 1 + 1 = n /\ \A i \in 1..n : 1 + i - 1 = i
  BY LenProperties
<1> HIDE DEF n
<1> QED
  BY <1>1, SubSeqProperties DEF n

\* Changing one field of a call keeps the others.
LEMMA CallFields ==
    ASSUME NEW c \in Calls, NEW n \in Nat, NEW m \in SUBSET Platform, NEW s \in Seq(Platform)
    PROVE  /\ [c EXCEPT !.at = n] \in Calls
           /\ [c EXCEPT !.managed = m] \in Calls
           /\ [c EXCEPT !.created = s] \in Calls
  BY DEF Calls

\* A call at another target is the same call.
LEMMA CallAt ==
    ASSUME NEW c \in Calls, NEW n \in Nat, NEW d, d = [c EXCEPT !.at = n]
    PROVE  /\ d \in Calls /\ d.at = n
           /\ d.op = c.op /\ d.skill = c.skill /\ d.targets = c.targets
           /\ d.managed = c.managed /\ d.created = c.created
<1>1. [c EXCEPT !.at = n] \in Calls
  BY EmptySeq, CallFields, {} \in SUBSET Platform
<1>2. d.at = n /\ d.op = c.op /\ d.skill = c.skill /\ d.targets = c.targets
  BY DEF Calls
<1>3. d.managed = c.managed /\ d.created = c.created
  BY DEF Calls
<1> QED
  BY <1>1, <1>2, <1>3

\* A process between two calls fits.
LEMMA IdleCall == Idle \in Calls /\ Fits("idle", Idle, "none")
<1>1. Idle \in Calls
  BY EmptySeq DEF Calls, Idle
<1> QED
  BY <1>1 DEF Fits, Steps, Results

-----------------------------------------------------------------------------
(* How a step changes the memory of its process. *)

Moves(p, step, c, r) ==
    /\ Fits(step, c, r)
    /\ pc' = [pc EXCEPT ![p] = step]
    /\ call' = [call EXCEPT ![p] = c]
    /\ result' = [result EXCEPT ![p] = r]

\* A process's move leaves its own memory fitting and every other's as it was.
LEMMA MovesFit ==
    ASSUME CallsFit, NEW p \in Process, NEW step, NEW c, NEW r, Moves(p, step, c, r)
    PROVE  /\ CallsFit'
           /\ pc'[p] = step /\ call'[p] = c /\ result'[p] = r
           /\ \A q \in Process : q # p =>
                 pc'[q] = pc[q] /\ call'[q] = call[q] /\ result'[q] = result[q]
<1>1. step \in Steps /\ c \in Calls /\ r \in Results
  BY DEF Moves, Fits
<1>2. /\ pc'[p] = step /\ call'[p] = c /\ result'[p] = r
      /\ \A q \in Process : q # p =>
            pc'[q] = pc[q] /\ call'[q] = call[q] /\ result'[q] = result[q]
      /\ pc' \in [Process -> Steps] /\ call' \in [Process -> Calls]
      /\ result' \in [Process -> Results]
  BY <1>1 DEF Moves, CallsFit
<1>3. \A q \in Process : Fits(pc'[q], call'[q], result'[q])
  BY <1>2 DEF Moves, CallsFit
<1> QED
  BY <1>2, <1>3 DEF CallsFit

\* A call returns.
LEMMA ReturnMoves ==
    ASSUME NEW p \in Process, NEW r \in Results, Return(p, r)
    PROVE  Moves(p, "idle", Idle, r)
  BY IdleCall DEF Return, Goto, Moves, Fits

\* To another step of the same call.
LEMMA GotoMoves ==
    ASSUME CallsFit, NEW p \in Process, NEW step, Fits(step, call[p], "none"),
           pc[p] # "idle", Goto(p, step), UNCHANGED <<call, result>>
    PROVE  Moves(p, step, call[p], "none")
<1>1. call' = [call EXCEPT ![p] = call[p]]
  BY DEF CallsFit
<1>2. result' = [result EXCEPT ![p] = "none"]
  BY DEF CallsFit, Fits
<1> QED
  BY <1>1, <1>2 DEF Moves, Goto

\* The loops over the targets.
LEMMA NextTargetMoves ==
    ASSUME CallsFit, NEW p \in Process, NEW c \in Calls, pc[p] # "idle",
           c.skill \in Skill, c.op # "none", c.at \in 1..Len(c.targets), NextTarget(p, c)
    PROVE  \/ Moves(p, "idle", Idle, "done")
           \/ \E d : Moves(p, c.op, d, "none") /\ d.created = c.created
<1>1. CASE c.at < Len(c.targets)
  <2> DEFINE d == [c EXCEPT !.at = @ + 1]
  <2>1. d = [c EXCEPT !.at = c.at + 1] /\ c.at + 1 \in Nat
    BY DEF Calls
  <2>2. /\ d \in Calls /\ d.at = c.at + 1 /\ d.op = c.op /\ d.skill = c.skill
        /\ d.targets = c.targets /\ d.created = c.created
    <3> HIDE DEF d
    <3> QED
      BY <2>1, CallAt
  <2>3. d.at \in 1..Len(d.targets)
    BY <1>1, <2>2, LenProperties DEF Calls
  <2>4. c.op \in {"install", "uninstall"}
    BY DEF Calls
  <2>5. Fits(c.op, d, "none")
    BY <2>2, <2>3, <2>4 DEF Fits, Steps, Results
  <2>6. result' = [result EXCEPT ![p] = "none"]
    BY <1>1 DEF NextTarget, CallsFit, Fits
  <2>7. pc' = [pc EXCEPT ![p] = c.op] /\ call' = [call EXCEPT ![p] = d]
    BY <1>1 DEF NextTarget, Goto
  <2> HIDE DEF d
  <2>8. Moves(p, c.op, d, "none")
    BY <2>5, <2>6, <2>7 DEF Moves
  <2> QED
    BY <2>2, <2>8
<1>2. CASE ~(c.at < Len(c.targets))
  BY <1>2, ReturnMoves DEF NextTarget, Results
<1> QED
  BY <1>1, <1>2

\* The loop of rollback.
LEMMA NextUndoMoves ==
    ASSUME CallsFit, NEW p \in Process, pc[p] \in {"undo", "undoRemove"}, NextUndo(p)
    PROVE  \/ /\ Moves(p, "idle", Idle, "failed")
              /\ Links(call[p]) = {LastLink(call[p])}
           \/ \E d : /\ Moves(p, "undo", d, "none")
                     /\ Links(call[p]) \subseteq Links(d) \cup {LastLink(call[p])}
<1> DEFINE s == call[p].created
           rest == SubSeq(s, 1, Len(s) - 1)
<1>1. s \in Seq(Platform) /\ Len(s) \in Nat /\ Len(s) > 0
  BY LenProperties DEF CallsFit, Fits, Calls
<1>2. rest \in Seq(Platform) /\ Len(rest) = Len(s) - 1 /\ \A i \in 1..(Len(s) - 1) : rest[i] = s[i]
  BY <1>1, DropLast
<1>3. CASE rest = <<>>
  <2> HIDE DEF rest
  <2>1. Len(s) = 1
    <3>1. Len(rest) = 0
      BY <1>3, EmptySeq
    <3> QED
      BY <1>1, <1>2, <3>1
  <2>2. Links(call[p]) = {LastLink(call[p])}
    BY <2>1 DEF Links, LastLink
  <2> QED
    BY <1>3, <2>2, ReturnMoves DEF NextUndo, Results, rest
<1>4. CASE rest # <<>>
  <2> DEFINE d == [call[p] EXCEPT !.created = rest]
  <2>1. call[p] \in Calls /\ call[p].skill \in Skill /\ result[p] = "none"
    BY DEF CallsFit, Fits
  <2>2. d \in Calls /\ d.skill = call[p].skill /\ d.created = rest
    BY <1>2, <2>1, CallFields DEF Calls
  <2>3. Len(rest) > 0
    BY <1>1, <1>2, <1>4, EmptySeq
  <2>4. Fits("undo", d, "none")
    BY <2>1, <2>2, <2>3 DEF Fits, Steps, Results
  <2>5. /\ pc' = [pc EXCEPT ![p] = "undo"] /\ result' = [result EXCEPT ![p] = "none"]
        /\ call' = [call EXCEPT ![p] = d]
    BY <1>4, <2>1 DEF NextUndo, Goto, CallsFit
  <2> HIDE DEF d, rest
  <2>6. Moves(p, "undo", d, "none")
    BY <2>4, <2>5 DEF Moves
  <2>7. Links(call[p]) \subseteq Links(d) \cup {LastLink(call[p])}
    BY <1>1, <1>2, <2>2 DEF Links, LastLink
  <2> QED
    BY <2>6, <2>7
<1> QED
  BY <1>3, <1>4

\* The entry a process looks at or changes is one of the platforms'.
LEMMA TargetKnown ==
    ASSUME CallsFit, NEW p \in Process, pc[p] \in {"plan", "install", "uninstall", "remove"}
    PROVE  Target(p) \in Platform
  BY DEF CallsFit, Fits, Calls, Target

\* The link a compensation removes next is one the call made.
LEMMA LastLinkKnown ==
    ASSUME CallsFit, NEW p \in Process, pc[p] \in {"undo", "undoRemove"}
    PROVE  LastLink(call[p]) \in Links(call[p]) /\ Links(call[p]) \subseteq Platform
<1>1. call[p].created \in Seq(Platform) /\ Len(call[p].created) > 0
  BY DEF CallsFit, Fits, Calls
<1> QED
  BY <1>1, LenProperties DEF LastLink, Links

-----------------------------------------------------------------------------
(* What each step does to the memory, as far as the links depend on it. *)

\* A request starts a plan at its first target.
LEMMA RequestMoves ==
    ASSUME CallsFit, NEW p \in Process, NEW op \in {"install", "uninstall"}, NEW s \in Skill,
           NEW targets \in Platforms, Request(p, op, s, targets)
    PROVE  \E c : Moves(p, "plan", c, "none")
<1> DEFINE c == [Idle EXCEPT !.op = op, !.skill = s, !.targets = targets, !.at = 1]
<1>1. targets \in Seq(Platform) /\ Len(targets) \in Nat /\ Len(targets) > 0
  BY PlatformsSequences, LenProperties
<1>2. c \in Calls /\ c.skill = s /\ c.op = op /\ c.at = 1 /\ c.targets = targets
  BY <1>1, IdleCall DEF Calls
<1> HIDE DEF c
<1>3. Fits("plan", c, "none")
  BY <1>1, <1>2 DEF Fits, Steps, Results
<1>4. Moves(p, "plan", c, "none")
  BY <1>3 DEF c, Request, Goto, Moves
<1> QED
  BY <1>4

\* A plan ends in a refusal or at the first target of the operation.
LEMMA PlanMoves ==
    ASSUME CallsFit, NEW p \in Process, Plan(p)
    PROVE  \E step, c, r : Moves(p, step, c, r) /\ step \notin {"remove", "undoRemove"}
<1>1. /\ pc[p] = "plan" /\ call[p] \in Calls /\ call[p].skill \in Skill
      /\ call[p].at \in 1..Len(call[p].targets) /\ call[p].op # "none" /\ result[p] = "none"
  BY DEF Plan, CallsFit, Fits
<1>2. Target(p) \in Platform
  BY <1>1 DEF Target, Calls
<1>3. PICK seen \in Inspect(p, Target(p)) :
        LET planned == IF seen = "managed" THEN [call[p] EXCEPT !.managed = @ \cup {Target(p)}]
                       ELSE call[p]
        IN  IF seen = "error" THEN Return(p, "refused")
            ELSE IF planned.at < Len(planned.targets)
            THEN /\ call' = [call EXCEPT ![p] = [planned EXCEPT !.at = @ + 1]]
                 /\ UNCHANGED <<pc, result>>
            ELSE /\ call' = [call EXCEPT ![p] = [planned EXCEPT !.at = 1]]
                 /\ Goto(p, planned.op)
                 /\ UNCHANGED result
  BY DEF Plan
<1> DEFINE planned == IF seen = "managed" THEN [call[p] EXCEPT !.managed = @ \cup {Target(p)}]
                      ELSE call[p]
           atOther(n) == [planned EXCEPT !.at = n]
<1>4. /\ planned \in Calls /\ planned.at = call[p].at /\ planned.targets = call[p].targets
      /\ planned.op = call[p].op /\ planned.skill = call[p].skill
  BY <1>1, <1>2 DEF Calls
<1> HIDE DEF planned
<1>5. CASE seen = "error"
  BY <1>3, <1>5, ReturnMoves DEF Results
<1>6. CASE seen # "error" /\ planned.at < Len(planned.targets)
  <2> DEFINE c == atOther(planned.at + 1)
  <2>0. planned.at + 1 \in Nat /\ c = [planned EXCEPT !.at = planned.at + 1]
    BY <1>4 DEF Calls
  <2>1. /\ c \in Calls /\ c.at = planned.at + 1 /\ c.targets = planned.targets
        /\ c.op = planned.op /\ c.skill = planned.skill
    <3> HIDE DEF c
    <3> QED
      BY <1>4, <2>0, CallAt
  <2>2. c.at \in 1..Len(c.targets)
    BY <1>1, <1>4, <1>6, <2>1, LenProperties DEF Calls
  <2>3. /\ call' = [call EXCEPT ![p] = c] /\ pc' = [pc EXCEPT ![p] = "plan"]
        /\ result' = [result EXCEPT ![p] = "none"]
    BY <1>1, <1>3, <1>6 DEF planned, CallsFit
  <2> HIDE DEF c
  <2>4. Moves(p, "plan", c, "none")
    BY <1>1, <1>4, <2>1, <2>2, <2>3 DEF Moves, Fits, Steps, Results
  <2> QED
    BY <2>4
<1>7. CASE seen # "error" /\ ~(planned.at < Len(planned.targets))
  <2> DEFINE c == atOther(1)
  <2>1. /\ c \in Calls /\ c.at = 1 /\ c.targets = planned.targets
        /\ c.op = planned.op /\ c.skill = planned.skill
    <3>1. c = [planned EXCEPT !.at = 1] /\ 1 \in Nat
      OBVIOUS
    <3> HIDE DEF c
    <3> QED
      BY <1>4, <3>1, CallAt
  <2>2. c.at \in 1..Len(c.targets)
    BY <1>1, <1>4, <2>1, LenProperties DEF Calls
  <2>3. /\ call' = [call EXCEPT ![p] = c] /\ pc' = [pc EXCEPT ![p] = planned.op]
        /\ result' = [result EXCEPT ![p] = "none"]
    BY <1>1, <1>3, <1>7 DEF planned, CallsFit, Goto
  <2>4. planned.op \in {"install", "uninstall"}
    BY <1>1, <1>4 DEF Calls
  <2> HIDE DEF c
  <2>5. Moves(p, planned.op, c, "none")
    BY <1>1, <1>4, <2>1, <2>2, <2>3, <2>4 DEF Moves, Fits, Steps, Results
  <2> QED
    BY <2>4, <2>5
<1> QED
  BY <1>5, <1>6, <1>7

\* An install that goes on keeps its list; a new link is added to it.
LEMMA KeepMoves ==
    ASSUME CallsFit, NEW p \in Process, Keep(p)
    PROVE  \/ Moves(p, "idle", Idle, "done")
           \/ \E d : Moves(p, "install", d, "none") /\ Links(d) = Links(call[p])
<1>1. /\ pc[p] = "install" /\ call[p] \in Calls /\ call[p].skill \in Skill
      /\ call[p].at \in 1..Len(call[p].targets) /\ call[p].op = "install"
  BY DEF Keep, CallsFit, Fits
<1>2. NextTarget(p, call[p])
  BY DEF Keep
<1> QED
  BY <1>1, <1>2, NextTargetMoves DEF Links

\* A link that was made is remembered, or was the last one.
LEMMA LinkMoves ==
    ASSUME CallsFit, NEW p \in Process, Link(p)
    PROVE  /\ Target(p) \in Platform
           /\ \/ Moves(p, "idle", Idle, "done")
              \/ \E d : /\ Moves(p, "install", d, "none")
                        /\ Links(d) = Links(call[p]) \cup {Target(p)}
<1>1. /\ pc[p] = "install" /\ call[p] \in Calls /\ call[p].skill \in Skill
      /\ call[p].at \in 1..Len(call[p].targets) /\ call[p].op = "install"
  BY DEF Link, CallsFit, Fits
<1>2. Target(p) \in Platform
  BY <1>1 DEF Target, Calls
<1> DEFINE more == Append(call[p].created, Target(p))
           c == [call[p] EXCEPT !.created = more]
<1>3. call[p].created \in Seq(Platform) /\ Len(call[p].created) \in Nat
  BY <1>1, LenProperties DEF Calls
<1>4. /\ more \in Seq(Platform) /\ Len(more) = Len(call[p].created) + 1
      /\ \A i \in 1..Len(call[p].created) : more[i] = call[p].created[i]
      /\ more[Len(call[p].created) + 1] = Target(p)
  BY <1>2, <1>3, AppendProperties
<1>5. NextTarget(p, c)
  BY DEF Link
<1>6. /\ c \in Calls /\ c.skill = call[p].skill /\ c.op = "install" /\ c.created = more
      /\ c.at = call[p].at /\ c.targets = call[p].targets
  BY <1>1, <1>4 DEF Calls
<1> HIDE DEF c
<1>7. \/ Moves(p, "idle", Idle, "done")
      \/ \E d : Moves(p, "install", d, "none") /\ d.created = more
  BY <1>1, <1>5, <1>6, NextTargetMoves
<1> HIDE DEF more
<1>8. ASSUME NEW d, d.created = more
      PROVE  Links(d) = Links(call[p]) \cup {Target(p)}
  <2> DEFINE n == Len(call[p].created)
  <2>1. ASSUME NEW i \in 1..Len(more) PROVE more[i] \in Links(call[p]) \cup {Target(p)}
    <3>1. i \in 1..n \/ i = n + 1
      BY <1>3, <1>4
    <3> QED
      BY <1>4, <3>1 DEF Links
  <2>2. ASSUME NEW i \in 1..n PROVE call[p].created[i] \in Links(d)
    <3>1. i \in 1..Len(more) /\ more[i] = call[p].created[i]
      BY <1>3, <1>4
    <3> QED
      BY <1>8, <3>1 DEF Links
  <2>3. n + 1 \in 1..Len(more)
    BY <1>3, <1>4
  <2>4. Target(p) \in Links(d)
    BY <1>4, <1>8, <2>3 DEF Links
  <2> QED
    BY <1>8, <2>1, <2>2, <2>4 DEF Links
<1> QED
  BY <1>2, <1>7, <1>8

\* A link that failed starts the compensation, if there is something to compensate.
LEMMA LinkFailsMoves ==
    ASSUME CallsFit, NEW p \in Process, LinkFails(p)
    PROVE  \/ Moves(p, "idle", Idle, "failed") /\ Links(call[p]) = {}
           \/ Moves(p, "undo", call[p], "none")
<1>1. /\ pc[p] = "install" /\ call[p] \in Calls /\ call[p].skill \in Skill
      /\ call[p].created \in Seq(Platform)
  BY DEF LinkFails, CallsFit, Fits, Calls
<1>2. CASE call[p].created = <<>>
  BY <1>2, ReturnMoves, EmptySeq DEF LinkFails, Links, Results
<1>3. CASE call[p].created # <<>>
  <2>1. Len(call[p].created) > 0
    BY <1>1, <1>3, EmptySeq, LenProperties
  <2>2. Fits("undo", call[p], "none")
    BY <1>1, <2>1 DEF Fits, Steps, Results
  <2> QED
    BY <1>1, <1>3, <2>2, GotoMoves DEF LinkFails
<1> QED
  BY <1>2, <1>3

\* rollback gives the removal of a link up, or goes on to it.
LEMMA UndoMoves ==
    ASSUME CallsFit, NEW p \in Process, Undo(p)
    PROVE  \/ /\ Moves(p, "undoRemove", call[p], "none")
              /\ entry[LastLink(call[p])] = call[p].skill
              /\ UNCHANGED stuck
           \/ /\ NextUndo(p)
              /\ \/ entry[LastLink(call[p])] = Absent /\ UNCHANGED stuck
                 \/ stuck' = [stuck EXCEPT ![p] = @ \cup {LastLink(call[p])}]
<1>1. pc[p] = "undo" /\ Fits("undo", call[p], "none")
  BY DEF Undo, CallsFit, Fits
<1>2. Fits("undoRemove", call[p], "none")
  BY <1>1 DEF Fits, Steps
<1>3. PICK seen \in Inspect(p, LastLink(call[p])) :
        /\ IF seen = "managed" THEN Goto(p, "undoRemove") /\ UNCHANGED <<call, result>>
           ELSE NextUndo(p)
        /\ stuck' = IF seen = "error" THEN [stuck EXCEPT ![p] = @ \cup {LastLink(call[p])}]
                    ELSE stuck
  BY DEF Undo, LastLink
<1>4. CASE seen = "managed"
  <2>1. entry[LastLink(call[p])] = call[p].skill
    BY <1>3, <1>4 DEF Inspect
  <2>2. Goto(p, "undoRemove") /\ UNCHANGED <<call, result>> /\ UNCHANGED stuck
    BY <1>3, <1>4
  <2> QED
    BY <1>1, <1>2, <2>1, <2>2, GotoMoves
<1>5. CASE seen = "error"
  BY <1>3, <1>5
<1>6. CASE seen # "managed" /\ seen # "error"
  <2>1. entry[LastLink(call[p])] = Absent
    BY <1>3, <1>6 DEF Inspect
  <2> QED
    BY <1>3, <1>6, <2>1
<1> QED
  BY <1>4, <1>5, <1>6

\* Uninstall removes only what it saw to be its own link.
LEMMA LookMoves ==
    ASSUME CallsFit, NEW p \in Process, Look(p)
    PROVE  \/ Moves(p, "remove", call[p], "none") /\ entry[Target(p)] = call[p].skill
           \/ \E step, c, r : Moves(p, step, c, r) /\ step \in {"idle", "uninstall"}
<1>1. /\ pc[p] = "uninstall" /\ Fits("uninstall", call[p], "none") /\ result[p] = "none"
      /\ call[p] \in Calls /\ call[p].skill \in Skill /\ call[p].op = "uninstall"
      /\ call[p].at \in 1..Len(call[p].targets)
  BY DEF Look, CallsFit, Fits
<1>2. Fits("remove", call[p], "none")
  BY <1>1 DEF Fits, Steps
<1>3. CASE NextTarget(p, call[p])
  BY <1>1, <1>3, NextTargetMoves
<1>4. CASE Return(p, "failed")
  BY <1>4, ReturnMoves DEF Results
<1>5. CASE /\ Goto(p, "remove") /\ UNCHANGED <<call, result>>
           /\ "managed" \in Inspect(p, Target(p))
  <2>1. entry[Target(p)] = call[p].skill
    BY <1>5 DEF Inspect
  <2> QED
    BY <1>1, <1>2, <1>5, <2>1, GotoMoves
<1> QED
  BY <1>3, <1>4, <1>5 DEF Look

\* After a removal, uninstall goes on or returns.
LEMMA RemoveMoves ==
    ASSUME CallsFit, NEW p \in Process, Remove(p)
    PROVE  \E step, c, r : Moves(p, step, c, r) /\ step \in {"idle", "uninstall"}
<1>1. /\ pc[p] = "remove" /\ call[p] \in Calls /\ call[p].skill \in Skill
      /\ call[p].op = "uninstall" /\ call[p].at \in 1..Len(call[p].targets)
  BY DEF Remove, CallsFit, Fits
<1>2. CASE NextTarget(p, call[p])
  BY <1>1, <1>2, NextTargetMoves
<1>3. CASE Return(p, "failed")
  BY <1>3, ReturnMoves DEF Results
<1> QED
  BY <1>2, <1>3 DEF Remove

-----------------------------------------------------------------------------
(* The invariant. *)

\* The calls fit their steps, and every entry is nothing, a file or a link.
LEMMA StepTypes == CallsFit /\ Entries /\ [Next]_vars => CallsFit' /\ Entries'
<1> SUFFICES ASSUME CallsFit, Entries, [Next]_vars
             PROVE  CallsFit' /\ Entries'
  OBVIOUS
<1>1. CallsFit'
  <2>1. ASSUME NEW p \in Process, NEW op \in {"install", "uninstall"}, NEW s \in Skill,
               NEW targets \in Platforms, Request(p, op, s, targets)
        PROVE  CallsFit'
    BY <2>1, RequestMoves, MovesFit DEF Request
  <2>2. ASSUME NEW p \in Process, Plan(p) PROVE CallsFit'
    BY <2>2, PlanMoves, MovesFit DEF Plan
  <2>3. ASSUME NEW p \in Process, Keep(p) PROVE CallsFit'
    BY <2>3, KeepMoves, MovesFit DEF Keep
  <2>4. ASSUME NEW p \in Process, Link(p) PROVE CallsFit'
    BY <2>4, LinkMoves, MovesFit DEF Link
  <2>5. ASSUME NEW p \in Process, LinkFails(p) PROVE CallsFit'
    BY <2>5, LinkFailsMoves, MovesFit DEF LinkFails
  <2>6. ASSUME NEW p \in Process, Undo(p) PROVE CallsFit'
    BY <2>6, UndoMoves, MovesFit, NextUndoMoves DEF Undo
  <2>7. ASSUME NEW p \in Process, UndoRemove(p) PROVE CallsFit'
    BY <2>7, NextUndoMoves, MovesFit DEF UndoRemove
  <2>8. ASSUME NEW p \in Process, Look(p) PROVE CallsFit'
    BY <2>8, LookMoves, MovesFit DEF Look
  <2>9. ASSUME NEW p \in Process, Remove(p) PROVE CallsFit'
    BY <2>9, RemoveMoves, MovesFit DEF Remove
  <2>10. ASSUME NEW p \in Process, Crash(p) PROVE CallsFit'
    BY <2>10, ReturnMoves, MovesFit DEF Crash, Results
  <2>11. ASSUME NEW f \in Platform, NEW new \in {Absent, File}, Edit(f, new) PROVE CallsFit'
    BY <2>11 DEF Edit, CallsFit
  <2>12. CASE UNCHANGED vars
    BY <2>12 DEF vars, CallsFit
  <2> QED
    BY <2>1, <2>2, <2>3, <2>4, <2>5, <2>6, <2>7, <2>8, <2>9, <2>10, <2>11, <2>12 DEF Next
<1>2. Entries'
  <2> USE ActivationAssumption DEF Entries, Looks, Changes
  <2>1. ASSUME NEW p \in Process, NEW op \in {"install", "uninstall"}, NEW s \in Skill,
               NEW targets \in Platforms, Request(p, op, s, targets)
        PROVE  Entries'
    BY <2>1 DEF Request
  <2>2. ASSUME NEW p \in Process, Plan(p) PROVE Entries'
    BY <2>2 DEF Plan
  <2>3. ASSUME NEW p \in Process, Keep(p) PROVE Entries'
    BY <2>3 DEF Keep
  <2>4. ASSUME NEW p \in Process, Link(p) PROVE Entries'
    BY <2>4, TargetKnown DEF Link, CallsFit, Fits
  <2>5. ASSUME NEW p \in Process, LinkFails(p) PROVE Entries'
    BY <2>5 DEF LinkFails
  <2>6. ASSUME NEW p \in Process, Undo(p) PROVE Entries'
    BY <2>6, LastLinkKnown DEF Undo, LastLink
  <2>7. ASSUME NEW p \in Process, UndoRemove(p) PROVE Entries'
    BY <2>7, LastLinkKnown DEF UndoRemove, LastLink
  <2>8. ASSUME NEW p \in Process, Look(p) PROVE Entries'
    BY <2>8 DEF Look
  <2>9. ASSUME NEW p \in Process, Remove(p) PROVE Entries'
    BY <2>9, TargetKnown DEF Remove
  <2>10. ASSUME NEW p \in Process, Crash(p) PROVE Entries'
    BY <2>10 DEF Crash
  <2>11. ASSUME NEW f \in Platform, NEW new \in {Absent, File}, Edit(f, new) PROVE Entries'
    BY <2>11 DEF Edit
  <2>12. CASE UNCHANGED vars
    BY <2>12 DEF vars
  <2> QED
    BY <2>1, <2>2, <2>3, <2>4, <2>5, <2>6, <2>7, <2>8, <2>9, <2>10, <2>11, <2>12 DEF Next
<1> QED
  BY <1>1, <1>2

\* A step leaves the entries that the others have seen, or they are told.
LEMMA OthersTold ==
    ASSUME Entries, NEW p \in Process,
           \/ Looks(p)
           \/ \E f \in Platform : \E new, who : Changes(p, f, new, who)
           \/ raced' = [raced EXCEPT ![p] = {}] /\ UNCHANGED entry
           \/ UNCHANGED <<entry, raced>>
    PROVE  \A q \in Process : q # p =>
              /\ raced[q] \subseteq raced'[q]
              /\ \A f \in Platform : entry'[f] # entry[f] => f \in raced'[q]
  BY DEF Looks, Changes, Entries

\* What the others saw of the entries still holds, or the entry raced with them.
LEMMA SeenAfter ==
    ASSUME CallsFit, Entries, SeenLink, NEW p \in Process, NEW step, NEW c, NEW r,
           Moves(p, step, c, r),
           \/ step \notin {"remove", "undoRemove"}
           \/ step = "remove" /\ c = call[p] /\ entry'[Target(p)] = call[p].skill
           \/ step = "undoRemove" /\ c = call[p] /\ entry'[LastLink(call[p])] = call[p].skill,
           \A q \in Process : q # p =>
              /\ raced[q] \subseteq raced'[q]
              /\ \A f \in Platform : entry'[f] # entry[f] => f \in raced'[q]
    PROVE  SeenLink'
<1>1. /\ pc'[p] = step /\ call'[p] = c
      /\ \A q \in Process : q # p => pc'[q] = pc[q] /\ call'[q] = call[q]
  BY MovesFit
<1>2. \A q \in Process : q # p /\ pc'[q] = "remove" =>
         entry'[Target(q)'] = call'[q].skill \/ Target(q)' \in raced'[q]
  BY <1>1, TargetKnown DEF SeenLink, Target
<1>3. \A q \in Process : q # p /\ pc'[q] = "undoRemove" =>
         \/ entry'[LastLink(call'[q])] = call'[q].skill
         \/ LastLink(call'[q]) \in raced'[q]
  BY <1>1, LastLinkKnown DEF SeenLink
<1>4. /\ pc'[p] = "remove" => entry'[Target(p)'] = call'[p].skill
      /\ pc'[p] = "undoRemove" => entry'[LastLink(call'[p])] = call'[p].skill
  BY <1>1 DEF Target
<1> QED
  BY <1>2, <1>3, <1>4 DEF SeenLink, LastLink

\* Install and Uninstall look right before they remove (service.go, inspectLink
\* in rollback and Uninstall).
LEMMA StepSeen == CallsFit /\ Entries /\ SeenLink /\ [Next]_vars => SeenLink'
<1> SUFFICES ASSUME CallsFit, Entries, SeenLink, [Next]_vars
             PROVE  SeenLink'
  OBVIOUS
<1>1. ASSUME NEW p \in Process, NEW op \in {"install", "uninstall"}, NEW s \in Skill,
             NEW targets \in Platforms, Request(p, op, s, targets)
      PROVE  SeenLink'
  BY <1>1, RequestMoves, SeenAfter, OthersTold DEF Request
<1>2. ASSUME NEW p \in Process, Plan(p) PROVE SeenLink'
  BY <1>2, PlanMoves, SeenAfter, OthersTold DEF Plan
<1>3. ASSUME NEW p \in Process, Keep(p) PROVE SeenLink'
  BY <1>3, KeepMoves, SeenAfter, OthersTold DEF Keep
<1>4. ASSUME NEW p \in Process, Link(p) PROVE SeenLink'
  BY <1>4, LinkMoves, SeenAfter, OthersTold DEF Link
<1>5. ASSUME NEW p \in Process, LinkFails(p) PROVE SeenLink'
  BY <1>5, LinkFailsMoves, SeenAfter, OthersTold DEF LinkFails
<1>6. ASSUME NEW p \in Process, Undo(p) PROVE SeenLink'
  BY <1>6, UndoMoves, NextUndoMoves, SeenAfter, OthersTold DEF Undo, Looks
<1>7. ASSUME NEW p \in Process, UndoRemove(p) PROVE SeenLink'
  BY <1>7, NextUndoMoves, SeenAfter, LastLinkKnown, OthersTold DEF UndoRemove, LastLink
<1>8. ASSUME NEW p \in Process, Look(p) PROVE SeenLink'
  BY <1>8, LookMoves, SeenAfter, OthersTold DEF Look, Looks
<1>9. ASSUME NEW p \in Process, Remove(p) PROVE SeenLink'
  BY <1>9, RemoveMoves, TargetKnown, SeenAfter, OthersTold DEF Remove
<1>10. ASSUME NEW p \in Process, Crash(p) PROVE SeenLink'
  BY <1>10, ReturnMoves, SeenAfter, OthersTold DEF Crash, Results
<1>11. ASSUME NEW f \in Platform, NEW new \in {Absent, File}, Edit(f, new) PROVE SeenLink'
  BY <1>11, TargetKnown, LastLinkKnown DEF Edit, SeenLink, Entries, LastLink, Target
<1>12. CASE UNCHANGED vars
  BY <1>12 DEF vars, SeenLink, Target, LastLink
<1> QED
  BY <1>1, <1>2, <1>3, <1>4, <1>5, <1>6, <1>7, <1>8, <1>9, <1>10, <1>11, <1>12 DEF Next

\* Every link on disk is still known to the call that made it.
LEMMA LinksAfter ==
    ASSUME CallsFit, LinksKnown, NEW p \in Process, NEW step, NEW c, NEW r, Moves(p, step, c, r),
           \A f \in Platform : maker'[f] # Nobody => entry'[f] # Absent,
           \A q \in Process, f \in Platform : q # p /\ maker'[f] = q => maker[f] = q,
           \A q \in Process : q # p => stuck'[q] = stuck[q],
           \A f \in Platform : maker'[f] = p =>
              /\ step \notin {"plan", "uninstall", "remove"}
              /\ step \in {"install", "undo", "undoRemove"} => f \in Links(c) \cup stuck'[p]
              /\ r = "failed" => f \in stuck'[p]
    PROVE  LinksKnown'
<1>1. /\ pc'[p] = step /\ call'[p] = c /\ result'[p] = r
      /\ \A q \in Process : q # p =>
            pc'[q] = pc[q] /\ call'[q] = call[q] /\ result'[q] = result[q]
  BY MovesFit
<1>2. \A q \in Process, f \in Platform : q # p /\ maker'[f] = q =>
         /\ pc'[q] \notin {"plan", "uninstall", "remove"}
         /\ pc'[q] \in {"install", "undo", "undoRemove"} => f \in Links(call'[q]) \cup stuck'[q]
         /\ result'[q] = "failed" => f \in stuck'[q]
  BY <1>1 DEF LinksKnown
<1> QED
  BY <1>1, <1>2 DEF LinksKnown, Links

\* A call that has made no link yet changes nothing of this.
LEMMA NothingMade ==
    ASSUME CallsFit, Entries, LinksKnown, NEW p \in Process, NEW step, NEW c, NEW r,
           Moves(p, step, c, r), pc[p] \in {"plan", "uninstall", "remove"},
           Looks(p) \/ \E f \in Platform : Changes(p, f, Absent, Nobody),
           UNCHANGED stuck
    PROVE  LinksKnown'
<1>1. \A f \in Platform : maker[f] # p
  BY DEF LinksKnown
<1>2. \A f \in Platform : /\ maker'[f] # Nobody => entry'[f] # Absent
                          /\ maker'[f] \in {maker[f], Nobody}
  BY DEF Looks, Changes, Entries, LinksKnown
<1>3. \A f \in Platform : maker'[f] # p
  BY <1>1, <1>2, ActivationAssumption
<1>4. \A q \in Process, f \in Platform : q # p /\ maker'[f] = q => maker[f] = q
  BY <1>2, ActivationAssumption
<1> QED
  BY <1>2, <1>3, <1>4, LinksAfter

\* One that only looks keeps its links in its list.
LEMMA OnlyLooks ==
    ASSUME CallsFit, Entries, LinksKnown, NEW p \in Process, NEW step, NEW c, NEW r,
           Moves(p, step, c, r), Looks(p),
           \A q \in Process : stuck[q] \subseteq stuck'[q] /\ (q # p => stuck'[q] = stuck[q]),
           step \in {"idle", "install", "undo", "undoRemove"},
           pc[p] \in {"install", "undo", "undoRemove"},
           \A f \in Links(call[p]) : maker[f] = p /\ ~(step = "idle" /\ r # "failed")
                                        => f \in Links(c) \cup stuck'[p],
           r = "failed" => \A f \in Links(call[p]) : maker[f] = p => f \in stuck'[p],
           step = "idle" \/ r # "failed"
    PROVE  LinksKnown'
<1>1. maker' = maker /\ entry' = entry
  BY DEF Looks
<1>2. \A f \in Platform : maker[f] = p => f \in Links(call[p]) \cup stuck[p]
  BY DEF LinksKnown
<1>3. \A f \in Platform : maker'[f] # Nobody => entry'[f] # Absent
  BY <1>1 DEF LinksKnown
<1>4. \A f \in Platform : maker'[f] = p =>
         /\ step \notin {"plan", "uninstall", "remove"}
         /\ step \in {"install", "undo", "undoRemove"} => f \in Links(c) \cup stuck'[p]
         /\ r = "failed" => f \in stuck'[p]
  BY <1>1, <1>2
<1> QED
  BY <1>1, <1>3, <1>4, LinksAfter

\* A removed link is off both lists.
LEMMA LinkUndone ==
    ASSUME CallsFit, Entries, LinksKnown, NEW p \in Process, NEW step, NEW c, NEW r,
           Moves(p, step, c, r), pc[p] = "undoRemove", NEW g \in Platform,
           Changes(p, g, Absent, Nobody), UNCHANGED stuck,
           step \in {"idle", "undo"}, step = "undo" => Links(call[p]) \subseteq Links(c) \cup {g},
           step = "idle" => Links(call[p]) = {g}
    PROVE  LinksKnown'
<1>1. \A f \in Platform : maker'[f] = IF f = g THEN Nobody ELSE maker[f]
  BY DEF Changes, Entries
<1>2. \A f \in Platform : maker'[f] # Nobody => entry'[f] # Absent
  BY <1>1 DEF Changes, Entries, LinksKnown
<1>3. \A f \in Platform : maker'[f] = p => f # g /\ f \in Links(call[p]) \cup stuck[p]
  BY <1>1, ActivationAssumption DEF LinksKnown
<1>4. \A f \in Platform : maker'[f] = p =>
         /\ step \notin {"plan", "uninstall", "remove"}
         /\ step \in {"install", "undo", "undoRemove"} => f \in Links(c) \cup stuck'[p]
         /\ r = "failed" => f \in stuck'[p]
  BY <1>3 DEF Moves, Fits
<1>5. \A q \in Process, f \in Platform : q # p /\ maker'[f] = q => maker[f] = q
  BY <1>1, ActivationAssumption
<1> QED
  BY <1>2, <1>4, <1>5, LinksAfter

\* rollback takes a link off the list only when it is gone or counted as stuck.
LEMMA StepLinks == CallsFit /\ Entries /\ LinksKnown /\ [Next]_vars => LinksKnown'
<1> SUFFICES ASSUME CallsFit, Entries, LinksKnown, [Next]_vars
             PROVE  LinksKnown'
  OBVIOUS
<1> USE ActivationAssumption
<1>1. ASSUME NEW p \in Process, NEW op \in {"install", "uninstall"}, NEW s \in Skill,
             NEW targets \in Platforms, Request(p, op, s, targets)
      PROVE  LinksKnown'
  <2>1. \A f \in Platform : maker'[f] # p /\ maker'[f] \in {maker[f], Nobody}
    BY <1>1 DEF Request, Entries
  <2>2. /\ \A f \in Platform : maker'[f] # Nobody => entry'[f] # Absent
        /\ \A q \in Process, f \in Platform : q # p /\ maker'[f] = q => maker[f] = q
        /\ \A q \in Process : q # p => stuck'[q] = stuck[q]
    BY <1>1, <2>1 DEF Request, LinksKnown, Entries
  <2> QED
    BY <1>1, <2>1, <2>2, RequestMoves, LinksAfter
<1>2. ASSUME NEW p \in Process, Plan(p) PROVE LinksKnown'
  BY <1>2, PlanMoves, NothingMade DEF Plan
<1>3. ASSUME NEW p \in Process, Keep(p) PROVE LinksKnown'
  BY <1>3, KeepMoves, OnlyLooks DEF Keep
<1>4. ASSUME NEW p \in Process, Link(p) PROVE LinksKnown'
  <2>1. /\ Target(p) \in Platform /\ call[p].skill # Absent /\ pc[p] = "install"
        /\ Changes(p, Target(p), call[p].skill, p) /\ UNCHANGED stuck
    BY <1>4, LinkMoves, ActivationAssumption DEF Link, CallsFit, Fits
  <2>2. \A f \in Platform : maker'[f] = IF f = Target(p) THEN p ELSE maker[f]
    BY <2>1 DEF Changes, Entries
  <2>3. \A f \in Platform : maker'[f] # Nobody => entry'[f] # Absent
    BY <2>1, <2>2 DEF Changes, Entries, LinksKnown
  <2>4. \A f \in Platform : maker'[f] = p => f \in Links(call[p]) \cup {Target(p)} \cup stuck'[p]
    BY <2>1, <2>2 DEF LinksKnown
  <2>5. CASE Moves(p, "idle", Idle, "done")
    BY <2>1, <2>2, <2>3, <2>5, LinksAfter
  <2>6. ASSUME NEW d, Moves(p, "install", d, "none"),
               Links(d) = Links(call[p]) \cup {Target(p)}
        PROVE  LinksKnown'
    BY <2>1, <2>2, <2>3, <2>4, <2>6, LinksAfter
  <2> QED
    BY <1>4, <2>5, <2>6, LinkMoves
<1>5. ASSUME NEW p \in Process, LinkFails(p) PROVE LinksKnown'
  BY <1>5, LinkFailsMoves, OnlyLooks DEF LinkFails
<1>6. ASSUME NEW p \in Process, Undo(p) PROVE LinksKnown'
  <2>1. pc[p] = "undo" /\ Looks(p) /\ LastLink(call[p]) \in Platform
    BY <1>6, LastLinkKnown DEF Undo
  <2>2. CASE Moves(p, "undoRemove", call[p], "none") /\ UNCHANGED stuck
    BY <2>1, <2>2, OnlyLooks
  <2>3. CASE /\ NextUndo(p)
             /\ \/ entry[LastLink(call[p])] = Absent /\ UNCHANGED stuck
                \/ stuck' = [stuck EXCEPT ![p] = @ \cup {LastLink(call[p])}]
    <3>1. /\ \A q \in Process : stuck[q] \subseteq stuck'[q] /\ (q # p => stuck'[q] = stuck[q])
          /\ maker[LastLink(call[p])] = p => LastLink(call[p]) \in stuck'[p]
      BY <2>1, <2>3, ActivationAssumption DEF Entries, LinksKnown
    <3> QED
      BY <2>1, <2>3, <3>1, NextUndoMoves, OnlyLooks
  <2> QED
    BY <1>6, <2>2, <2>3, UndoMoves
<1>7. ASSUME NEW p \in Process, UndoRemove(p) PROVE LinksKnown'
  <2>1. pc[p] = "undoRemove" /\ NextUndo(p) /\ LastLink(call[p]) \in Platform
    BY <1>7, LastLinkKnown DEF UndoRemove
  <2>2. CASE Changes(p, LastLink(call[p]), Absent, Nobody) /\ UNCHANGED stuck
    BY <2>1, <2>2, NextUndoMoves, LinkUndone
  <2>3. CASE Looks(p) /\ stuck' = [stuck EXCEPT ![p] = @ \cup {LastLink(call[p])}]
    <3>1. /\ \A q \in Process : stuck[q] \subseteq stuck'[q] /\ (q # p => stuck'[q] = stuck[q])
          /\ LastLink(call[p]) \in stuck'[p]
      BY <2>3 DEF Entries
    <3> QED
      BY <2>1, <2>3, <3>1, NextUndoMoves, OnlyLooks
  <2> QED
    BY <1>7, <2>2, <2>3 DEF UndoRemove, LastLink
<1>8. ASSUME NEW p \in Process, Look(p) PROVE LinksKnown'
  BY <1>8, LookMoves, NothingMade DEF Look
<1>9. ASSUME NEW p \in Process, Remove(p) PROVE LinksKnown'
  BY <1>9, RemoveMoves, TargetKnown, NothingMade DEF Remove
<1>10. ASSUME NEW p \in Process, Crash(p) PROVE LinksKnown'
  BY <1>10, ReturnMoves, LinksAfter DEF Crash, LinksKnown, Results
<1>11. ASSUME NEW f \in Platform, NEW new \in {Absent, File}, Edit(f, new) PROVE LinksKnown'
  BY <1>11, ActivationAssumption DEF Edit, LinksKnown, Entries, Links
<1>12. CASE UNCHANGED vars
  BY <1>12 DEF vars, LinksKnown, Links
<1> QED
  BY <1>1, <1>2, <1>3, <1>4, <1>5, <1>6, <1>7, <1>8, <1>9, <1>10, <1>11, <1>12 DEF Next

-----------------------------------------------------------------------------
(* The theorems. *)

\* Nobody has begun, and no entry is anybody's link.
LEMMA InitActivation == Init => ActivationInv
<1> SUFFICES ASSUME Init
             PROVE  ActivationInv
  OBVIOUS
<1>1. CallsFit
  BY IdleCall DEF Init, CallsFit, Fits, Steps, Results
<1> QED
  BY <1>1, ActivationAssumption DEF Init, ActivationInv, Entries, SeenLink, LinksKnown

\* Every step keeps the invariant.
LEMMA StepActivation == ActivationInv /\ [Next]_vars => ActivationInv'
  BY StepTypes, StepSeen, StepLinks DEF ActivationInv

\* The inductive invariant, for any number of processes, skills and mishaps.
THEOREM ActivationInvariant == Spec => []ActivationInv
  BY InitActivation, StepActivation, PTL DEF Spec

\* An install that reports a failure leaves no link it has not reported.
THEOREM NothingHalfInstalled == Spec => []NoHalfInstall
<1>1. ActivationInv => NoHalfInstall
  BY DEF ActivationInv, LinksKnown, NoHalfInstall
<1> QED
  BY <1>1, ActivationInvariant, PTL

\* What a step takes away from the platforms is the skill's own link, or came
\* there after the look.
OwnLinksOnly ==
    \A p \in Process, f \in Platform :
        call'[p] # call[p] /\ entry'[f] # entry[f] =>
            \/ entry[f] = Absent \/ entry[f] = call[p].skill
            \/ entry'[f] = Absent /\ f \in raced[p]

\* Every step keeps to the links of the program.
LEMMA StepForeign == ActivationInv /\ [Next]_vars => [OwnLinksOnly]_vars
<1> SUFFICES ASSUME ActivationInv, [Next]_vars
             PROVE  OwnLinksOnly \/ UNCHANGED vars
  OBVIOUS
<1> USE DEF ActivationInv
<1>1. ASSUME NEW p \in Process, NEW op \in {"install", "uninstall"}, NEW s \in Skill,
             NEW targets \in Platforms, Request(p, op, s, targets)
      PROVE  OwnLinksOnly
  BY <1>1 DEF Request, OwnLinksOnly
<1>2. ASSUME NEW p \in Process, Plan(p) PROVE OwnLinksOnly
  BY <1>2 DEF Plan, Looks, OwnLinksOnly
<1>3. ASSUME NEW p \in Process, Keep(p) PROVE OwnLinksOnly
  BY <1>3 DEF Keep, Looks, OwnLinksOnly
<1>4. ASSUME NEW p \in Process, Link(p) PROVE OwnLinksOnly
  BY <1>4 DEF Link, Changes, Entries, OwnLinksOnly
<1>5. ASSUME NEW p \in Process, LinkFails(p) PROVE OwnLinksOnly
  BY <1>5 DEF LinkFails, Looks, OwnLinksOnly
<1>6. ASSUME NEW p \in Process, Undo(p) PROVE OwnLinksOnly
  BY <1>6 DEF Undo, Looks, OwnLinksOnly
<1>7. ASSUME NEW p \in Process, UndoRemove(p) PROVE OwnLinksOnly
  <2>1. \A f \in Platform : entry'[f] # entry[f] => f = LastLink(call[p]) /\ entry'[f] = Absent
    BY <1>7 DEF UndoRemove, Looks, Changes, Entries, LastLink
  <2>2. \A q \in Process : call'[q] # call[q] => q = p
    BY <1>7, NextUndoMoves, MovesFit DEF UndoRemove
  <2> QED
    BY <1>7, <2>1, <2>2 DEF UndoRemove, SeenLink, OwnLinksOnly
<1>8. ASSUME NEW p \in Process, Look(p) PROVE OwnLinksOnly
  BY <1>8 DEF Look, Looks, OwnLinksOnly
<1>9. ASSUME NEW p \in Process, Remove(p) PROVE OwnLinksOnly
  <2>1. \A f \in Platform : entry'[f] # entry[f] => f = Target(p) /\ entry'[f] = Absent
    BY <1>9 DEF Remove, Looks, Changes, Entries
  <2>2. \A q \in Process : call'[q] # call[q] => q = p
    BY <1>9, RemoveMoves, MovesFit
  <2> QED
    BY <1>9, <2>1, <2>2 DEF Remove, SeenLink, OwnLinksOnly
<1>10. ASSUME NEW p \in Process, Crash(p) PROVE OwnLinksOnly
  BY <1>10 DEF Crash, OwnLinksOnly
<1>11. ASSUME NEW f \in Platform, NEW new \in {Absent, File}, Edit(f, new) PROVE OwnLinksOnly
  BY <1>11 DEF Edit, OwnLinksOnly
<1>12. CASE UNCHANGED vars
  BY <1>12 DEF vars
<1> QED
  BY <1>1, <1>2, <1>3, <1>4, <1>5, <1>6, <1>7, <1>8, <1>9, <1>10, <1>11, <1>12 DEF Next

\* Neither operation touches what is not the skill's own link.
THEOREM ForeignEntriesKept == Spec => ForeignKept
  BY StepForeign, ActivationInvariant, PTL DEF Spec, ForeignKept, OwnLinksOnly

-----------------------------------------------------------------------------
(* The loops of HookInstall.  What a loop over a sequence computes is proved   *)
(* with the least round after which it would be wrong.                         *)

\* A set of natural numbers that is not empty has a least element: what every
\* proof about a loop below rests on.
LEMMA LeastNumber ==
    ASSUME NEW T \in SUBSET Nat, T # {}
    PROVE  \E n \in T : \A m \in T : ~(m < n)
<1>1. PICK n \in T : \A m \in T : <<m, n>> \notin OpToRel(<, Nat)
  BY NatLessThanWellFounded, WFMin
<1>2. \A m \in T : m < n => <<m, n>> \in OpToRel(<, Nat)
  BY DEF OpToRel
<1> QED BY <1>1, <1>2

\* The course of a loop over 1..n that starts with a and does F in each round.
Course(f, n, a, F) ==
    /\ f[0] = a
    /\ \A i \in 1..n : f[i] = F[<<f[i - 1], i>>]

\* Every loop has a course.
LEMMA LoopRuns ==
    ASSUME NEW A, NEW a \in A, NEW N \in Nat, NEW F \in [A \X (1..N) -> A]
    PROVE  \E f \in [0..N -> A] : Course(f, N, a, F)
<1> DEFINE Missing == {k \in 0..N : \A f \in [0..k -> A] : ~Course(f, k, a, F)}
<1>1. ASSUME NEW k \in 0..N, k \in Missing, \A m \in Missing : ~(m < k)
      PROVE  FALSE
  <2>1. CASE k = 0
    <3> DEFINE g == [n \in 0..0 |-> a]
    <3>1. g \in [0..0 -> A] /\ g[0] = a
      OBVIOUS
    <3>2. Course(g, 0, a, F)
      BY <3>1 DEF Course
    <3> QED BY <1>1, <2>1, <3>1, <3>2
  <2>2. CASE k # 0
    <3>1. k - 1 \in 0..N /\ k \in 1..N /\ k - 1 < k
      BY <1>1, <2>2
    <3>2. k - 1 \notin Missing
      BY <1>1, <3>1
    <3>3. PICK f \in [0..(k - 1) -> A] : Course(f, k - 1, a, F)
      BY <3>1, <3>2
    <3> DEFINE b == F[<<f[k - 1], k>>]
               g == [n \in 0..k |-> IF n = k THEN b ELSE f[n]]
    <3>4. b \in A
      BY <3>1, <3>3
    <3> HIDE DEF b
    <3>5. \A n \in 0..k : n # k => n \in 0..(k - 1)
      BY <3>1
    <3>6. g \in [0..k -> A]
      BY <3>3, <3>4, <3>5
    <3>7. g[k] = b /\ \A n \in 0..(k - 1) : g[n] = f[n]
      BY <3>1
    <3> HIDE DEF g
    <3>8. g[0] = a
      BY <3>1, <3>3, <3>7 DEF Course
    <3>9. ASSUME NEW i \in 1..k PROVE g[i] = F[<<g[i - 1], i>>]
      <4>1. i - 1 \in 0..(k - 1)
        BY <3>1
      <4>2. CASE i = k
        BY <3>7, <4>1, <4>2 DEF b
      <4>3. CASE i # k
        <5>1. i \in 1..(k - 1) /\ i \in 0..(k - 1)
          BY <3>1, <4>3
        <5> QED BY <3>3, <3>7, <4>1, <5>1 DEF Course
      <4> QED BY <4>2, <4>3
    <3>10. Course(g, k, a, F)
      BY <3>8, <3>9 DEF Course
    <3> QED BY <1>1, <3>6, <3>10
  <2> QED BY <2>1, <2>2
<1>2. Missing \in SUBSET Nat /\ Missing \subseteq 0..N
  OBVIOUS
<1> HIDE DEF Missing
<1>3. Missing = {}
  BY <1>1, <1>2, LeastNumber
<1> QED BY <1>3 DEF Missing

\* Keeping keeps the kind of the elements.
LEMMA KeepingTyped ==
    ASSUME NEW V, NEW S, NEW kept \in Seq(V), NEW x \in V
    PROVE  Keeping(kept, x, S) \in Seq(V)
<1>1. Append(kept, x) \in Seq(V)
  OBVIOUS
<1> QED BY <1>1 DEF Keeping

\* The courses of Only's loop.
Courses(s, V, S) ==
    {f \in [0..Len(s) -> Seq(V)] :
        /\ f[0] = <<>>
        /\ \A n \in 1..Len(s) : f[n] = Keeping(f[n - 1], s[n], S)
        /\ Only(s, S) = f[Len(s)]}

\* Only is a loop over its sequence: it has a course, ending in its result.
LEMMA OnlyRuns ==
    ASSUME NEW V, NEW S, NEW s \in Seq(V)
    PROVE  Courses(s, V, S) # {}
<1> DEFINE N == Len(s)
           F == [p \in Seq(V) \X (1..N) |-> Keeping(p[1], s[p[2]], S)]
           Solves(f) == f = [n \in 0..N |-> IF n = 0 THEN <<>> ELSE Keeping(f[n - 1], s[n], S)]
           g == CHOOSE f : Solves(f)
<1>1. N \in Nat /\ <<>> \in Seq(V)
  OBVIOUS
<1>2. F \in [Seq(V) \X (1..N) -> Seq(V)]
  <2> SUFFICES ASSUME NEW p \in Seq(V) \X (1..N)
               PROVE  Keeping(p[1], s[p[2]], S) \in Seq(V)
    OBVIOUS
  <2>1. p[1] \in Seq(V) /\ p[2] \in 1..N
    OBVIOUS
  <2>2. s[p[2]] \in V
    BY <2>1
  <2> QED BY <2>1, <2>2, KeepingTyped
<1>3. PICK f \in [0..N -> Seq(V)] : Course(f, N, <<>>, F)
  <2> HIDE DEF F, N
  <2> QED BY <1>1, <1>2, LoopRuns
<1>4. f[0] = <<>> /\ \A n \in 1..N : f[n] = Keeping(f[n - 1], s[n], S)
  <2> SUFFICES ASSUME NEW n \in 1..N PROVE f[n] = Keeping(f[n - 1], s[n], S)
    BY <1>3 DEF Course
  <2>1. f[n - 1] \in Seq(V)
    BY <1>3
  <2>2. F[<<f[n - 1], n>>] = Keeping(f[n - 1], s[n], S)
    BY <2>1
  <2> QED BY <1>3, <2>2 DEF Course
<1>5. Solves(f)
  <2>1. f \in [0..N -> Seq(V)]
    BY <1>3
  <2>2. ASSUME NEW n \in 0..N PROVE f[n] = IF n = 0 THEN <<>> ELSE Keeping(f[n - 1], s[n], S)
    <3>1. n = 0 \/ n \in 1..N
      BY <1>1
    <3> HIDE DEF N, F
    <3> QED BY <1>4, <3>1
  <2> HIDE DEF N, F
  <2> QED BY <2>1, <2>2
<1>6. Solves(g)
  <2> HIDE DEF Solves
  <2> QED BY <1>5
<1>7. Only(s, S) = g[N]
  BY DEF Only
<1> HIDE DEF g
<1>8. g[0] = <<>> /\ \A n \in 1..N : g[n] = Keeping(g[n - 1], s[n], S)
  BY <1>1, <1>6
<1>9. \A n \in 0..N : g[n] = f[n]
  <2> DEFINE Differ == {n \in 0..N : g[n] # f[n]}
  <2>1. ASSUME NEW n \in Differ, \A m \in Differ : ~(m < n) PROVE FALSE
    <3>1. n # 0
      BY <1>4, <1>8
    <3>2. n \in 1..N /\ n - 1 \in 0..N /\ n - 1 < n
      BY <1>1, <3>1
    <3>3. g[n - 1] = f[n - 1]
      BY <2>1, <3>2
    <3> QED BY <1>4, <1>8, <3>2, <3>3
  <2>2. Differ \in SUBSET Nat
    BY <1>1
  <2> HIDE DEF Differ
  <2>3. Differ = {}
    BY <2>1, <2>2, LeastNumber
  <2> QED BY <2>3 DEF Differ
<1>10. Only(s, S) = f[N]
  <2>1. N \in 0..N
    BY <1>1
  <2> HIDE DEF N
  <2> QED BY <1>7, <1>9, <2>1
<1> HIDE DEF F
<1>11. f \in Courses(s, V, S)
  BY <1>3, <1>4, <1>10 DEF Courses
<1> QED BY <1>11

\* Only of one element more decides about that one.
LEMMA OnlyAppend ==
    ASSUME NEW V, NEW S, NEW s \in Seq(V), NEW x \in V
    PROVE  /\ Only(s, S) \in Seq(V)
           /\ Only(Append(s, x), S) = Keeping(Only(s, S), x, S)
<1> DEFINE N == Len(s)
           more == Append(s, x)
<1>1. /\ N \in Nat /\ more \in Seq(V) /\ Len(more) = N + 1
      /\ more[N + 1] = x /\ \A n \in 1..N : more[n] = s[n]
  OBVIOUS
<1> HIDE DEF more
<1>2. PICK f \in Courses(s, V, S) : TRUE
  BY OnlyRuns
<1>3. PICK g \in Courses(more, V, S) : TRUE
  BY <1>1, OnlyRuns
<1>2a. /\ f \in [0..N -> Seq(V)] /\ f[0] = <<>>
       /\ \A n \in 1..N : f[n] = Keeping(f[n - 1], s[n], S)
       /\ Only(s, S) = f[N]
  BY <1>2 DEF Courses
<1>3a. /\ g \in [0..(N + 1) -> Seq(V)] /\ g[0] = <<>>
       /\ \A n \in 1..(N + 1) : g[n] = Keeping(g[n - 1], more[n], S)
       /\ Only(more, S) = g[N + 1]
  BY <1>1, <1>3 DEF Courses
<1>4. \A n \in 0..N : g[n] = f[n]
  <2> DEFINE Differ == {n \in 0..N : g[n] # f[n]}
  <2>1. ASSUME NEW n \in Differ, \A k \in Differ : ~(k < n) PROVE FALSE
    <3>1. n # 0
      BY <1>2a, <1>3a
    <3>2. n \in 1..N /\ n - 1 \in 0..N /\ n - 1 < n /\ n \in 1..(N + 1)
      BY <1>1, <3>1
    <3>3. g[n - 1] = f[n - 1]
      BY <2>1, <3>2
    <3> QED BY <1>1, <1>2a, <1>3a, <3>2, <3>3
  <2>2. Differ \in SUBSET Nat
    BY <1>1
  <2> HIDE DEF Differ
  <2>3. Differ = {}
    BY <2>1, <2>2, LeastNumber
  <2> QED BY <2>3 DEF Differ
<1>5. N + 1 \in 1..(N + 1) /\ (N + 1) - 1 = N /\ N \in 0..N
  BY <1>1
<1>6. Only(more, S) = Keeping(g[N], x, S)
  BY <1>1, <1>3a, <1>5
<1> HIDE DEF N
<1>7. f[N] \in Seq(V) /\ g[N] = f[N]
  BY <1>2a, <1>4, <1>5
<1>8. Only(s, S) \in Seq(V) /\ Only(s, S) = g[N]
  BY <1>2a, <1>7, Zenon
<1>9. Only(more, S) = Keeping(Only(s, S), x, S)
  BY <1>6, <1>8, Zenon
<1> QED BY <1>8, <1>9, Zenon DEF more

\* Only of a sequence is a sequence of the same kind.
LEMMA OnlyTyped ==
    ASSUME NEW V, NEW S, NEW s \in Seq(V)
    PROVE  Only(s, S) \in Seq(V)
<1>1. PICK f \in Courses(s, V, S) : TRUE
  BY OnlyRuns
<1>2. f \in [0..Len(s) -> Seq(V)] /\ Only(s, S) = f[Len(s)]
  BY <1>1 DEF Courses
<1>3. Len(s) \in 0..Len(s)
  OBVIOUS
<1> QED BY <1>2, <1>3

\* How often a group has a handler is a number.
LEMMA InTyped ==
    ASSUME NEW v, NEW g \in Groups
    PROVE  In(g, v) \in Nat
<1>1. g.handlers \in Seq(Handler)
  BY DEF Groups
<1> QED BY <1>1, OnlyTyped DEF In

\* The courses of the loop of Copies.
Sums(gs, v) ==
    {f \in [0..Len(gs) -> Nat] :
        /\ f[0] = 0
        /\ \A n \in 1..Len(gs) : f[n] = f[n - 1] + In(gs[n], v)
        /\ Copies(gs, v) = f[Len(gs)]}

\* Copies is a loop over the groups: it has a course, ending in its result.
LEMMA CopiesRuns ==
    ASSUME NEW v, NEW gs \in Seq(Groups)
    PROVE  Sums(gs, v) # {}
<1> DEFINE N == Len(gs)
           F == [p \in Nat \X (1..N) |-> p[1] + In(gs[p[2]], v)]
           Solves(f) == f = [n \in 0..N |-> IF n = 0 THEN 0 ELSE f[n - 1] + In(gs[n], v)]
           g == CHOOSE f : Solves(f)
<1>1. N \in Nat /\ 0 \in Nat
  OBVIOUS
<1>2. F \in [Nat \X (1..N) -> Nat]
  <2> SUFFICES ASSUME NEW p \in Nat \X (1..N)
               PROVE  p[1] + In(gs[p[2]], v) \in Nat
    OBVIOUS
  <2>1. p[1] \in Nat /\ p[2] \in 1..N
    OBVIOUS
  <2>2. gs[p[2]] \in Groups
    BY <2>1
  <2> QED BY <2>1, <2>2, InTyped
<1>3. PICK f \in [0..N -> Nat] : Course(f, N, 0, F)
  <2> HIDE DEF F, N
  <2> QED BY <1>1, <1>2, LoopRuns
<1>4. f[0] = 0 /\ \A n \in 1..N : f[n] = f[n - 1] + In(gs[n], v)
  <2> SUFFICES ASSUME NEW n \in 1..N PROVE f[n] = f[n - 1] + In(gs[n], v)
    BY <1>3 DEF Course
  <2>0. n - 1 \in 0..N
    BY <1>1
  <2>1. f[n - 1] \in Nat
    <3> HIDE DEF F, N
    <3> QED BY <1>3, <2>0
  <2>2. F[<<f[n - 1], n>>] = f[n - 1] + In(gs[n], v)
    BY <2>1
  <2> QED BY <1>3, <2>2 DEF Course
<1>5. Solves(f)
  <2>1. f \in [0..N -> Nat]
    BY <1>3
  <2>2. ASSUME NEW n \in 0..N PROVE f[n] = IF n = 0 THEN 0 ELSE f[n - 1] + In(gs[n], v)
    <3>1. n = 0 \/ n \in 1..N
      BY <1>1
    <3> HIDE DEF N, F
    <3> QED BY <1>4, <3>1
  <2> HIDE DEF N, F
  <2> QED BY <2>1, <2>2
<1>6. Solves(g)
  <2> HIDE DEF Solves
  <2> QED BY <1>5
<1>7. Copies(gs, v) = g[N]
  BY DEF Copies, In
<1> HIDE DEF g
<1>8. g[0] = 0 /\ \A n \in 1..N : g[n] = g[n - 1] + In(gs[n], v)
  BY <1>1, <1>6
<1>9. \A n \in 0..N : g[n] = f[n]
  <2> DEFINE Differ == {n \in 0..N : g[n] # f[n]}
  <2>1. ASSUME NEW n \in Differ, \A m \in Differ : ~(m < n) PROVE FALSE
    <3>1. n # 0
      BY <1>4, <1>8
    <3>2. n \in 1..N /\ n - 1 \in 0..N /\ n - 1 < n
      BY <1>1, <3>1
    <3>3. g[n - 1] = f[n - 1]
      BY <2>1, <3>2
    <3> QED BY <1>4, <1>8, <3>2, <3>3
  <2>2. Differ \in SUBSET Nat
    BY <1>1
  <2> HIDE DEF Differ
  <2>3. Differ = {}
    BY <2>1, <2>2, LeastNumber
  <2> QED BY <2>3 DEF Differ
<1>10. Copies(gs, v) = f[N]
  <2>1. N \in 0..N
    BY <1>1
  <2> HIDE DEF N
  <2> QED BY <1>7, <1>9, <2>1
<1> HIDE DEF F
<1>11. f \in Sums(gs, v)
  BY <1>3, <1>4, <1>10 DEF Sums
<1> QED BY <1>11

\* The copies among one group more are those before and those in that group.
LEMMA CopiesAppend ==
    ASSUME NEW v, NEW gs \in Seq(Groups), NEW x \in Groups
    PROVE  /\ Copies(gs, v) \in Nat
           /\ Copies(Append(gs, x), v) = Copies(gs, v) + In(x, v)
<1> DEFINE N == Len(gs)
           more == Append(gs, x)
<1>1. /\ N \in Nat /\ more \in Seq(Groups) /\ Len(more) = N + 1
      /\ more[N + 1] = x /\ \A n \in 1..N : more[n] = gs[n]
  OBVIOUS
<1> HIDE DEF more
<1>2. PICK f \in Sums(gs, v) : TRUE
  BY CopiesRuns
<1>3. PICK g \in Sums(more, v) : TRUE
  BY <1>1, CopiesRuns
<1>2a. /\ f \in [0..N -> Nat] /\ f[0] = 0
       /\ \A n \in 1..N : f[n] = f[n - 1] + In(gs[n], v)
       /\ Copies(gs, v) = f[N]
  BY <1>2 DEF Sums
<1>3a. /\ g \in [0..(N + 1) -> Nat] /\ g[0] = 0
       /\ \A n \in 1..(N + 1) : g[n] = g[n - 1] + In(more[n], v)
       /\ Copies(more, v) = g[N + 1]
  BY <1>1, <1>3 DEF Sums
<1>4. \A n \in 0..N : g[n] = f[n]
  <2> DEFINE Differ == {n \in 0..N : g[n] # f[n]}
  <2>1. ASSUME NEW n \in Differ, \A k \in Differ : ~(k < n) PROVE FALSE
    <3>1. n # 0
      BY <1>2a, <1>3a
    <3>2. n \in 1..N /\ n - 1 \in 0..N /\ n - 1 < n /\ n \in 1..(N + 1)
      BY <1>1, <3>1
    <3>3. g[n - 1] = f[n - 1]
      BY <2>1, <3>2
    <3> QED BY <1>1, <1>2a, <1>3a, <3>2, <3>3
  <2>2. Differ \in SUBSET Nat
    BY <1>1
  <2> HIDE DEF Differ
  <2>3. Differ = {}
    BY <2>1, <2>2, LeastNumber
  <2> QED BY <2>3 DEF Differ
<1>5. N + 1 \in 1..(N + 1) /\ (N + 1) - 1 = N /\ N \in 0..N
  BY <1>1
<1>6. Copies(more, v) = g[N] + In(x, v)
  BY <1>1, <1>3a, <1>5
<1> QED BY <1>2a, <1>4, <1>5, <1>6 DEF more

\* A loop over nothing has done nothing.
LEMMA NothingLeft ==
    /\ \A S : Only(<<>>, S) = <<>>
    /\ \A v : Copies(<<>>, v) = 0
<1>1. ASSUME NEW S PROVE Only(<<>>, S) = <<>>
  <2>1. <<>> \in Seq({}) /\ Len(<<>>) = 0
    OBVIOUS
  <2>2. PICK f \in Courses(<<>>, {}, S) : TRUE
    BY <2>1, OnlyRuns
  <2> QED BY <2>1, <2>2 DEF Courses
<1>2. ASSUME NEW v PROVE Copies(<<>>, v) = 0
  <2>1. <<>> \in Seq(Groups) /\ Len(<<>>) = 0
    OBVIOUS
  <2>2. PICK f \in Sums(<<>>, v) : TRUE
    BY <2>1, CopiesRuns
  <2> QED BY <2>1, <2>2 DEF Sums
<1> QED BY <1>1, <1>2

\* What the empty sequence is in, and one element more leaves a sequence in, every
\* sequence is in.
LEMMA AllSequences ==
    ASSUME NEW V, NEW T, <<>> \in T,
           \A s \in Seq(V) : s \in T => \A x \in V : Append(s, x) \in T
    PROVE  Seq(V) \subseteq T
<1> DEFINE Bad == {n \in Nat : \E s \in Seq(V) : Len(s) = n /\ s \notin T}
<1>1. ASSUME NEW n \in Bad, \A m \in Bad : ~(m < n) PROVE FALSE
  <2>1. PICK s \in Seq(V) : Len(s) = n /\ s \notin T
    BY <1>1
  <2>2. CASE s = <<>>
    BY <2>1, <2>2
  <2>3. CASE s # <<>>
    <3> DEFINE r == [i \in 1..(Len(s) - 1) |-> s[i]]
               x == s[Len(s)]
    <3>1. Len(s) \in Nat /\ Len(s) # 0 /\ x \in V
      BY <2>3
    <3>2. r \in Seq(V) /\ Len(r) = Len(s) - 1
      BY <3>1
    <3>3. Append(r, x) = s
      BY <3>1, <3>2
    <3>4. Len(r) \in Nat /\ Len(r) < n
      BY <2>1, <3>1, <3>2
    <3> HIDE DEF r, x
    <3>5. r \in T
      BY <1>1, <3>2, <3>4
    <3> QED BY <2>1, <3>1, <3>2, <3>3, <3>5
  <2> QED BY <2>2, <2>3
<1>2. Bad \in SUBSET Nat
  OBVIOUS
<1> HIDE DEF Bad
<1>3. Bad = {}
  BY <1>1, <1>2, LeastNumber
<1> QED BY <1>3 DEF Bad

-----------------------------------------------------------------------------
(* Documents. *)

\* Two filters are one.
LEMMA OnlyTwice ==
    ASSUME NEW V, NEW S, NEW R, NEW s \in Seq(V)
    PROVE  Only(Only(s, S), R) = Only(s, S \cap R)
<1> DEFINE T == {q \in Seq(V) : Only(Only(q, S), R) = Only(q, S \cap R)}
<1>1. <<>> \in T
  BY NothingLeft
<1>2. ASSUME NEW q \in Seq(V), q \in T, NEW x \in V PROVE Append(q, x) \in T
  <2>1. Only(Append(q, x), S) = Keeping(Only(q, S), x, S) /\ Only(q, S) \in Seq(V)
    BY OnlyAppend
  <2>2. Only(Append(q, x), S \cap R) = Keeping(Only(q, S \cap R), x, S \cap R)
    BY OnlyAppend
  <2>3. Only(Append(Only(q, S), x), R) = Keeping(Only(Only(q, S), R), x, R)
    BY <2>1, OnlyAppend
  <2>4. Only(Only(Append(q, x), S), R) = Only(Append(q, x), S \cap R)
    <3>1. Only(Only(q, S), R) = Only(q, S \cap R)
      BY <1>2
    <3>2. CASE x \in S
      <4>1. Only(Append(q, x), S) = Append(Only(q, S), x)
        BY <2>1, <3>2 DEF Keeping
      <4>2. x \in R <=> x \in S \cap R
        BY <3>2
      <4> QED BY <2>2, <2>3, <3>1, <4>1, <4>2 DEF Keeping
    <3>3. CASE x \notin S
      <4>1. Only(Append(q, x), S) = Only(q, S) /\ x \notin S \cap R
        BY <2>1, <3>3 DEF Keeping
      <4> QED BY <2>2, <3>1, <4>1 DEF Keeping
    <3> QED BY <3>2, <3>3
  <2> QED BY <2>4
<1> HIDE DEF T
<1>3. Seq(V) \subseteq T
  BY <1>1, <1>2, AllSequences
<1> QED BY <1>3 DEF T

\* A filter leaves nothing of a sequence without what it keeps, and something of others.
LEMMA OnlyNothing ==
    ASSUME NEW V, NEW S, NEW s \in Seq(V)
    PROVE  Only(s, S) = <<>> <=> \A i \in 1..Len(s) : s[i] \notin S
<1> DEFINE T == {q \in Seq(V) : Only(q, S) = <<>> <=> \A i \in 1..Len(q) : q[i] \notin S}
<1>1. <<>> \in T
  BY NothingLeft
<1>2. ASSUME NEW q \in Seq(V), q \in T, NEW x \in V PROVE Append(q, x) \in T
  <2> DEFINE more == Append(q, x)
  <2>1. Only(more, S) = Keeping(Only(q, S), x, S) /\ Only(q, S) \in Seq(V)
    BY OnlyAppend
  <2>2. /\ more \in Seq(V) /\ Len(q) \in Nat /\ Len(more) = Len(q) + 1
        /\ more[Len(q) + 1] = x /\ \A i \in 1..Len(q) : more[i] = q[i]
    OBVIOUS
  <2> HIDE DEF more
  <2>3. \A i : i \in 1..Len(more) <=> i \in 1..Len(q) \/ i = Len(q) + 1
    BY <2>2
  <2>4. (\A i \in 1..Len(more) : more[i] \notin S)
            <=> x \notin S /\ \A i \in 1..Len(q) : q[i] \notin S
    BY <2>2, <2>3
  <2>5. Append(Only(q, S), x) # <<>>
    BY <2>1
  <2>6. Only(more, S) = <<>> <=> \A i \in 1..Len(more) : more[i] \notin S
    BY <1>2, <2>1, <2>4, <2>5 DEF Keeping
  <2> QED BY <2>2, <2>6 DEF more
<1> HIDE DEF T
<1>3. Seq(V) \subseteq T
  BY <1>1, <1>2, AllSequences
<1> QED BY <1>3 DEF T

\* A group without a handler is a group of the same kind, and taking the handler
\* away again changes nothing.
LEMMA WithoutGroup ==
    ASSUME NEW g \in Groups, NEW v
    PROVE  /\ Without(g, v) \in Groups
           /\ Without(g, v).matcher = g.matcher
           /\ Without(Without(g, v), v) = Without(g, v)
<1> DEFINE S == Handler \ {v}
<1>1. g.handlers \in Seq(Handler) /\ g.matcher \in BOOLEAN
  BY DEF Groups
<1>2. Only(g.handlers, S) \in Seq(Handler)
  BY <1>1, OnlyTyped
<1>3. Only(Only(g.handlers, S), S) = Only(g.handlers, S)
  <2>1. Only(Only(g.handlers, S), S) = Only(g.handlers, S \cap S)
    BY <1>1, OnlyTwice
  <2>2. S \cap S = S
    OBVIOUS
  <2> QED BY <2>1, <2>2, Zenon
<1> HIDE DEF S
<1>4. Without(g, v) = Group(Only(g.handlers, S), g.matcher)
  BY DEF Without, S
<1>5. Without(Without(g, v), v) = Group(Only(Only(g.handlers, S), S), g.matcher)
  BY <1>4 DEF Without, S, Group
<1> QED BY <1>1, <1>2, <1>3, <1>4, <1>5 DEF Groups, Group

\* Taking one handler away leaves the copies of the others.
LEMMA InWithout ==
    ASSUME NEW g \in Groups, NEW w \in Handler, NEW v \in Handler
    PROVE  In(Without(g, w), v) = IF v = w THEN 0 ELSE In(g, v)
<1>1. g.handlers \in Seq(Handler)
  BY DEF Groups
<1>2. Without(g, w).handlers = Only(g.handlers, Handler \ {w})
  BY DEF Without, Group
<1>3. In(Without(g, w), v) = Len(Only(g.handlers, (Handler \ {w}) \cap {v}))
  <2>1. Only(Only(g.handlers, Handler \ {w}), {v}) = Only(g.handlers, (Handler \ {w}) \cap {v})
    BY <1>1, OnlyTwice
  <2> QED BY <1>2, <2>1 DEF In
<1>4. CASE v = w
  <2>1. (Handler \ {w}) \cap {v} = {}
    BY <1>4
  <2>2. Only(g.handlers, {}) = <<>>
    BY <1>1, OnlyNothing
  <2>3. In(Without(g, w), v) = Len(<<>>)
    BY <1>3, <2>1, <2>2, Zenon
  <2> QED BY <1>4, <2>3
<1>5. CASE v # w
  <2>1. (Handler \ {w}) \cap {v} = {v}
    BY <1>5
  <2> QED BY <1>3, <1>5, <2>1 DEF In
<1> QED BY <1>4, <1>5

\* A group of one handler has it once and no other.
LEMMA InSingle ==
    ASSUME NEW w \in Handler, NEW v \in Handler, NEW matcher \in BOOLEAN
    PROVE  /\ Group(<<w>>, matcher) \in Groups
           /\ In(Group(<<w>>, matcher), v) = IF v = w THEN 1 ELSE 0
<1>1. <<w>> = Append(<<>>, w) /\ <<>> \in Seq(Handler) /\ <<w>> \in Seq(Handler)
  OBVIOUS
<1>2. Only(<<w>>, {v}) = Keeping(<<>>, w, {v})
  <2>1. Only(Append(<<>>, w), {v}) = Keeping(Only(<<>>, {v}), w, {v})
    BY <1>1, OnlyAppend
  <2> QED BY <1>1, <2>1, NothingLeft
<1>3. Len(Keeping(<<>>, w, {v})) = IF v = w THEN 1 ELSE 0
  BY DEF Keeping
<1>4. Group(<<w>>, matcher).handlers = <<w>>
  BY DEF Group
<1>5. Group(<<w>>, matcher) \in Groups
  BY <1>1 DEF Group, Groups
<1> QED BY <1>2, <1>3, <1>4, <1>5 DEF In

\* Taking a handler from all groups takes it from each.
LEMMA AllWithoutAppend ==
    ASSUME NEW gs \in Seq(Groups), NEW g \in Groups, NEW v
    PROVE  /\ AllWithout(<<>>, v) = <<>>
           /\ AllWithout(gs, v) \in Seq(Groups)
           /\ AllWithout(Append(gs, g), v) = Append(AllWithout(gs, v), Without(g, v))
<1> DEFINE more == Append(gs, g)
           a == AllWithout(gs, v)
<1>1. /\ more \in Seq(Groups) /\ Len(gs) \in Nat /\ Len(more) = Len(gs) + 1
      /\ more[Len(gs) + 1] = g /\ \A i \in 1..Len(gs) : more[i] = gs[i]
      /\ DOMAIN gs = 1..Len(gs) /\ DOMAIN more = 1..(Len(gs) + 1)
  OBVIOUS
<1> HIDE DEF more
<1>2. a \in Seq(Groups) /\ Len(a) = Len(gs) /\ \A i \in 1..Len(gs) : a[i] = Without(gs[i], v)
  <2>1. \A i \in 1..Len(gs) : gs[i] \in Groups /\ Without(gs[i], v) \in Groups
    BY WithoutGroup
  <2> QED BY <1>1, <2>1 DEF AllWithout
<1> HIDE DEF a
<1>3. Without(g, v) \in Groups
  BY WithoutGroup
<1>4. AllWithout(more, v) = [i \in 1..(Len(gs) + 1) |-> Without(more[i], v)]
  BY <1>1 DEF AllWithout
<1>5. Append(a, Without(g, v)) = [i \in 1..(Len(gs) + 1) |-> Without(more[i], v)]
  <2> DEFINE x == Without(g, v)
             b == Append(a, x)
             c == [i \in 1..(Len(gs) + 1) |-> Without(more[i], v)]
  <2>1. \A i \in 1..(Len(gs) + 1) : more[i] \in Groups /\ Without(more[i], v) \in Groups
    BY <1>1, WithoutGroup
  <2>2. c \in Seq(Groups) /\ Len(c) = Len(gs) + 1
    BY <1>1, <2>1
  <2>3. x = Without(more[Len(gs) + 1], v) /\ x \in Groups
    BY <1>1, <1>3
  <2>4. \A i \in 1..Len(gs) : a[i] = Without(more[i], v)
    BY <1>1, <1>2
  <2> HIDE DEF x
  <2>5. b \in Seq(Groups) /\ Len(b) = Len(gs) + 1
    BY <1>2, <2>3
  <2>6. \A i \in 1..(Len(gs) + 1) : b[i] = IF i = Len(gs) + 1 THEN x ELSE a[i]
    BY <1>1, <1>2, <2>3
  <2>7. \A i \in 1..(Len(gs) + 1) : i = Len(gs) + 1 \/ i \in 1..Len(gs)
    BY <1>1
  <2>8. \A i \in 1..(Len(gs) + 1) : b[i] = c[i]
    BY <2>3, <2>4, <2>6, <2>7
  <2> HIDE DEF b, c
  <2>9. b = c
    BY <2>2, <2>5, <2>8, SeqEqual
  <2> QED BY <2>9 DEF b, c, x
<1>6. AllWithout(<<>>, v) = <<>>
  BY DEF AllWithout
<1> QED BY <1>2, <1>4, <1>5, <1>6 DEF a, more

\* What removeHandler does to one group more.
LEMMA RemoveAppend ==
    ASSUME NEW gs \in Seq(Groups), NEW g \in Groups, NEW v
    PROVE  /\ RemoveHandler(<<>>, v) = <<>>
           /\ RemoveHandler(gs, v) \in Seq(Groups)
           /\ RemoveHandler(Append(gs, g), v) =
                 IF g \in Stays(v) THEN Append(RemoveHandler(gs, v), Without(g, v))
                 ELSE RemoveHandler(gs, v)
<1> DEFINE kept == Only(gs, Stays(v))
<1>1. Only(Append(gs, g), Stays(v)) = Keeping(kept, g, Stays(v)) /\ kept \in Seq(Groups)
  BY OnlyAppend
<1>2. Only(<<>>, Stays(v)) = <<>>
  BY NothingLeft
<1> HIDE DEF kept
<1>3. /\ AllWithout(<<>>, v) = <<>> /\ AllWithout(kept, v) \in Seq(Groups)
      /\ AllWithout(Append(kept, g), v) = Append(AllWithout(kept, v), Without(g, v))
  BY <1>1, AllWithoutAppend
<1>4. RemoveHandler(gs, v) = AllWithout(kept, v)
  BY DEF RemoveHandler, kept
<1>5. RemoveHandler(Append(gs, g), v) = AllWithout(Keeping(kept, g, Stays(v)), v)
  BY <1>1, Zenon DEF RemoveHandler
<1>6. RemoveHandler(<<>>, v) = <<>>
  BY <1>2, <1>3, Zenon DEF RemoveHandler
<1>7. CASE g \in Stays(v)
  BY <1>3, <1>4, <1>5, <1>6, <1>7 DEF Keeping
<1>8. CASE g \notin Stays(v)
  BY <1>3, <1>4, <1>5, <1>6, <1>8 DEF Keeping
<1> QED BY <1>7, <1>8

\* A group that goes held nothing but the handler.
LEMMA GoesEmpty ==
    ASSUME NEW g \in Groups, NEW v, g \notin Stays(v)
    PROVE  g.matcher = FALSE /\ Without(g, v).handlers = <<>>
BY DEF Stays, Groups

\* removeHandler leaves no copy of its handler, and those of the others.
LEMMA CopiesRemoved ==
    ASSUME NEW gs \in Seq(Groups), NEW w \in Handler, NEW v \in Handler
    PROVE  Copies(RemoveHandler(gs, w), v) = IF v = w THEN 0 ELSE Copies(gs, v)
<1> DEFINE Right(q) == Copies(RemoveHandler(q, w), v) = IF v = w THEN 0 ELSE Copies(q, v)
           T == {q \in Seq(Groups) : Right(q)}
<1>1. <<>> \in T
  <2>1. RemoveHandler(<<>>, w) = <<>>
    <3>1. <<>> \in Seq(Groups)
      OBVIOUS
    <3>2. Group(<<w>>, TRUE) \in Groups
      BY InSingle
    <3> QED BY <3>1, <3>2, RemoveAppend
  <2>2. Copies(<<>>, v) = 0
    BY NothingLeft
  <2>3. Right(<<>>)
    BY <2>1, <2>2
  <2> QED BY <2>3
<1>2. ASSUME NEW q \in Seq(Groups), q \in T, NEW g \in Groups PROVE Append(q, g) \in T
  <2> DEFINE r == RemoveHandler(q, w)
             h == Without(g, w)
             more == RemoveHandler(Append(q, g), w)
  <2>1. r \in Seq(Groups) /\ more = IF g \in Stays(w) THEN Append(r, h) ELSE r
    BY RemoveAppend
  <2>2. h \in Groups /\ In(h, v) = IF v = w THEN 0 ELSE In(g, v)
    BY WithoutGroup, InWithout
  <2>3. Copies(q, v) \in Nat /\ Copies(Append(q, g), v) = Copies(q, v) + In(g, v)
    BY CopiesAppend
  <2>4. In(g, v) \in Nat
    BY InTyped
  <2>5. Copies(r, v) = IF v = w THEN 0 ELSE Copies(q, v)
    BY <1>2
  <2>6. g \notin Stays(w) => In(h, v) = 0
    <3>1. ASSUME g \notin Stays(w) PROVE In(h, v) = 0
      <4>1. h.handlers = <<>>
        BY <3>1, GoesEmpty
      <4>2. Only(<<>>, {v}) = <<>>
        BY NothingLeft
      <4>3. In(h, v) = Len(<<>>)
        BY <4>1, <4>2, Zenon DEF In
      <4> QED BY <4>3
    <3> QED BY <3>1
  <2> HIDE DEF r, h, more
  <2>7. Copies(Append(r, h), v) = Copies(r, v) + In(h, v)
    BY <2>1, <2>2, CopiesAppend
  <2>8. Copies(more, v) = IF v = w THEN 0 ELSE Copies(Append(q, g), v)
    <3>1. CASE g \in Stays(w)
      <4>1. Copies(more, v) = Copies(r, v) + In(h, v)
        BY <2>1, <2>7, <3>1
      <4> QED BY <2>2, <2>3, <2>4, <2>5, <4>1
    <3>2. CASE g \notin Stays(w)
      <4>1. Copies(more, v) = Copies(r, v)
        BY <2>1, <3>2
      <4> QED BY <2>2, <2>3, <2>4, <2>5, <2>6, <3>2, <4>1
    <3> QED BY <3>1, <3>2
  <2>9. Append(q, g) \in Seq(Groups)
    OBVIOUS
  <2> QED BY <2>8, <2>9 DEF more
<1> HIDE DEF T
<1>3. Seq(Groups) \subseteq T
  BY <1>1, <1>2, AllSequences
<1> QED BY <1>3 DEF T

\* An event has a handler when there is a copy of it.
LEMMA HasCopies ==
    ASSUME NEW gs \in Seq(Groups), NEW v \in Handler
    PROVE  Has(gs, v) <=> Copies(gs, v) # 0
<1> DEFINE T == {q \in Seq(Groups) : Has(q, v) <=> Copies(q, v) # 0}
<1>1. <<>> \in T
  <2>1. Copies(<<>>, v) = 0
    BY NothingLeft
  <2>2. ~Has(<<>>, v)
    BY DEF Has
  <2> QED BY <2>1, <2>2
<1>2. ASSUME NEW q \in Seq(Groups), q \in T, NEW g \in Groups PROVE Append(q, g) \in T
  <2> DEFINE more == Append(q, g)
             Holds(h) == \E j \in DOMAIN h.handlers : h.handlers[j] = v
  <2>1. /\ more \in Seq(Groups) /\ Len(q) \in Nat /\ Len(more) = Len(q) + 1
        /\ more[Len(q) + 1] = g /\ \A i \in 1..Len(q) : more[i] = q[i]
        /\ DOMAIN q = 1..Len(q) /\ DOMAIN more = 1..(Len(q) + 1)
    OBVIOUS
  <2>2. Copies(q, v) \in Nat /\ Copies(more, v) = Copies(q, v) + In(g, v) /\ In(g, v) \in Nat
    BY CopiesAppend, InTyped
  <2>3. In(g, v) # 0 <=> Holds(g)
    <3>1. g.handlers \in Seq(Handler)
      BY DEF Groups
    <3>2. Only(g.handlers, {v}) = <<>> <=> \A i \in 1..Len(g.handlers) : g.handlers[i] # v
      BY <3>1, OnlyNothing
    <3>3. Only(g.handlers, {v}) \in Seq(Handler)
      BY <3>1, OnlyTyped
    <3>4. Len(Only(g.handlers, {v})) = 0 <=> Only(g.handlers, {v}) = <<>>
      BY <3>3
    <3>5. DOMAIN g.handlers = 1..Len(g.handlers)
      BY <3>1
    <3> QED BY <3>2, <3>4, <3>5 DEF In
  <2>4. Has(q, v) <=> Copies(q, v) # 0
    BY <1>2
  <2> HIDE DEF more, Holds
  <2>5. \A i : i \in DOMAIN more <=> i \in DOMAIN q \/ i = Len(q) + 1
    BY <2>1
  <2>6. Has(more, v) <=> Has(q, v) \/ Holds(g)
    BY <2>1, <2>5 DEF Has, Holds
  <2>7. Has(more, v) <=> Copies(more, v) # 0
    BY <2>2, <2>3, <2>4, <2>6
  <2> QED BY <2>1, <2>7 DEF more
<1> HIDE DEF T
<1>3. Seq(Groups) \subseteq T
  BY <1>1, <1>2, AllSequences
<1> QED BY <1>3 DEF T

\* addHandler adds the first copy of its handler and no other.
LEMMA CopiesAdded ==
    ASSUME NEW gs \in Seq(Groups), NEW w \in Handler, NEW v \in Handler
    PROVE  /\ AddHandler(gs, w) \in Seq(Groups)
           /\ Copies(gs, v) \in Nat
           /\ Copies(AddHandler(gs, w), v) =
                 IF v = w /\ Copies(gs, v) = 0 THEN 1 ELSE Copies(gs, v)
<1> DEFINE g == Group(<<w>>, FALSE)
<1>1. g \in Groups /\ In(g, v) = IF v = w THEN 1 ELSE 0
  BY InSingle
<1> HIDE DEF g
<1>2. Copies(gs, v) \in Nat /\ Copies(Append(gs, g), v) = Copies(gs, v) + In(g, v)
  BY <1>1, CopiesAppend
<1>3. Has(gs, w) <=> Copies(gs, w) # 0
  BY HasCopies
<1>4. CASE Has(gs, w)
  <2>1. AddHandler(gs, w) = gs
    BY <1>4 DEF AddHandler
  <2> QED BY <1>2, <1>3, <1>4, <2>1
<1>5. CASE ~Has(gs, w)
  <2>1. AddHandler(gs, w) = Append(gs, g)
    BY <1>5 DEF AddHandler, g
  <2>2. Append(gs, g) \in Seq(Groups)
    BY <1>1
  <2> QED BY <1>1, <1>2, <1>3, <1>5, <2>1, <2>2
<1> QED BY <1>4, <1>5

\* What a document leaves of its groups without a handler.
LEMMA LeftAppend ==
    ASSUME NEW gs \in Seq(Groups), NEW g \in Groups, NEW v
    PROVE  /\ Left(<<>>, v) = <<>>
           /\ Left(Append(gs, g), v) =
                 IF g.matcher \/ Without(g, v).handlers # <<>>
                 THEN Append(Left(gs, v), Without(g, v)) ELSE Left(gs, v)
<1> DEFINE full == {h \in Groups : h.matcher \/ h.handlers # <<>>}
           a == AllWithout(gs, v)
           x == Without(g, v)
<1>1. /\ AllWithout(<<>>, v) = <<>> /\ a \in Seq(Groups)
      /\ AllWithout(Append(gs, g), v) = Append(a, x)
  BY AllWithoutAppend
<1>2. x \in Groups /\ x.matcher = g.matcher
  BY WithoutGroup
<1>3. x \in full <=> g.matcher \/ x.handlers # <<>>
  BY <1>2
<1>4. Left(gs, v) = Only(a, full) /\ Left(<<>>, v) = Only(AllWithout(<<>>, v), full)
  BY DEF Left
<1>5. Left(Append(gs, g), v) = Only(AllWithout(Append(gs, g), v), full)
  BY DEF Left
<1> HIDE DEF full, a, x
<1>6. Only(Append(a, x), full) = Keeping(Only(a, full), x, full)
  BY <1>1, <1>2, OnlyAppend
<1>7. Left(<<>>, v) = <<>>
  BY <1>1, <1>4, NothingLeft
<1>8. Left(Append(gs, g), v) = Keeping(Left(gs, v), x, full)
  BY <1>1, <1>4, <1>5, <1>6
<1> QED BY <1>3, <1>7, <1>8 DEF Keeping, x

\* removeHandler leaves all but its handler.
LEMMA LeftRemoved ==
    ASSUME NEW gs \in Seq(Groups), NEW v
    PROVE  Left(RemoveHandler(gs, v), v) = Left(gs, v)
<1> DEFINE T == {q \in Seq(Groups) : Left(RemoveHandler(q, v), v) = Left(q, v)}
<1>1. <<>> \in T
  <2>1. PICK h : h \in Groups
    <3>1. <<>> \in Seq(Handler)
      OBVIOUS
    <3>2. [handlers |-> <<>>, matcher |-> TRUE] \in Groups
      BY <3>1 DEF Groups
    <3> QED BY <3>2
  <2>2. <<>> \in Seq(Groups)
    OBVIOUS
  <2>3. RemoveHandler(<<>>, v) = <<>>
    BY <2>1, <2>2, RemoveAppend
  <2> QED BY <2>2, <2>3
<1>2. ASSUME NEW q \in Seq(Groups), q \in T, NEW g \in Groups PROVE Append(q, g) \in T
  <2> DEFINE r == RemoveHandler(q, v)
             h == Without(g, v)
             more == RemoveHandler(Append(q, g), v)
  <2>1. r \in Seq(Groups) /\ more = IF g \in Stays(v) THEN Append(r, h) ELSE r
    BY RemoveAppend
  <2>2. h \in Groups /\ h.matcher = g.matcher /\ Without(h, v) = h
    BY WithoutGroup
  <2>3. Left(r, v) = Left(q, v)
    BY <1>2
  <2>4. Left(Append(q, g), v) =
            IF g.matcher \/ h.handlers # <<>> THEN Append(Left(q, v), h) ELSE Left(q, v)
    BY LeftAppend
  <2>5. g \notin Stays(v) => g.matcher = FALSE /\ h.handlers = <<>>
    BY GoesEmpty
  <2> HIDE DEF r, h, more
  <2>6. Left(Append(r, h), v) =
            IF h.matcher \/ h.handlers # <<>> THEN Append(Left(r, v), h) ELSE Left(r, v)
    BY <2>1, <2>2, LeftAppend
  <2>7. Left(more, v) = Left(Append(q, g), v)
    <3>1. CASE g \in Stays(v)
      <4>1. Left(more, v) = Left(Append(r, h), v)
        BY <2>1, <3>1
      <4> QED BY <2>2, <2>3, <2>4, <2>6, <4>1
    <3>2. CASE g \notin Stays(v)
      <4>1. Left(more, v) = Left(r, v)
        BY <2>1, <3>2
      <4> QED BY <2>3, <2>4, <2>5, <3>2, <4>1
    <3> QED BY <3>1, <3>2
  <2>8. Append(q, g) \in Seq(Groups)
    OBVIOUS
  <2> QED BY <2>7, <2>8 DEF more
<1> HIDE DEF T
<1>3. Seq(Groups) \subseteq T
  BY <1>1, <1>2, AllSequences
<1> QED BY <1>3 DEF T

\* addHandler adds a group that is nothing without its handler.
LEMMA LeftAdded ==
    ASSUME NEW gs \in Seq(Groups), NEW v \in Handler
    PROVE  Left(AddHandler(gs, v), v) = Left(gs, v)
<1> DEFINE g == Group(<<v>>, FALSE)
<1>1. g \in Groups /\ g.matcher = FALSE /\ g.handlers = <<v>>
  BY InSingle DEF Group
<1>2. Without(g, v).handlers = <<>>
  <2>1. <<v>> \in Seq(Handler) /\ Len(<<v>>) = 1 /\ <<v>>[1] = v
    OBVIOUS
  <2>2. \A i \in 1..Len(<<v>>) : <<v>>[i] \notin Handler \ {v}
    BY <2>1
  <2>3. Only(<<v>>, Handler \ {v}) = <<>>
    BY <2>1, <2>2, OnlyNothing
  <2> QED BY <1>1, <2>3 DEF Without, Group
<1> HIDE DEF g
<1>3. Left(Append(gs, g), v) = Left(gs, v)
  BY <1>1, <1>2, LeftAppend
<1>4. AddHandler(gs, v) = gs \/ AddHandler(gs, v) = Append(gs, g)
  BY DEF AddHandler, g
<1> QED BY <1>3, <1>4

-----------------------------------------------------------------------------
(* The calls. *)

Requests == [op : {"none", "install", "uninstall"}, variant : Handler, doc : Document]

Asked(c) == c.op # "none" /\ c.variant \in Variant

HookTypes ==
    /\ source \in {"codex", "claude"}
    /\ file \in Document \cup {Malformed}
    /\ stage \in [Caller -> {"idle", "read", "write"}]
    /\ request \in [Caller -> Requests]
    /\ standing \in [Variant -> {"unknown", "install", "uninstall"}]
    /\ outdated \subseteq Readers
    /\ since \in [Caller -> SUBSET Variant]
    /\ \A p \in Caller : stage[p] # "idle" => Asked(request[p])

\* No handler is there twice.
Sound(doc) == \A v \in Variant, e \in Event : Copies(doc.groups[e], v) <= 1

\* Both events have what the last call for the handler said.
Says(doc, v, op) ==
    \A e \in Event :
        /\ op = "install" => Copies(doc.groups[e], v) = 1
        /\ op = "uninstall" => Copies(doc.groups[e], v) = 0

\* What a caller is about to write is sound and as it wants it, has the other handlers
\* as they were reported but for those reported since, and is made of the file as it
\* is unless somebody has changed that since.
Draft(p) ==
    /\ Sound(request[p].doc)
    /\ Says(request[p].doc, request[p].variant, request[p].op)
    /\ \A v \in Variant \ (since[p] \cup {request[p].variant}) :
          Says(request[p].doc, v, standing[v])
    /\ p \notin outdated => file # Malformed /\ request[p].doc = Updated(file, request[p])

Drafts == \A p \in Readers : Draft(p)

HookInv == HookTypes /\ Drafts /\ HooksAsReported


\* An updated document is one, with as many copies of the other handlers, the handler as
\* wanted, and the rest as it was.
LEMMA UpdatedCopies ==
    ASSUME NEW doc \in Document, NEW c \in Requests, c.op # "none", c.variant \in Variant
    PROVE  /\ Updated(doc, c) \in Document
           /\ Rest(Updated(doc, c), c.variant) = Rest(doc, c.variant)
           /\ \A v \in Variant, e \in Event :
                 LET n == Copies(doc.groups[e], v)
                     after == Copies(Updated(doc, c).groups[e], v)
                 IN  /\ n \in Nat
                     /\ v # c.variant => after = n
                     /\ v = c.variant /\ c.op = "uninstall" => after = 0
                     /\ v = c.variant /\ c.op = "install" => after = IF n = 0 THEN 1 ELSE n
<1> DEFINE w == c.variant
           new == Updated(doc, c)
<1>1. /\ w \in Handler /\ c.op \in {"install", "uninstall"} /\ Variant \subseteq Handler
      /\ DOMAIN doc.groups = Event /\ \A e \in Event : doc.groups[e] \in Seq(Groups)
      /\ doc.description \in Descriptions
  BY DEF Requests, Document, Handler
<1>2. CASE c.op = "install"
  <2>1. /\ new.groups = [e \in Event |-> AddHandler(doc.groups[e], w)]
        /\ new.description = IF source = "codex" /\ doc.description = "none"
                             THEN "SkillLoop" ELSE doc.description
        /\ new = [groups |-> new.groups, description |-> new.description]
    BY <1>2 DEF Updated, Installed
  <2> HIDE DEF new
  <2>2. \A e \in Event :
            new.groups[e] \in Seq(Groups) /\ Left(new.groups[e], w) = Left(doc.groups[e], w)
    BY <1>1, <2>1, CopiesAdded, LeftAdded
  <2>3. new \in Document
    BY <1>1, <2>1, <2>2 DEF Document, Descriptions
  <2>4. (new.description = "theirs") = (doc.description = "theirs")
    BY <2>1
  <2>5. Rest(new, w) = Rest(doc, w)
    BY <2>2, <2>4 DEF Rest
  <2>6. \A v \in Variant, e \in Event :
            /\ Copies(doc.groups[e], v) \in Nat
            /\ Copies(new.groups[e], v) = IF v = w /\ Copies(doc.groups[e], v) = 0
                                          THEN 1 ELSE Copies(doc.groups[e], v)
    BY <1>1, <2>1, CopiesAdded
  <2> QED BY <1>2, <2>3, <2>5, <2>6 DEF new
<1>3. CASE c.op = "uninstall"
  <2>1. /\ new.groups = [e \in Event |-> RemoveHandler(doc.groups[e], w)]
        /\ new.description = doc.description
        /\ new = [groups |-> new.groups, description |-> new.description]
    BY <1>3 DEF Updated, Uninstalled, Document
  <2> HIDE DEF new
  <2>2. Group(<<w>>, TRUE) \in Groups
    BY <1>1, InSingle
  <2>3. ASSUME NEW e \in Event
        PROVE  new.groups[e] \in Seq(Groups) /\ Left(new.groups[e], w) = Left(doc.groups[e], w)
    <3>1. doc.groups[e] \in Seq(Groups)
      BY <1>1
    <3>2. RemoveHandler(doc.groups[e], w) \in Seq(Groups)
      BY <2>2, <3>1, RemoveAppend
    <3>3. Left(RemoveHandler(doc.groups[e], w), w) = Left(doc.groups[e], w)
      BY <3>1, LeftRemoved
    <3> QED BY <2>1, <3>2, <3>3
  <2>4. new \in Document
    BY <1>1, <2>1, <2>3 DEF Document
  <2>5. Rest(new, w) = Rest(doc, w)
    BY <2>1, <2>3 DEF Rest
  <2>6. \A v \in Variant, e \in Event :
            /\ Copies(doc.groups[e], v) \in Nat
            /\ Copies(new.groups[e], v) = IF v = w THEN 0 ELSE Copies(doc.groups[e], v)
    BY <1>1, <2>1, CopiesAdded, CopiesRemoved
  <2> QED BY <1>3, <2>4, <2>5, <2>6 DEF new
<1> QED BY <1>1, <1>2, <1>3

\* A sound document stays sound, and has what was wanted of it.
LEMMA UpdatedSound ==
    ASSUME NEW doc \in Document, NEW c \in Requests, c.op # "none", c.variant \in Variant,
           Sound(doc)
    PROVE  /\ Sound(Updated(doc, c))
           /\ Says(Updated(doc, c), c.variant, c.op)
           /\ \A v \in Variant : \A op :
                 v # c.variant /\ Says(doc, v, op) => Says(Updated(doc, c), v, op)
<1> DEFINE new == Updated(doc, c)
<1>1. c.op \in {"install", "uninstall"}
  BY DEF Requests
<1>2. \A v \in Variant, e \in Event :
          /\ Copies(doc.groups[e], v) \in Nat
          /\ v # c.variant => Copies(new.groups[e], v) = Copies(doc.groups[e], v)
          /\ v = c.variant /\ c.op = "uninstall" => Copies(new.groups[e], v) = 0
          /\ v = c.variant /\ c.op = "install" =>
                Copies(new.groups[e], v) = IF Copies(doc.groups[e], v) = 0 THEN 1
                                           ELSE Copies(doc.groups[e], v)
  BY UpdatedCopies
<1> HIDE DEF new
<1>3. \A v \in Variant, e \in Event : Copies(doc.groups[e], v) <= 1
  BY DEF Sound
<1>4. Sound(new)
  BY <1>1, <1>2, <1>3 DEF Sound
<1>5. Says(new, c.variant, c.op)
  BY <1>1, <1>2, <1>3 DEF Says
<1>6. \A v \in Variant : \A op : v # c.variant /\ Says(doc, v, op) => Says(new, v, op)
  BY <1>2 DEF Says
<1> QED BY <1>4, <1>5, <1>6 DEF new

\* A sound file that is as reported, in the words of the property.
LEMMA FileReported ==
    HooksAsReported <=>
        (file # Malformed => Sound(file) /\ \A v \in Variant : Says(file, v, standing[v]))
BY DEF HooksAsReported, Sound, Says

\* A request that has been made is one that updates.
LEMMA RequestMade ==
    ASSUME HookTypes, NEW p \in Caller, stage[p] # "idle"
    PROVE  /\ request[p] \in Requests /\ request[p].op \in {"install", "uninstall"}
           /\ request[p].variant \in Variant /\ request[p].doc \in Document
BY DEF HookTypes, Requests, Asked

\* The empty document is one.
LEMMA EmptyDocument == Empty \in Document /\ Sound(Empty) /\ NoRequest \in Requests
<1>1. <<>> \in Seq(Groups) /\ \A v : Copies(<<>>, v) = 0
  BY NothingLeft
<1>2. Empty \in Document
  BY <1>1 DEF Empty, Document, Descriptions
<1>3. Sound(Empty)
  BY <1>1 DEF Empty, Sound
<1> QED BY <1>2, <1>3 DEF NoRequest, Requests, Handler

\* At first nobody has called, and nothing is said of the file.
LEMMA HookInitial == HookInit => HookInv
<1> SUFFICES ASSUME HookInit PROVE HookInv
  OBVIOUS
<1>1. file \in Document \cup {Malformed} /\ (file # Malformed => Sound(file))
  <2>1. CASE file \in {Empty, Malformed}
    BY <2>1, EmptyDocument
  <2>2. CASE file \in [groups : [Event -> Layouts], description : Descriptions]
    BY <2>2, LayoutsAssumption DEF Document, Sound
  <2> QED BY <2>1, <2>2 DEF HookInit
<1>2. \A p \in Caller : stage[p] = "idle" /\ request[p] = NoRequest
  BY DEF HookInit
<1>3. HookTypes
  BY <1>1, <1>2, EmptyDocument DEF HookInit, HookTypes, Unknown
<1>4. Drafts
  BY <1>2 DEF Drafts, Readers
<1>5. \A v \in Variant : Says(file, v, standing[v])
  BY DEF HookInit, Unknown, Says
<1> QED BY <1>1, <1>3, <1>4, <1>5, FileReported DEF HookInv

\* A call that ends leaves the others where they are.
LEMMA FinishFits ==
    ASSUME HookTypes, NEW p \in Caller, Finish(p)
    PROVE  /\ stage' \in [Caller -> {"idle", "read", "write"}]
           /\ request' \in [Caller -> Requests]
           /\ stage'[p] = "idle" /\ request'[p] = NoRequest
           /\ \A q \in Caller \ {p} : stage'[q] = stage[q] /\ request'[q] = request[q]
           /\ Readers' = Readers \ {p}
<1>1. /\ stage \in [Caller -> {"idle", "read", "write"}] /\ request \in [Caller -> Requests]
      /\ stage' = [stage EXCEPT ![p] = "idle"] /\ request' = [request EXCEPT ![p] = NoRequest]
  BY DEF HookTypes, Finish, Proceed
<1>2. /\ stage'[p] = "idle" /\ request'[p] = NoRequest
      /\ \A q \in Caller \ {p} : stage'[q] = stage[q] /\ request'[q] = request[q]
  BY <1>1
<1>3. Readers' = Readers \ {p}
  BY <1>2 DEF Readers
<1> QED BY <1>1, <1>2, <1>3, EmptyDocument

\* What is said of a handler by others than its draft: as before, or nothing.
Told(v) == standing'[v] = standing[v] \/ standing'[v] = "unknown"

\* A draft stays what it is while its call and the file do, or when somebody has
\* changed the file, if what is reported meanwhile is noted.
LEMMA DraftKept ==
    ASSUME NEW p \in Caller, Draft(p), request'[p] = request[p],
           since[p] \subseteq since'[p],
           \A v \in Variant \ since'[p] : Told(v),
           p \notin outdated' => p \notin outdated /\ UNCHANGED <<source, file>>
    PROVE  Draft(p)'
<1>1. /\ Sound(request[p].doc)' /\ Says(request[p].doc, request[p].variant, request[p].op)'
      /\ \A v \in Variant \ (since'[p] \cup {request'[p].variant}) :
            Says(request'[p].doc, v, standing'[v])
  BY DEF Draft, Sound, Says, Told
<1>2. ASSUME p \notin outdated'
      PROVE  (file # Malformed /\ request[p].doc = Updated(file, request[p]))'
  <2>1. file # Malformed /\ request[p].doc = Updated(file, request[p]) /\ UNCHANGED <<source, file>>
    BY <1>2 DEF Draft
  <2>2. Updated(file, request[p])' = Updated(file, request[p])
    BY <2>1 DEF Updated, Installed, Uninstalled
  <2> QED BY <2>1, <2>2
<1> QED BY <1>1, <1>2 DEF Draft

\* A call for a handler.
LEMMA StepCall ==
    ASSUME HookInv, NEW p \in Caller, NEW op \in {"install", "uninstall"}, NEW v \in Variant,
           Call(p, op, v)
    PROVE  HookInv'
<1>1. /\ stage \in [Caller -> {"idle", "read", "write"}] /\ request \in [Caller -> Requests]
      /\ stage[p] = "idle" /\ stage' = [stage EXCEPT ![p] = "read"]
      /\ UNCHANGED <<source, file, standing, outdated, since>>
  BY DEF HookInv, HookTypes, Call, Proceed, told
<1>2. request' = [request EXCEPT ![p] = [op |-> op, variant |-> v, doc |-> Empty]]
  BY DEF Call
<1>3. [op |-> op, variant |-> v, doc |-> Empty] \in Requests
  BY EmptyDocument DEF Requests, Handler
<1>4. /\ request' \in [Caller -> Requests] /\ request'[p].op = op /\ request'[p].variant = v
      /\ stage' \in [Caller -> {"idle", "read", "write"}] /\ stage'[p] = "read"
      /\ \A q \in Caller \ {p} : stage'[q] = stage[q] /\ request'[q] = request[q]
  BY <1>1, <1>2, <1>3
<1>5. Readers' = Readers /\ p \notin Readers
  BY <1>1, <1>4 DEF Readers
<1>6. HookTypes'
  <2>1. \A q \in Caller : stage'[q] # "idle" => Asked(request'[q])
    BY <1>4 DEF HookInv, HookTypes, Asked
  <2> QED BY <1>1, <1>4, <1>5, <2>1 DEF HookInv, HookTypes
<1>7. Drafts'
  <2> SUFFICES ASSUME NEW q \in Readers' PROVE Draft(q)'
    BY DEF Drafts
  <2>1. q \in Readers /\ q \in Caller /\ request'[q] = request[q]
    BY <1>4, <1>5 DEF Readers
  <2>2. Draft(q)
    BY <2>1 DEF HookInv, Drafts
  <2> QED BY <1>1, <2>1, <2>2, DraftKept DEF Told
<1>8. HooksAsReported'
  BY <1>1 DEF HookInv, HooksAsReported
<1> QED BY <1>6, <1>7, <1>8 DEF HookInv

\* A call that ends leaves the invariant when it leaves the file, or leaves it as reported,
\* and nobody's draft behind unnoticed.
LEMMA StepFinish ==
    ASSUME HookInv, NEW p \in Caller, Finish(p), UNCHANGED source,
           file' \in Document \cup {Malformed},
           standing' \in [Variant -> {"unknown", "install", "uninstall"}],
           since' \in [Caller -> SUBSET Variant],
           \A q \in Readers \ {p} :
               since[q] \subseteq since'[q] /\ \A v \in Variant \ since'[q] : Told(v),
           \/ UNCHANGED file /\ outdated' = outdated \ {p}
           \/ outdated' = (outdated \cup Readers) \ {p},
           file' # Malformed =>
               Sound(file') /\ \A v \in Variant : Says(file', v, standing'[v])
    PROVE  HookInv'
<1>1. /\ stage' \in [Caller -> {"idle", "read", "write"}]
      /\ request' \in [Caller -> Requests]
      /\ stage'[p] = "idle" /\ request'[p] = NoRequest
      /\ \A q \in Caller \ {p} : stage'[q] = stage[q] /\ request'[q] = request[q]
      /\ Readers' = Readers \ {p}
  BY FinishFits DEF HookInv
<1>2. HookTypes'
  <2>1. \A q \in Caller : stage'[q] # "idle" => Asked(request'[q])
    BY <1>1 DEF HookInv, HookTypes
  <2>2. outdated' \subseteq Readers'
    BY <1>1 DEF HookInv, HookTypes
  <2> QED BY <1>1, <2>1, <2>2 DEF HookInv, HookTypes
<1>3. Drafts'
  <2> SUFFICES ASSUME NEW q \in Readers' PROVE Draft(q)'
    BY DEF Drafts
  <2>1. q \in Readers /\ q \in Caller \ {p} /\ request'[q] = request[q]
    BY <1>1 DEF Readers
  <2>2. Draft(q)
    BY <2>1 DEF HookInv, Drafts
  <2>3. q \notin outdated' => q \notin outdated /\ UNCHANGED <<source, file>>
    BY <2>1
  <2> QED BY <2>1, <2>2, <2>3, DraftKept
<1>4. HooksAsReported'
  BY DEF HooksAsReported, Sound, Says
<1> QED BY <1>2, <1>3, <1>4 DEF HookInv

\* A report is noted by those who have read the file before.
LEMMA ReportNoted ==
    ASSUME HookTypes, NEW p \in Caller, request[p].variant \in Variant,
           request[p].op \in {"install", "uninstall"},
           NEW said \in [Variant -> {"unknown", "install", "uninstall"}],
           \A v \in Variant : said[v] = standing[v] \/ said[v] = "unknown",
           Report(p, said)
    PROVE  /\ standing' \in [Variant -> {"unknown", "install", "uninstall"}]
           /\ \A v \in Variant :
                 standing'[v] = IF v = request[p].variant THEN request[p].op ELSE said[v]
           /\ since' \in [Caller -> SUBSET Variant]
           /\ \A q \in Readers \ {p} :
                 since[q] \subseteq since'[q] /\ \A v \in Variant \ since'[q] : Told(v)
<1>1. standing' = [said EXCEPT ![request[p].variant] = request[p].op]
  BY DEF Report
<1>2. /\ standing' \in [Variant -> {"unknown", "install", "uninstall"}]
      /\ \A v \in Variant :
            standing'[v] = IF v = request[p].variant THEN request[p].op ELSE said[v]
  BY <1>1
<1>3. /\ since \in [Caller -> SUBSET Variant]
      /\ since' = [q \in Caller |->
            IF q \in Readers \ {p} THEN since[q] \cup {request[p].variant} ELSE {}]
  BY DEF Report, HookTypes
<1>4. since' \in [Caller -> SUBSET Variant]
  BY <1>3
<1>5. \A q \in Readers \ {p} : since'[q] = since[q] \cup {request[p].variant}
  BY <1>3 DEF Readers
<1>6. \A q \in Readers \ {p} : \A v \in Variant \ since'[q] : Told(v)
  BY <1>2, <1>5 DEF Told
<1> QED BY <1>2, <1>4, <1>5, <1>6

\* A failure, and the end of a process, say nothing and leave the file.
LEMMA StepGiveUp ==
    ASSUME HookInv, NEW p \in Caller, Fail(p) \/ Die(p)
    PROVE  HookInv'
<1>1. /\ Finish(p) /\ outdated' = outdated \ {p} /\ UNCHANGED <<source, file, standing>>
      /\ since \in [Caller -> SUBSET Variant] /\ since' = [since EXCEPT ![p] = {}]
  BY DEF Fail, Die, GiveUp, HookInv, HookTypes
<1>2. file # Malformed => Sound(file) /\ \A v \in Variant : Says(file, v, standing[v])
  BY FileReported DEF HookInv
<1>3. /\ file' \in Document \cup {Malformed}
      /\ standing' \in [Variant -> {"unknown", "install", "uninstall"}]
  BY <1>1 DEF HookInv, HookTypes
<1>4. since' \in [Caller -> SUBSET Variant] /\ \A q \in Readers \ {p} : since'[q] = since[q]
  BY <1>1 DEF Readers
<1>5. \A v \in Variant : Told(v)
  BY <1>1 DEF Told
<1> QED BY <1>1, <1>2, <1>3, <1>4, <1>5, StepFinish

\* A read finds the document as wanted, or makes a draft of another.
LEMMA StepRead ==
    ASSUME HookInv, NEW p \in Caller, Read(p)
    PROVE  HookInv'
<1> DEFINE c == request[p]
           new == Updated(file, c)
<1>1. /\ stage[p] = "read" /\ file # Malformed /\ file \in Document
      /\ UNCHANGED <<source, file, outdated>>
  BY DEF Read, HookInv, HookTypes
<1>2. c \in Requests /\ c.op \in {"install", "uninstall"} /\ c.variant \in Variant
  BY <1>1, RequestMade DEF HookInv
<1>3. Sound(file) /\ \A v \in Variant : Says(file, v, standing[v])
  BY <1>1, FileReported DEF HookInv
<1>4. /\ new \in Document /\ Sound(new) /\ Says(new, c.variant, c.op)
  BY <1>1, <1>2, <1>3, UpdatedCopies, UpdatedSound
<1> HIDE DEF c, new
<1>5. CASE new = file /\ Report(p, standing)
  <2>1. standing \in [Variant -> {"unknown", "install", "uninstall"}] /\ p \notin outdated
    BY <1>1 DEF HookInv, HookTypes, Readers
  <2>2. /\ standing' \in [Variant -> {"unknown", "install", "uninstall"}]
        /\ since' \in [Caller -> SUBSET Variant]
        /\ \A q \in Readers \ {p} :
              since[q] \subseteq since'[q] /\ \A v \in Variant \ since'[q] : Told(v)
    BY <1>2, <1>5, <2>1, ReportNoted DEF HookInv, c
  <2>3. \A v \in Variant : standing'[v] = IF v = c.variant THEN c.op ELSE standing[v]
    BY <1>2, <1>5, <2>1, ReportNoted DEF HookInv, c
  <2>4. \A v \in Variant : Says(file, v, standing'[v])
    BY <1>3, <1>4, <1>5, <2>3
  <2>5. outdated' = outdated \ {p} /\ Finish(p)
    BY <1>1, <1>5, <2>1 DEF Report
  <2> QED BY <1>1, <1>3, <2>2, <2>4, <2>5, StepFinish
<1>6. CASE /\ Proceed(p, "write") /\ request' = [request EXCEPT ![p].doc = new]
           /\ UNCHANGED <<standing, since>>
  <2>1. request' = [request EXCEPT ![p] = [op |-> c.op, variant |-> c.variant, doc |-> new]]
    <3>1. [c EXCEPT !.doc = new] = [op |-> c.op, variant |-> c.variant, doc |-> new]
      BY <1>2 DEF Requests
    <3>2. request \in [Caller -> Requests]
      BY DEF HookInv, HookTypes
    <3>3. request' = [request EXCEPT ![p] = [c EXCEPT !.doc = new]]
      BY <1>6, <3>2 DEF c
    <3> QED BY <3>1, <3>3, Zenon
  <2>2. [op |-> c.op, variant |-> c.variant, doc |-> new] \in Requests
    BY <1>2, <1>4 DEF Requests
  <2>3. /\ request' \in [Caller -> Requests]
        /\ request'[p] = [op |-> c.op, variant |-> c.variant, doc |-> new]
        /\ stage' \in [Caller -> {"idle", "read", "write"}] /\ stage'[p] = "write"
        /\ \A q \in Caller \ {p} : stage'[q] = stage[q] /\ request'[q] = request[q]
    BY <1>6, <2>1, <2>2 DEF Proceed, HookInv, HookTypes
  <2>4. Readers' = Readers \cup {p}
    BY <2>3 DEF Readers
  <2>5. HookTypes'
    <3>1. \A q \in Caller : stage'[q] # "idle" => Asked(request'[q])
      BY <1>2, <2>3 DEF HookInv, HookTypes, Asked
    <3>2. outdated' \subseteq Readers'
      BY <1>1, <2>4 DEF HookInv, HookTypes
    <3> QED BY <1>1, <1>6, <2>3, <3>1, <3>2 DEF HookInv, HookTypes
  <2>6. Draft(p)'
    <3>1. Updated(file, request[p])' = new
      BY <1>1, <2>3 DEF new, c, Updated, Installed, Uninstalled
    <3>2. \A v \in Variant \ {c.variant} : Says(new, v, standing'[v])
      BY <1>1, <1>2, <1>3, <1>6, UpdatedSound DEF new
    <3> QED BY <1>1, <1>4, <2>3, <3>1, <3>2 DEF Draft
  <2>7. Drafts'
    <3> SUFFICES ASSUME NEW q \in Readers' PROVE Draft(q)'
      BY DEF Drafts
    <3>1. CASE q = p
      BY <2>6, <3>1
    <3>2. CASE q # p
      <4>1. q \in Readers /\ q \in Caller /\ request'[q] = request[q]
        BY <2>3, <2>4, <3>2 DEF Readers
      <4>2. Draft(q)
        BY <4>1 DEF HookInv, Drafts
      <4> QED BY <1>1, <1>6, <4>1, <4>2, DraftKept DEF Told
    <3> QED BY <3>1, <3>2
  <2>8. HooksAsReported'
    BY <1>1, <1>6 DEF HookInv, HooksAsReported
  <2> QED BY <2>5, <2>7, <2>8 DEF HookInv
<1> QED BY <1>5, <1>6 DEF Read, new, c

\* A draft that is written is the file, and outdates the others.
LEMMA StepWrite ==
    ASSUME HookInv, NEW p \in Caller, WriteDocument(p)
    PROVE  HookInv'
<1> DEFINE c == request[p]
           said == [v \in Variant |-> IF v \in since[p] THEN "unknown" ELSE standing[v]]
<1>1. /\ stage[p] = "write" /\ p \in Readers /\ file' = c.doc /\ UNCHANGED source
      /\ Report(p, said) /\ Finish(p)
      /\ outdated' = (outdated \cup Readers) \ {p}
  BY DEF WriteDocument, Report, Readers
<1>2. /\ c \in Requests /\ c.op \in {"install", "uninstall"} /\ c.variant \in Variant
      /\ c.doc \in Document
  BY <1>1, RequestMade DEF HookInv
<1>3. /\ Sound(c.doc) /\ Says(c.doc, c.variant, c.op)
      /\ \A v \in Variant \ (since[p] \cup {c.variant}) : Says(c.doc, v, standing[v])
  BY <1>1 DEF HookInv, Drafts, Draft
<1>4. /\ said \in [Variant -> {"unknown", "install", "uninstall"}]
      /\ \A v \in Variant : said[v] = standing[v] \/ said[v] = "unknown"
      /\ \A v \in since[p] \cap Variant : said[v] = "unknown"
      /\ \A v \in Variant \ since[p] : said[v] = standing[v]
  BY DEF HookInv, HookTypes
<1> HIDE DEF said
<1>5. /\ standing' \in [Variant -> {"unknown", "install", "uninstall"}]
      /\ \A v \in Variant : standing'[v] = IF v = c.variant THEN c.op ELSE said[v]
      /\ since' \in [Caller -> SUBSET Variant]
      /\ \A q \in Readers \ {p} :
            since[q] \subseteq since'[q] /\ \A v \in Variant \ since'[q] : Told(v)
  BY <1>1, <1>2, <1>4, ReportNoted DEF HookInv
<1> HIDE DEF c
<1>6. \A v \in Variant : Says(c.doc, v, standing'[v])
  <2> SUFFICES ASSUME NEW v \in Variant PROVE Says(c.doc, v, standing'[v])
    OBVIOUS
  <2>1. CASE v = c.variant
    BY <1>3, <1>5, <2>1
  <2>2. CASE v # c.variant /\ v \in since[p]
    BY <1>4, <1>5, <2>2 DEF Says
  <2>3. CASE v # c.variant /\ v \notin since[p]
    BY <1>3, <1>4, <1>5, <2>3
  <2> QED BY <2>1, <2>2, <2>3
<1>7. Sound(file') /\ \A v \in Variant : Says(file', v, standing'[v])
  BY <1>1, <1>3, <1>6
<1> QED BY <1>1, <1>2, <1>5, <1>7, StepFinish

\* What others do to the file outdates every draft, and nothing is said of it any more.
LEMMA StepChanged ==
    ASSUME HookInv, NEW new \in Document \cup {Malformed}, new # Malformed => Sound(new),
           Changed(new)
    PROVE  HookInv'
<1>1. /\ file' = new /\ standing' = Unknown /\ outdated' = outdated \cup Readers
      /\ UNCHANGED <<source, stage, request, since>>
  BY DEF Changed
<1>2. Readers' = Readers
  BY <1>1 DEF Readers
<1>3. HookTypes'
  BY <1>1, <1>2 DEF HookInv, HookTypes, Unknown
<1>4. Drafts'
  <2> SUFFICES ASSUME NEW q \in Readers PROVE Draft(q)'
    BY <1>2 DEF Drafts
  <2>1. q \in Caller /\ q \in outdated' /\ Draft(q)
    BY <1>1 DEF HookInv, Drafts, Readers
  <2>2. \A v \in Variant : Told(v)
    BY <1>1 DEF Told, Unknown
  <2> QED BY <1>1, <2>1, <2>2, DraftKept
<1>5. HooksAsReported'
  <2>1. \A v \in Variant : standing'[v] = "unknown"
    BY <1>1 DEF Unknown
  <2> QED BY <1>1, <2>1 DEF HooksAsReported, Sound
<1> QED BY <1>3, <1>4, <1>5 DEF HookInv

\* An event that is edited has no handler twice; the other is as it was.
LEMMA StepRewrite ==
    ASSUME HookInv, NEW e \in Event, NEW gs \in Layouts, Rewrite(e, gs)
    PROVE  HookInv'
<1> DEFINE old == IF file = Malformed THEN Empty ELSE file
           new == [old EXCEPT !.groups[e] = gs]
<1>1. old \in Document /\ Sound(old)
  BY EmptyDocument, FileReported DEF HookInv, HookTypes
<1>2. gs \in Seq(Groups) /\ \A v \in Variant : Copies(gs, v) <= 1
  BY LayoutsAssumption
<1>3. Changed(new)
  BY DEF Rewrite
<1> HIDE DEF old
<1>4. /\ new \in Document /\ DOMAIN old.groups = Event
      /\ \A d \in Event : new.groups[d] = IF d = e THEN gs ELSE old.groups[d]
  BY <1>1, <1>2 DEF Document
<1> HIDE DEF new
<1>5. Sound(new)
  BY <1>1, <1>2, <1>4 DEF Sound
<1> QED BY <1>3, <1>4, <1>5, StepChanged

\* Every step keeps the invariant.
LEMMA HookStep == HookInv /\ [HookNext]_hookVars => HookInv'
<1> SUFFICES ASSUME HookInv, [HookNext]_hookVars PROVE HookInv'
  OBVIOUS
<1>1. ASSUME NEW p \in Caller, NEW op \in {"install", "uninstall"}, NEW v \in Variant,
             Call(p, op, v)
      PROVE  HookInv'
  BY <1>1, StepCall
<1>2. ASSUME NEW p \in Caller, Read(p) PROVE HookInv'
  BY <1>2, StepRead
<1>3. ASSUME NEW p \in Caller, Fail(p) \/ Die(p) PROVE HookInv'
  BY <1>3, StepGiveUp
<1>4. ASSUME NEW p \in Caller, WriteDocument(p) PROVE HookInv'
  BY <1>4, StepWrite
<1>5. ASSUME NEW e \in Event, NEW gs \in Layouts, Rewrite(e, gs) PROVE HookInv'
  BY <1>5, StepRewrite
<1>6. CASE Break
  BY <1>6, StepChanged DEF Break
<1>7. CASE UNCHANGED hookVars
  <2>1. UNCHANGED <<source, file, stage, request, standing, outdated, since>>
    BY <1>7 DEF hookVars, told
  <2>2. Readers' = Readers
    BY <2>1 DEF Readers
  <2>3. HookTypes' /\ HooksAsReported'
    BY <2>1, <2>2 DEF HookInv, HookTypes, HooksAsReported
  <2>4. ASSUME NEW q \in Readers PROVE Draft(q)'
    <3>1. q \in Caller /\ Draft(q)
      BY DEF HookInv, Drafts, Readers
    <3> QED BY <2>1, <3>1, DraftKept DEF Told
  <2> QED BY <2>2, <2>3, <2>4 DEF HookInv, Drafts
<1> QED BY <1>1, <1>2, <1>3, <1>4, <1>5, <1>6, <1>7 DEF HookNext

\* The invariant, for any number of callers, handlers and upsets.
THEOREM HookInvariant == HookSpec => []HookInv
BY HookInitial, HookStep, PTL DEF HookSpec

\* Installation is idempotent and an installed handler stays installed: only the owner,
\* or a call that had read the file before the handler was reported on, undoes that,
\* for any settings in which no event has a handler twice (install.go:176-259).
THEOREM HooksReported == HookSpec => []HooksAsReported
<1>1. HookInv => HooksAsReported
  BY DEF HookInv
<1> QED BY <1>1, HookInvariant, PTL

\* The step that writes a file nobody has changed since it was read changes one handler.
LEMMA StepOthers ==
    ASSUME HookInv, [HookNext]_hookVars, NEW p \in Caller,
           request'[p] # request[p], file' # file, p \notin outdated
    PROVE  Rest(file', request[p].variant) = Rest(file, request[p].variant)
<1>1. PICK q \in Caller : WriteDocument(q)
  <2>1. \A q \in Caller : Read(q) \/ Fail(q) \/ Die(q) => UNCHANGED file
    BY DEF Read, Fail, Die
  <2>2. \A q \in Caller, op \in {"install", "uninstall"}, v \in Variant :
            Call(q, op, v) => UNCHANGED file
    BY DEF Call
  <2>3. \A e \in Event, gs \in Layouts : Rewrite(e, gs) => UNCHANGED request
    BY DEF Rewrite, Changed
  <2>4. Break => UNCHANGED request
    BY DEF Break, Changed
  <2>5. ~(UNCHANGED hookVars)
    BY DEF hookVars
  <2> QED BY <2>1, <2>2, <2>3, <2>4, <2>5 DEF HookNext
<1>2. stage[q] = "write" /\ Finish(q) /\ file' = request[q].doc
  BY <1>1 DEF WriteDocument, Report
<1>3. q = p
  BY <1>2, FinishFits DEF HookInv
<1>4. file # Malformed /\ file' = Updated(file, request[p])
  BY <1>2, <1>3 DEF HookInv, Drafts, Draft, Readers
<1>5. file \in Document /\ request[p] \in Requests /\ request[p].op # "none"
      /\ request[p].variant \in Variant
  BY <1>2, <1>3, <1>4, RequestMade DEF HookInv, HookTypes
<1> QED BY <1>4, <1>5, UpdatedCopies

\* A call changes nothing of the settings but its handler, whatever they hold
\* (install.go:176-259).
THEOREM OtherHandlersKept == HookSpec => OthersKept
<1>1. HookInv /\ [HookNext]_hookVars =>
          [\A p \in Caller :
              request'[p] # request[p] /\ file' # file /\ p \notin outdated =>
                  Rest(file', request[p].variant) = Rest(file, request[p].variant)]_hookVars
  BY StepOthers
<1> QED BY <1>1, HookInvariant, PTL DEF HookSpec, OthersKept

=============================================================================
