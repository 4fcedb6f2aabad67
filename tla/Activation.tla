----------------------------- MODULE Activation -----------------------------
(***************************************************************************)
(* "skill install" and "skill uninstall" (internal/activation): the links  *)
(* under which the agents find the current release of a skill, made and    *)
(* removed by several processes while their owner edits the directories.   *)
(*                                                                         *)
(* The skills share a name, and so the entries: for one skill the link of  *)
(* another is as foreign as a file.  Looking at an entry and changing it   *)
(* are two steps, and each of them may fail.                               *)
(***************************************************************************)
EXTENDS Naturals, Sequences

CONSTANTS
    Process, Skill,
    Absent, File,   \* entries that are no link of a skill
    Nobody,
    MaxMishaps      \* bound on the owner's edits and the crashes

ASSUME ActivationAssumption ==
    /\ MaxMishaps \in Nat
    /\ Absent # File /\ {Absent, File} \cap Skill = {}
    /\ Nobody \notin Process

VARIABLES
    entry,      \* what is at the destination of each platform
    pc, call,   \* the step of each process, and its call
    result,     \* how the last call of each process ended
    mishaps,
    maker,      \* the process whose last call made the entry (history)
    stuck,      \* links whose removal failed in a rollback (history)
    raced       \* entries that others changed since a process's last step (history)

vars == <<entry, pc, call, result, mishaps, maker, stuck, raced>>

Platform == {"codex", "claude"}

\* normalizePlatforms, for the three lists that the options give.
Platforms == {<<"codex">>, <<"claude">>, <<"codex", "claude">>}

Idle == [op |-> "none", skill |-> Absent, targets |-> <<>>, at |-> 0,
         managed |-> {}, created |-> <<>>]

Init ==
    /\ entry \in [Platform -> {Absent, File}]
    /\ pc = [p \in Process |-> "idle"]
    /\ call = [p \in Process |-> Idle]
    /\ result = [p \in Process |-> "none"]
    /\ mishaps = 0
    /\ maker = [f \in Platform |-> Nobody]
    /\ stuck = [p \in Process |-> {}]
    /\ raced = [p \in Process |-> {}]

-----------------------------------------------------------------------------
Target(p) == call[p].targets[call[p].at]

Goto(p, step) == pc' = [pc EXCEPT ![p] = step]

\* A step of p that leaves the entries alone, and one that changes one.
Looks(p) ==
    /\ raced' = [raced EXCEPT ![p] = {}]
    /\ UNCHANGED <<entry, maker>>

Changes(p, f, new, who) ==
    /\ entry' = [entry EXCEPT ![f] = new]
    /\ maker' = [maker EXCEPT ![f] = who]
    /\ raced' = [q \in Process |-> IF q = p THEN {} ELSE raced[q] \cup {f}]

Return(p, outcome) ==
    /\ Goto(p, "idle")
    /\ call' = [call EXCEPT ![p] = Idle]
    /\ result' = [result EXCEPT ![p] = outcome]

\* The loops over the plans, and the one in reverse of rollback.
NextTarget(p, state) ==
    IF state.at < Len(state.targets)
    THEN /\ Goto(p, state.op)
         /\ call' = [call EXCEPT ![p] = [state EXCEPT !.at = @ + 1]]
         /\ UNCHANGED result
    ELSE Return(p, "done")

NextUndo(p) ==
    LET rest == SubSeq(call[p].created, 1, Len(call[p].created) - 1)
    IN  IF rest = <<>> THEN Return(p, "failed")
        ELSE /\ Goto(p, "undo")
             /\ call' = [call EXCEPT ![p].created = rest]
             /\ UNCHANGED result

\* inspectLink: is there a link to the skill's current release?  Anything else
\* that is there is an error, and so is what cannot be read.
Inspect(p, f) ==
    {"error"} \cup
    (CASE entry[f] = Absent -> {"free"}
       [] entry[f] = call[p].skill -> {"managed"}
       [] OTHER -> {})

-----------------------------------------------------------------------------
(* Install and Uninstall, to the end of plan. *)

Request(p, op, s, targets) ==
    /\ pc[p] = "idle"
    /\ Goto(p, "plan")
    /\ call' = [call EXCEPT ![p] =
           [Idle EXCEPT !.op = op, !.skill = s, !.targets = targets, !.at = 1]]
    /\ result' = [result EXCEPT ![p] = "none"]
    /\ stuck' = [stuck EXCEPT ![p] = {}]
    /\ maker' = [f \in Platform |-> IF maker[f] = p THEN Nobody ELSE maker[f]]
    /\ raced' = [raced EXCEPT ![p] = {}]
    /\ UNCHANGED <<entry, mishaps>>

Plan(p) ==
    /\ pc[p] = "plan"
    /\ \E seen \in Inspect(p, Target(p)) :
         LET planned == IF seen = "managed" THEN [call[p] EXCEPT !.managed = @ \cup {Target(p)}]
                        ELSE call[p]
         IN  IF seen = "error" THEN Return(p, "refused")
             ELSE IF planned.at < Len(planned.targets)
             THEN /\ call' = [call EXCEPT ![p] = [planned EXCEPT !.at = @ + 1]]
                  /\ UNCHANGED <<pc, result>>
             ELSE /\ call' = [call EXCEPT ![p] = [planned EXCEPT !.at = 1]]
                  /\ Goto(p, planned.op)
                  /\ UNCHANGED result
    /\ Looks(p)
    /\ UNCHANGED <<mishaps, stuck>>

-----------------------------------------------------------------------------
(* Install *)

Keep(p) ==
    /\ pc[p] = "install" /\ Target(p) \in call[p].managed
    /\ NextTarget(p, call[p])
    /\ Looks(p)
    /\ UNCHANGED <<mishaps, stuck>>

\* Symlink makes a new entry or fails.
Link(p) ==
    /\ pc[p] = "install" /\ Target(p) \notin call[p].managed
    /\ entry[Target(p)] = Absent
    /\ Changes(p, Target(p), call[p].skill, p)
    /\ NextTarget(p, [call[p] EXCEPT !.created = Append(@, Target(p))])
    /\ UNCHANGED <<mishaps, stuck>>

\* Deviation: what was linked before the failure stays.
LinkFailsLeaving(p) ==
    /\ pc[p] = "install" /\ Target(p) \notin call[p].managed
    /\ Return(p, "failed")
    /\ Looks(p)
    /\ UNCHANGED <<mishaps, stuck>>

\* MkdirAll or Symlink fails, the latter always when an entry has appeared.
LinkFails(p) ==
    /\ pc[p] = "install" /\ Target(p) \notin call[p].managed
    /\ IF call[p].created = <<>> THEN Return(p, "failed")
       ELSE Goto(p, "undo") /\ UNCHANGED <<call, result>>
    /\ Looks(p)
    /\ UNCHANGED <<mishaps, stuck>>

\* rollback looks at the last link it made ...
Undo(p) ==
    /\ pc[p] = "undo"
    /\ LET f == call[p].created[Len(call[p].created)]
       IN  \E seen \in Inspect(p, f) :
             /\ IF seen = "managed" THEN Goto(p, "undoRemove") /\ UNCHANGED <<call, result>>
                ELSE NextUndo(p)
             /\ stuck' = IF seen = "error" THEN [stuck EXCEPT ![p] = @ \cup {f}] ELSE stuck
    /\ Looks(p)
    /\ UNCHANGED mishaps

\* ... and removes it.  A failure is reported, and the next link undone.
UndoRemove(p) ==
    /\ pc[p] = "undoRemove"
    /\ LET f == call[p].created[Len(call[p].created)]
       IN  \/ /\ entry[f] # Absent
              /\ Changes(p, f, Absent, Nobody)
              /\ UNCHANGED stuck
           \/ /\ Looks(p)
              /\ stuck' = [stuck EXCEPT ![p] = @ \cup {f}]
    /\ NextUndo(p)
    /\ UNCHANGED mishaps

-----------------------------------------------------------------------------
(* Uninstall *)

\* Deviation: what the plan saw is not looked at again.
LookTrusting(p) ==
    /\ pc[p] = "uninstall"
    /\ IF Target(p) \in call[p].managed THEN Goto(p, "remove") /\ UNCHANGED <<call, result>>
       ELSE NextTarget(p, call[p])
    /\ Looks(p)
    /\ UNCHANGED <<mishaps, stuck>>

Look(p) ==
    /\ pc[p] = "uninstall"
    /\ IF Target(p) \in call[p].managed
       THEN \E seen \in Inspect(p, Target(p)) :
              CASE seen = "error" -> Return(p, "failed")
                [] seen = "managed" -> Goto(p, "remove") /\ UNCHANGED <<call, result>>
                [] OTHER -> NextTarget(p, call[p])
       ELSE NextTarget(p, call[p])
    /\ Looks(p)
    /\ UNCHANGED <<mishaps, stuck>>

Remove(p) ==
    /\ pc[p] = "remove"
    /\ \/ /\ entry[Target(p)] # Absent
          /\ Changes(p, Target(p), Absent, Nobody)
          /\ NextTarget(p, call[p])
       \/ /\ entry[Target(p)] = Absent
          /\ Looks(p)
          /\ NextTarget(p, call[p])
       \/ /\ entry[Target(p)] # Absent
          /\ Looks(p)
          /\ Return(p, "failed")
    /\ UNCHANGED <<mishaps, stuck>>

-----------------------------------------------------------------------------
(* What is not an activation. *)

\* The owner of the directories removes an entry, or puts a file there.
Edit(f, new) ==
    /\ mishaps < MaxMishaps /\ entry[f] # new
    /\ mishaps' = mishaps + 1
    /\ entry' = [entry EXCEPT ![f] = new]
    /\ maker' = [maker EXCEPT ![f] = Nobody]
    /\ raced' = [p \in Process |-> raced[p] \cup {f}]
    /\ UNCHANGED <<pc, call, result, stuck>>

Crash(p) ==
    /\ mishaps < MaxMishaps /\ pc[p] # "idle"
    /\ mishaps' = mishaps + 1
    /\ Return(p, "crashed")
    /\ UNCHANGED <<entry, maker, stuck, raced>>

Next ==
    \/ \E p \in Process :
         \/ \E op \in {"install", "uninstall"}, s \in Skill, targets \in Platforms :
              Request(p, op, s, targets)
         \/ Plan(p) \/ Keep(p) \/ Link(p) \/ LinkFails(p) \/ Undo(p) \/ UndoRemove(p)
         \/ Look(p) \/ Remove(p) \/ Crash(p)
    \/ \E f \in Platform, new \in {Absent, File} : Edit(f, new)

Spec == Init /\ [][Next]_vars
-----------------------------------------------------------------------------
\* An install that reports a failure has linked the skill nowhere: what it had
\* made it has removed, unless it could not, and said so (service.go:69-74).
NoHalfInstall ==
    \A p \in Process, f \in Platform :
        result[p] = "failed" /\ maker[f] = p => f \in stuck[p]

\* Neither operation touches what is not the skill's own link, though other
\* processes and the owner change the entries between its steps; only an entry
\* put there between the look at it and its removal can be lost (README.md:323).
ForeignKept ==
    [][\A p \in Process, f \in Platform :
        call'[p] # call[p] /\ entry'[f] # entry[f] =>
            \/ entry[f] = Absent \/ entry[f] = call[p].skill
            \/ entry'[f] = Absent /\ f \in raced[p]]_vars
=============================================================================
