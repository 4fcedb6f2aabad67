---------------------------- MODULE ReleaseSwitch ----------------------------
(***************************************************************************)
(* The release directory of one skill (internal/improvement/release.go):   *)
(* two symbolic links, current and previous, switched one after the other  *)
(* under a file lock, with a journal that a later lock holder replays.     *)
(*                                                                         *)
(* Every file operation may succeed, fail without effect, or fail after    *)
(* its effect (the rename or unlink is done and the fsync that follows it  *)
(* fails).  A process may die at any step; the kernel then drops its lock. *)
(***************************************************************************)
CONSTANTS
    Proc,           \* processes and goroutines that open the release root
    Commit,         \* revisions
    Candidates,     \* pairs <<base, candidate>>: a candidate is a child of its base
    None,           \* an absent link; no lock owner
    JournalSyncFails \* may the fsync after the unlink that commits a switch fail?

ASSUME CandidatesAssumption ==
    /\ None \notin Commit
    /\ None \notin Proc
    /\ Candidates \subseteq Commit \X Commit
    /\ \A c \in Candidates : c[1] # c[2]
    /\ JournalSyncFails \in BOOLEAN

VARIABLES
    links,          \* the two links of the release root
    journal,        \* .transition.json: the pair to restore, if it exists
    releases,       \* materialized immutable releases
    owner,          \* holder of .release.lock
    pc,             \* where each process is
    op,             \* the operation it runs; NoOp once it is giving up
    undo            \* the transition it holds in memory

vars == <<links, journal, releases, owner, pc, op, undo>>

Pairs == [previous : Commit \cup {None}, current : Commit \cup {None}]
NoPair == [previous |-> None, current |-> None]
PairOf(c) == [previous |-> c[1], current |-> c[2]]

\* "promote" installs its pair, "rollback expected" leaves exactly its pair,
\* "rollback" leaves any pair and "read" is CurrentRelease.
NoOp == [kind |-> "none", pair |-> NoPair]
Request(kind, pair) == [kind |-> kind, pair |-> pair]
Requests ==
    {Request("promote", PairOf(c)) : c \in Candidates}
    \cup {Request("rollback expected", PairOf(c)) : c \in Candidates}
    \cup {Request("rollback", NoPair), Request("read", NoPair)}

NoJournal == [exists |-> FALSE, pair |-> NoPair]

Restoring == {"restorePrevious", "restoreCurrent", "restoreJournal"}
Switching == {"switchPrevious", "switchCurrent", "commit"}
Deciding  == {"decide", "materialize", "writeJournal"}

Init ==
    /\ links = NoPair
    /\ journal = NoJournal
    /\ releases = {}
    /\ owner = None
    /\ pc = [p \in Proc |-> "idle"]
    /\ op = [p \in Proc |-> NoOp]
    /\ undo = [p \in Proc |-> NoPair]

-----------------------------------------------------------------------------
(* The lock, and the ways out of an operation. *)

Goto(p, step) ==
    /\ pc' = [pc EXCEPT ![p] = step]
    /\ UNCHANGED <<owner, op>>

\* Deviation: the operation does not recover an interrupted switch first.
AcquireWithoutRecovery(p, request) ==
    /\ pc[p] = "idle"
    /\ owner = None
    /\ owner' = p
    /\ op' = [op EXCEPT ![p] = request]
    /\ pc' = [pc EXCEPT ![p] = "decide"]
    /\ UNCHANGED <<links, journal, releases, undo>>

Acquire(p, request) ==
    /\ pc[p] = "idle"
    /\ owner = None
    /\ owner' = p
    /\ op' = [op EXCEPT ![p] = request]
    /\ pc' = [pc EXCEPT ![p] = "recover"]
    /\ UNCHANGED <<links, journal, releases, undo>>

\* guard.release, on success and on every error return.
Leave(p) ==
    /\ owner' = None
    /\ pc' = [pc EXCEPT ![p] = "idle"]
    /\ op' = [op EXCEPT ![p] = NoOp]
    /\ undo' = [undo EXCEPT ![p] = NoPair]

\* The operation has failed and undoes itself before it returns its error.
GiveUp(p, step) ==
    /\ pc' = [pc EXCEPT ![p] = step]
    /\ op' = [op EXCEPT ![p] = NoOp]
    /\ UNCHANGED <<owner, undo>>

Crash(p) ==
    /\ pc[p] # "idle"
    /\ Leave(p)
    /\ UNCHANGED <<links, journal, releases>>

\* atomicSymlinkAt refuses a revision that is not materialized; an absent link
\* is restored by an unlink.
CanLink(target) == target \in releases \cup {None}

SetLink(name, target) ==
    /\ CanLink(target)
    /\ links' = [links EXCEPT ![name] = target]

\* What a failing link operation may leave behind: the old link or the new one.
LinkFails(name, target) == UNCHANGED links \/ SetLink(name, target)

-----------------------------------------------------------------------------
(* recoverReleaseTransitionAt: on entry of every operation, and again when a *)
(* switch fails (op is then NoOp).                                           *)

ReadJournal(p) ==
    /\ pc[p] = "recover"
    /\ \/ /\ journal.exists
          /\ undo' = [undo EXCEPT ![p] = journal.pair]
          /\ Goto(p, "restorePrevious")
       \/ /\ ~journal.exists /\ op[p] # NoOp
          /\ Goto(p, "decide")
          /\ UNCHANGED undo
       \/ Leave(p)      \* unreadable, or nothing left to recover
    /\ UNCHANGED <<links, journal, releases>>

RestoreLink(p, from, name, to) ==
    /\ pc[p] = from
    /\ \/ /\ SetLink(name, undo[p][name])
          /\ Goto(p, to)
          /\ UNCHANGED undo
       \/ LinkFails(name, undo[p][name]) /\ Leave(p)
    /\ UNCHANGED <<journal, releases>>

\* Deviation: recovery puts back previous only.
RestorePreviousOnly(p) == RestoreLink(p, "restorePrevious", "previous", "restoreJournal")

RestorePrevious(p) == RestoreLink(p, "restorePrevious", "previous", "restoreCurrent")
RestoreCurrent(p)  == RestoreLink(p, "restoreCurrent", "current", "restoreJournal")

RestoreJournal(p) ==
    /\ pc[p] = "restoreJournal"
    /\ \/ /\ journal' = NoJournal /\ op[p] # NoOp
          /\ Goto(p, "decide")
          /\ UNCHANGED undo
       \/ journal' \in {journal, NoJournal} /\ Leave(p)
    /\ UNCHANGED <<links, releases>>

-----------------------------------------------------------------------------
(* The guards of Promote, Rollback, RollbackExpected and CurrentRelease. *)

PromoteAllowed(pair) == links.current \in {None, pair.previous}

RollbackAllowed ==
    /\ links.current # None
    /\ links.previous # None
    /\ links.current # links.previous

Decide(p) ==
    /\ pc[p] = "decide"
    /\ \/ /\ op[p].kind = "promote"
          /\ PromoteAllowed(op[p].pair)
          /\ Goto(p, "materialize")
          /\ UNCHANGED undo
       \/ /\ op[p].kind \in {"rollback", "rollback expected"}
          /\ RollbackAllowed
          /\ op[p].kind = "rollback expected" => links = op[p].pair
          /\ Goto(p, "writeJournal")
          /\ UNCHANGED undo
       \/ Leave(p)      \* refused, already promoted, nothing to read, or read
    /\ UNCHANGED <<links, journal, releases>>

\* Base first, then candidate; each appears by one rename of a staged copy.
Materialize(p) ==
    /\ pc[p] = "materialize" /\ op[p].kind = "promote"
    /\ \/ /\ releases' = releases \cup {op[p].pair.previous, op[p].pair.current}
          /\ Goto(p, "writeJournal")
          /\ UNCHANGED undo
       \/ /\ releases' = releases \cup {op[p].pair.previous}
          /\ Leave(p)
    /\ UNCHANGED <<links, journal>>

-----------------------------------------------------------------------------
(* switchReleasePairAt *)

Target(p) ==
    IF op[p].kind = "promote" THEN op[p].pair
    ELSE [previous |-> undo[p].current, current |-> undo[p].previous]

\* Deviation: the links are switched without a journal.
SwitchUnjournaled(p) ==
    /\ pc[p] = "writeJournal"
    /\ undo' = [undo EXCEPT ![p] = links]
    /\ Goto(p, "switchPrevious")
    /\ UNCHANGED <<links, journal, releases>>

\* A failed write leaves no journal, or a published one whose directory was
\* not synced; either way the links have not moved.
WriteJournal(p) ==
    /\ pc[p] = "writeJournal"
    /\ ~journal.exists
    /\ \/ /\ undo' = [undo EXCEPT ![p] = links]
          /\ journal' = [exists |-> TRUE, pair |-> links]
          /\ Goto(p, "switchPrevious")
       \/ /\ journal' \in {journal, [exists |-> TRUE, pair |-> links]}
          /\ Leave(p)
    /\ UNCHANGED <<links, releases>>

SwitchLink(p, from, name, to) ==
    /\ pc[p] = from
    /\ \/ SetLink(name, Target(p)[name]) /\ Goto(p, to) /\ UNCHANGED undo
       \/ LinkFails(name, Target(p)[name]) /\ GiveUp(p, "recover")
    /\ UNCHANGED <<journal, releases>>

SwitchPrevious(p) == SwitchLink(p, "switchPrevious", "previous", "switchCurrent")
SwitchCurrent(p)  == SwitchLink(p, "switchCurrent", "current", "commit")

\* Removing the journal commits the switch.  If that fails the old pair is
\* restored from memory, because the unlink may have been done.
CommitSwitch(p) ==
    /\ pc[p] = "commit"
    /\ \/ journal' = NoJournal /\ Leave(p)
       \/ UNCHANGED journal /\ GiveUp(p, "restorePrevious")
       \/ JournalSyncFails /\ journal' = NoJournal /\ GiveUp(p, "restorePrevious")
    /\ UNCHANGED <<links, releases>>

Step(p) ==
    \/ \E request \in Requests : Acquire(p, request)
    \/ ReadJournal(p) \/ RestorePrevious(p) \/ RestoreCurrent(p) \/ RestoreJournal(p)
    \/ Decide(p) \/ Materialize(p)
    \/ WriteJournal(p) \/ SwitchPrevious(p) \/ SwitchCurrent(p) \/ CommitSwitch(p)
    \/ Crash(p)

Next == \E p \in Proc : Step(p)

Spec == Init /\ [][Next]_vars

-----------------------------------------------------------------------------
\* What the directory durably says: the journal's pair while there is one.
StablePair == IF journal.exists THEN journal.pair ELSE links

\* Type invariant; a process is inside an operation exactly while it owns the
\* lock, so every error path of release.go releases its guard.
TypeOK ==
    /\ links \in Pairs
    /\ journal \in [exists : BOOLEAN, pair : Pairs]
    /\ releases \subseteq Commit
    /\ owner \in Proc \cup {None}
    /\ pc \in [Proc -> {"idle", "recover"} \cup Restoring \cup Deciding \cup Switching]
    /\ op \in [Proc -> Requests \cup {NoOp}]
    /\ undo \in [Proc -> Pairs]
    /\ \A p \in Proc : owner = p <=> pc[p] # "idle"

\* Every guard of Promote, Rollback and CurrentRelease is evaluated on a pair
\* that no interrupted switch has left half done (release.go:55, 196, 280).
DecidesOnSettledPair ==
    \A p \in Proc : pc[p] \in Deciding => ~journal.exists

\* No release at all, or two different materialized ones.
Complete(pair) ==
    \/ pair = NoPair
    \/ /\ pair.current \in releases
       /\ pair.previous \in releases
       /\ pair.current # pair.previous

\* Once something has been promoted there is always another materialized
\* release to go back to, whatever crashed or failed since (README.md:234).
RollbackTargetExists == Complete(StablePair)

\* The same, only of what a process finds when it takes the lock: the claim
\* that the pair is crash-recoverable (README.md:52).
RestingPairComplete == owner = None => Complete(StablePair)

\* Two link switches, a journal and its recovery amount to one indivisible
\* step of the pair (README.md:52, release.go:334-337).
ReleasePair == INSTANCE ReleasePair WITH pair <- StablePair
ImplementsReleasePair == ReleasePair!Spec
=============================================================================
