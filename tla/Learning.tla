------------------------------ MODULE Learning ------------------------------
(***************************************************************************)
(* What SkillLoop learns from: transcripts that belong to the providers,   *)
(* the sessions and cards that ingests and reanalyses commit, and the      *)
(* clusters that both rebuild from the cards (internal/store,              *)
(* internal/daemon, internal/reanalysis), for one skill.                   *)
(*                                                                         *)
(* Every process has a database connection of its own.  A transaction that *)
(* starts with a write is one step; RebuildClusters reads first, and its   *)
(* later writes fail when another connection has committed meanwhile.      *)
(***************************************************************************)
EXTENDS Naturals, FiniteSets

CONSTANTS
    Session,        \* provider sessions
    Topic,          \* kind and fingerprint of a card
    Daemon,         \* daemons
    Reanalyst,      \* the process of "learning reanalyze"
    NoFile, None,   \* no transcript; no session row
    Pruned,         \* the empty transcript_path
    Quorum,         \* aggregation.minimum_sessions
    MaxHooks,       \* bound on hook events
    MaxChanges      \* bound on what providers, prunes, reopened clusters and crashes change

ASSUME LearningAssumption ==
    /\ IsFiniteSet(Session)
    /\ Reanalyst \notin Daemon
    /\ Quorum \in Nat \ {0}
    /\ MaxHooks \in Nat /\ MaxChanges \in Nat

VARIABLES
    file,       \* the transcript at each path: whose it is, what it teaches
    events,     \* captured hook events
    hooks, changes,     \* what the bounds count
    sessions,   \* the sessions table: locator and transcript binding
    cards,      \* the learning_cards table: rows per session and topic
    count, status,      \* the clusters table
    pc,
    ingest,     \* the event a daemon has claimed and the topics it read
    listed, known, todo, fresh, \* the reanalysis: sessions, their cards, new ones
    groups,     \* the counts a rebuild has read
    unchanged   \* processes since whose read nobody has committed

provider == <<file, events, hooks, changes>>
tables == <<sessions, cards, count, status>>
memory == <<pc, ingest, listed, known, todo, fresh, groups>>
vars == <<provider, tables, memory, unchanged>>

Process == Daemon \cup {Reanalyst}

\* A transcript's name contains the id of its session; it may be moved.
Path == Session \X {"sessions", "archived"}

Content == [id : Session, topics : SUBSET Topic]
Row == [path : Path \cup {Pruned}, binding : Path \cup {Pruned}]

ASSUME NoneAssumption == None \notin Row

Card == Session \X Topic
Stored == {c \in Card : cards[c] > 0}

NoIngest == [event |-> <<>>, topics |-> {}]

Init ==
    /\ file = [p \in Path |-> NoFile]
    /\ events = {}
    /\ hooks = 0 /\ changes = 0
    /\ sessions = [s \in Session |-> None]
    /\ cards = [c \in Card |-> 0]
    /\ count = [t \in Topic |-> 0]
    /\ status = [t \in Topic |-> "none"]
    /\ pc = [p \in Process |-> "idle"]
    /\ ingest = [d \in Daemon |-> NoIngest]
    /\ listed = [s \in Session |-> None]
    /\ known = {} /\ todo = {} /\ fresh = {}
    /\ groups = [p \in Process |-> [t \in Topic |-> 0]]
    /\ unchanged = {}

Goto(p, step) == pc' = [pc EXCEPT ![p] = step]

\* A commit ends the snapshots of all other connections.
Commits == unchanged' = {}

-----------------------------------------------------------------------------
(* The providers write transcripts, move them, and call the hook. *)

Change ==
    /\ changes < MaxChanges
    /\ changes' = changes + 1

Put(p, content) ==
    /\ Change
    /\ file' = [file EXCEPT ![p] = content]
    /\ UNCHANGED <<events, hooks, tables, memory, unchanged>>

\* A longer transcript may teach more, or nothing: the read of a second skill
\* makes its attribution ambiguous.  Nor need one that is as long as before
\* teach the same: its instructions may have changed on disk.
Write(s, topics) ==
    /\ Put(<<s, "sessions">>, [id |-> s, topics |-> topics])

\* Another session's transcript takes the place of the one at path p.
Replace(p, s) ==
    /\ file[p] # NoFile
    /\ Put(p, [file[p] EXCEPT !.id = s])

Archive(s) ==
    /\ file[<<s, "sessions">>] # NoFile
    /\ Change
    /\ file' = [file EXCEPT ![<<s, "archived">>] = file[<<s, "sessions">>],
                            ![<<s, "sessions">>] = NoFile]
    /\ UNCHANGED <<events, hooks, tables, memory, unchanged>>

Hook(p) ==
    /\ file[p] # NoFile
    /\ hooks < MaxHooks
    /\ hooks' = hooks + 1
    /\ events' = events \cup {<<file[p].id, p>>}
    /\ UNCHANGED <<file, changes, tables, memory, unchanged>>

-----------------------------------------------------------------------------
(* processFile, from the claim of a job to the commit of its ingest. *)

\* The transcript at path p, if it is that of session s.
Normalize(s, p) ==
    IF file[p] # NoFile /\ file[p].id = s THEN {file[p].topics} ELSE {}

\* An event that fails is retried as if the hook had been called again.
Claim(d) ==
    /\ pc[d] = "idle"
    /\ \E e \in events :
         /\ events' = events \ {e}
         /\ \/ \E topics \in Normalize(e[1], e[2]) :
                 /\ ingest' = [ingest EXCEPT ![d] = [event |-> e, topics |-> topics]]
                 /\ Goto(d, "commit")
            \/ /\ Normalize(e[1], e[2]) = {}
               /\ UNCHANGED <<pc, ingest>>
    /\ Commits
    /\ UNCHANGED <<file, hooks, changes, tables, listed, known, todo, fresh, groups>>

\* recordSession: a session keeps its transcript, a transcript its session.
Records(s, p) ==
    IF sessions[s] = None
    THEN \A other \in Session : sessions[other] # None => sessions[other].binding # p
    ELSE sessions[s].binding = p

\* Deviation: a batch inserts what was missing when it was made.
AddBlindly(batch) == cards' = [c \in Card |-> IF c \in batch THEN cards[c] + 1 ELSE cards[c]]

\* addLearningCard: a card that is there already stays.
Add(batch) == cards' = [c \in Card |-> IF c \in batch THEN 1 ELSE cards[c]]

\* CommitIngestJob, by the worker that still holds the lease.
Commit(d) ==
    /\ pc[d] = "commit"
    /\ LET s == ingest[d].event[1]
           p == ingest[d].event[2]
       IN  IF Records(s, p)
           THEN /\ sessions' = [sessions EXCEPT ![s] =
                       IF @ = None THEN [path |-> p, binding |-> p] ELSE @]
                /\ Add({s} \X ingest[d].topics)
           ELSE UNCHANGED <<sessions, cards>>
    /\ Commits
    /\ Goto(d, "idle")
    /\ ingest' = [ingest EXCEPT ![d] = NoIngest]
    /\ UNCHANGED <<provider, count, status, listed, known, todo, fresh, groups>>

\* Deviation: the binding goes with the locator.
Forget(row) == [path |-> Pruned, binding |-> Pruned]

PruneLocator(row) == [row EXCEPT !.path = Pruned]

\* PruneRetention, at the start of a pass: the sessions not seen for long.
Prune(d) ==
    /\ pc[d] = "idle"
    /\ Change
    /\ \E old \in SUBSET {s \in Session : sessions[s] # None /\ sessions[s].path # Pruned} :
         /\ old # {}
         /\ sessions' = [s \in Session |->
                IF s \in old THEN PruneLocator(sessions[s]) ELSE sessions[s]]
    /\ Commits
    /\ UNCHANGED <<file, events, hooks, cards, count, status, memory>>

-----------------------------------------------------------------------------
(* RebuildClusters. *)

SessionsOf(t) == {s \in Session : <<s, t>> \in Stored}

\* The pass of a daemon ends with it, and so does a reanalysis.
Snapshot(p) ==
    /\ pc[p] = IF p = Reanalyst THEN "rebuild" ELSE "idle"
    /\ Goto(p, "upsert")
    /\ groups' = [groups EXCEPT ![p] = [t \in Topic |-> Cardinality(SessionsOf(t))]]
    /\ unchanged' = unchanged \cup {p}
    /\ UNCHANGED <<provider, tables, ingest, listed, known, todo, fresh>>

\* Deviation: a cluster that is there keeps its counts too.
InsertedOnly(p) ==
    /\ count' = [t \in Topic |-> IF status[t] = "none" THEN groups[p][t] ELSE count[t]]
    /\ status' = [t \in Topic |->
           IF groups[p][t] > 0 /\ status[t] = "none" THEN "open" ELSE status[t]]

\* The upsert leaves the status of a cluster that is there alone.
Upserted(p) ==
    /\ count' = [t \in Topic |-> IF groups[p][t] > 0 THEN groups[p][t] ELSE count[t]]
    /\ status' = [t \in Topic |->
           IF groups[p][t] > 0 /\ status[t] = "none" THEN "open" ELSE status[t]]

EndRebuild(p) ==
    /\ Goto(p, "idle")
    /\ groups' = [groups EXCEPT ![p] = [t \in Topic |-> 0]]
    /\ UNCHANGED <<provider, sessions, cards, ingest, listed, known, todo, fresh>>

\* Deviation: the snapshot is not checked; the last writer wins.
UpsertStale(p) ==
    /\ pc[p] = "upsert"
    /\ Upserted(p)
    /\ Commits
    /\ EndRebuild(p)

Upsert(p) ==
    /\ pc[p] = "upsert"
    /\ IF p \in unchanged
       THEN Upserted(p) /\ Commits
       ELSE UNCHANGED <<count, status, unchanged>>
    /\ EndRebuild(p)

-----------------------------------------------------------------------------
(* The reanalysis: Run and resolve of internal/reanalysis. *)

ListSessions ==
    /\ pc[Reanalyst] = "idle"
    /\ Goto(Reanalyst, "list")
    /\ listed' = sessions
    /\ todo' = {s \in Session : sessions[s] # None}
    /\ UNCHANGED <<provider, tables, ingest, known, fresh, groups, unchanged>>

ListCards ==
    /\ pc[Reanalyst] = "list"
    /\ Goto(Reanalyst, "resolve")
    /\ known' = Stored
    /\ UNCHANGED <<provider, tables, ingest, listed, todo, fresh, groups, unchanged>>

\* The transcript under the stored name, or else the only one to be found.
Resolved(s) ==
    LET stored == listed[s].path
        found == {p \in Path : p[1] = s /\ Normalize(s, p) # {}}
    IN  IF stored # Pruned /\ file[stored] # NoFile THEN Normalize(s, stored)
        ELSE IF Cardinality(found) = 1 THEN UNION {Normalize(s, p) : p \in found}
        ELSE {}

Resolve(s) ==
    /\ pc[Reanalyst] = "resolve"
    /\ s \in todo
    /\ todo' = todo \ {s}
    /\ fresh' = fresh \cup (({s} \X UNION Resolved(s)) \ known)
    /\ UNCHANGED <<provider, tables, pc, ingest, listed, known, groups, unchanged>>

Forgotten ==
    /\ listed' = [s \in Session |-> None]
    /\ known' = {} /\ todo' = {} /\ fresh' = {}

EndDryRun ==
    /\ pc[Reanalyst] = "resolve" /\ todo = {}
    /\ Goto(Reanalyst, "idle")
    /\ Forgotten
    /\ UNCHANGED <<provider, tables, ingest, groups, unchanged>>

AddCards ==
    /\ pc[Reanalyst] = "resolve" /\ todo = {}
    /\ Goto(Reanalyst, "rebuild")
    /\ Add(fresh)
    /\ IF fresh = {} THEN UNCHANGED unchanged ELSE Commits
    /\ Forgotten
    /\ UNCHANGED <<provider, sessions, count, status, ingest, groups>>

-----------------------------------------------------------------------------
(* What else writes the clusters, and what ends a process. *)

\* Proposals move a cluster's status; Create wants a quorum (module Reservation).
Decide(t, from, to) ==
    /\ status[t] = from
    /\ to = "proposed" => count[t] >= Quorum
    /\ IF to = "open" THEN Change ELSE UNCHANGED changes
    /\ status' = [status EXCEPT ![t] = to]
    /\ Commits
    /\ UNCHANGED <<file, events, hooks, sessions, cards, count, memory>>

Crash(p) ==
    /\ pc[p] # "idle"
    /\ Change
    /\ Goto(p, "idle")
    /\ IF p = Reanalyst THEN Forgotten /\ UNCHANGED ingest
       ELSE ingest' = [ingest EXCEPT ![p] = NoIngest] /\ UNCHANGED <<listed, known, todo, fresh>>
    /\ groups' = [groups EXCEPT ![p] = [t \in Topic |-> 0]]
    /\ UNCHANGED <<file, events, hooks, tables, unchanged>>

Pass(d) == Claim(d) \/ Commit(d) \/ Snapshot(d) \/ Upsert(d)

Next ==
    \/ \E s \in Session :
         \/ \E topics \in SUBSET Topic : Write(s, topics)
         \/ Archive(s) \/ Resolve(s)
         \/ \E p \in Path : Replace(p, s)
    \/ \E p \in Path : Hook(p)
    \/ \E d \in Daemon : Pass(d) \/ Prune(d)
    \/ ListSessions \/ ListCards \/ EndDryRun \/ AddCards
    \/ Snapshot(Reanalyst) \/ Upsert(Reanalyst)
    \/ \E t \in Topic :
         \/ Decide(t, "open", "proposed") \/ Decide(t, "proposed", "resolved")
         \/ Decide(t, "proposed", "open")
    \/ \E p \in Process : Crash(p)

\* A daemon polls, or is started again; nobody needs to run a reanalysis.
Spec == Init /\ [][Next]_vars /\ \A d \in Daemon : WF_vars(Pass(d))

-----------------------------------------------------------------------------
\* Type invariant; there is one card for a session and topic, however many
\* ingests and reanalyses found it at once.
TypeOK ==
    /\ file \in [Path -> Content \cup {NoFile}]
    /\ events \subseteq Session \X Path
    /\ hooks \in 0..MaxHooks /\ changes \in 0..MaxChanges
    /\ sessions \in [Session -> Row \cup {None}]
    /\ cards \in [Card -> 0..1]
    /\ count \in [Topic -> Nat]
    /\ status \in [Topic -> {"none", "open", "proposed", "resolved"}]
    /\ pc \in [Process -> {"idle", "commit", "list", "resolve", "rebuild", "upsert"}]
    /\ todo \subseteq Session
    /\ known \subseteq Card /\ fresh \subseteq Card
    /\ groups \in [Process -> [Topic -> Nat]]
    /\ unchanged \subseteq Process

\* A quorum is one of transcripts: the sessions a cluster counts, and those a
\* proposal was made for, are bound to as many transcripts, though locators are
\* pruned and transcripts replaced (README.md:188).
QuorumOfTranscripts ==
    \A t \in Topic :
        LET bound == {sessions[s].binding : s \in SessionsOf(t)}
        IN  /\ count[t] <= Cardinality(bound)
            /\ status[t] \in {"proposed", "resolved"} => Cardinality(bound) >= Quorum

\* A rebuild never takes back what was counted since it read the cards, and
\* never what was decided: a resolved cluster stays resolved (store.go:700-702).
ClustersAdvance ==
    [][\A t \in Topic :
        /\ count'[t] >= count[t]
        /\ status[t] = "resolved" => status'[t] = "resolved"]_vars

\* Every card is counted in the end, though rebuilds fail, reanalyses stop
\* between their cards and their clusters, and processes crash.
CardsAreCounted ==
    \A t \in Topic : []<>(count[t] = Cardinality(SessionsOf(t)))
=============================================================================
