----------------------------- MODULE Transcript -----------------------------
(***************************************************************************)
(* A transcript as the normalizer of internal/transcript reads it, record  *)
(* by record, with what it and the analysis (module Analysis) would return *)
(* if the transcript ended there.                                          *)
(*                                                                         *)
(* Providers append to a transcript during a session and call the hook     *)
(* again and again, so every state is one in which an ingest may find it.  *)
(* Between two of them skills are registered, and their instructions and   *)
(* the installed copies of them are edited and linked anew.                *)
(***************************************************************************)
EXTENDS Analysis

CONSTANTS
    MaximumRecords, MaximumMessages,    \* transcript.Limits
    MaxEdits                            \* bound on changes of what a place holds

ASSUME TranscriptAssumption ==
    MaximumRecords \in Nat /\ MaximumMessages \in Nat /\ MaxEdits \in Nat

VARIABLES
    source,
    records,        \* records read
    identity,       \* transcriptIdentity
    rejected,
    messages,       \* as parsed, before compact
    stands,         \* the skills whose instructions each place holds
    edits,          \* how often that changed
    taught,         \* the cards of all the ingests so far
    pairs, ids, cwds,   \* what identity records said (history)
    withdrawn       \* skills that a place lost after it was read (history)

said == <<pairs, ids, cwds>>
instructions == <<stands, edits, withdrawn>>

transcriptVars ==
    <<source, records, identity, rejected, messages, instructions, taught, said>>

\* What the hook event says, and the field a record lacks.
Absent == "absent"
Event == [session |-> "s", cwd |-> "d"]
Sessions == {Absent, "s", "other"}
Dirs == {Absent, "d", "elsewhere"}

NoIdentity == [session |-> Absent, cwd |-> Absent, seenSession |-> Absent, seenCwd |-> Absent]

TranscriptInit ==
    /\ source \in {"codex", "claude"}
    /\ records = 0
    /\ identity = NoIdentity
    /\ rejected = FALSE
    /\ messages = <<>>
    /\ stands = [p \in Place |-> Skill \cap {p}]
    /\ edits = 0
    /\ taught = {}
    /\ pairs = {} /\ ids = {} /\ cwds = {}
    /\ withdrawn = {}

-----------------------------------------------------------------------------
(* Provider identity.  Each operator gives the set of identities that may     *)
(* follow: one, or none when the record conflicts with what was read.         *)

Agree(known, value) == known \in {Absent, value}

\* observe: a complete pair, the first or the same again.
Observe(id, session, cwd) ==
    IF session # Absent /\ cwd # Absent /\ Agree(id.session, session) /\ Agree(id.cwd, cwd)
    THEN {[id EXCEPT !.session = session, !.cwd = cwd]} ELSE {}

\* Deviation: the fields of partial records make an identity together.
ObserveFields(id, session, cwd) ==
    IF /\ session = Absent \/ Agree(id.session, session)
       /\ cwd = Absent \/ Agree(id.cwd, cwd)
    THEN {[id EXCEPT !.session = IF session = Absent THEN @ ELSE session,
                     !.cwd = IF cwd = Absent THEN @ ELSE cwd]}
    ELSE {}

\* observeClaude: a partial record corroborates, it never completes.
ObserveClaude(id, session, cwd) ==
    IF session # Absent /\ cwd # Absent
    THEN IF Agree(id.seenSession, session) /\ Agree(id.seenCwd, cwd)
         THEN Observe(id, session, cwd) ELSE {}
    ELSE IF /\ session = Absent \/ (Agree(id.session, session) /\ Agree(id.seenSession, session))
            /\ cwd = Absent \/ (Agree(id.cwd, cwd) /\ Agree(id.seenCwd, cwd))
         THEN {[id EXCEPT !.seenSession = IF session = Absent THEN @ ELSE session,
                          !.seenCwd = IF cwd = Absent THEN @ ELSE cwd]}
         ELSE {}

Matches(id) == id.session = Event.session /\ id.cwd = Event.cwd

-----------------------------------------------------------------------------
(* compact *)

\* A message is dropped when it is empty or repeats the one before.
Keep(kept, m) ==
    IF \/ m.text = Nothing /\ m.tool = ""
       \/ kept # <<>> /\ kept[Len(kept)] = m
    THEN kept ELSE Append(kept, m)

Compact(ms) ==
    LET after[n \in 0..Len(ms)] ==
            IF n = 0 THEN <<>> ELSE Keep(after[n - 1], ms[n])
    IN  after[Len(ms)]

\* Would an ingest take the transcript as it is now, and what would it store?
Accepted == ~rejected /\ Matches(identity)

Teach ==
    \E ms \in {Compact(messages')} :
        taught' = taught \cup IF Accepted' THEN Cards(ms, stands') ELSE {}

-----------------------------------------------------------------------------
(* normalizeReader *)

\* The records of a transcript are only appended to: a rejection is final.
Reject ==
    /\ rejected' = TRUE
    /\ identity' = NoIdentity /\ messages' = <<>>

NextRecord ==
    /\ ~rejected /\ records < MaximumRecords
    /\ records' = records + 1

TooManyRecords ==
    /\ ~rejected /\ records = MaximumRecords
    /\ Reject
    /\ UNCHANGED <<source, records, taught, instructions, said>>

\* An incomplete or malformed line, and one of no interest, only counts.
ScanOther ==
    /\ NextRecord
    /\ UNCHANGED <<source, identity, rejected, messages, taught, instructions, said>>

Observed(session, cwd) ==
    IF source = "codex" THEN Observe(identity, session, cwd)
    ELSE ObserveClaude(identity, session, cwd)

\* The session and the directory that a record names.
ScanIdentity(session, cwd) ==
    /\ NextRecord
    /\ \/ identity' \in Observed(session, cwd) /\ UNCHANGED <<rejected, messages>>
       \/ Observed(session, cwd) = {} /\ Reject
    /\ pairs' = IF Absent \in {session, cwd} THEN pairs ELSE pairs \cup {<<session, cwd>>}
    /\ ids' = ids \cup ({session} \ {Absent})
    /\ cwds' = cwds \cup ({cwd} \ {Absent})
    /\ UNCHANGED <<source, instructions>>
    /\ Teach

TooManyMessages ==
    /\ NextRecord
    /\ Len(messages) = MaximumMessages
    /\ Reject
    /\ UNCHANGED <<source, taught, instructions, said>>

ScanMessage(m) ==
    /\ NextRecord
    /\ Len(messages) < MaximumMessages
    /\ messages' = Append(messages, m)
    /\ UNCHANGED <<source, identity, rejected, instructions, said>>
    /\ Teach

\* parseCodex, parseClaude: a result has the tool name of the call with its id.
NameOf(id) ==
    IF id # NoId /\ \E i \in DOMAIN messages : IsCall(messages[i]) /\ messages[i].id = id
    THEN Tool ELSE ""

\* Ids are only names: they are numbered as they come.
Comes(n, earlier) == n \in 1..(Cardinality(earlier) + 1)

Named == {messages[i].id : i \in DOMAIN messages} \ {NoId}
PlacesRead == {p \in Place : \E i \in DOMAIN messages : messages[i].text = Read(p)}

ScanCall(id, text) == ScanMessage(Call(id, text))
ScanResult(id, failed, text) == ScanMessage(Result(id, NameOf(id), failed, text))
ScanCorrection == ScanMessage(User(Correction))

Scan ==
    \/ ScanOther \/ TooManyRecords \/ TooManyMessages
    \/ \E session \in Sessions, cwd \in Dirs : ScanIdentity(session, cwd)
    \/ \E id \in CallId :
         /\ Comes(id, Named)
         /\ \/ \E p \in Place : ScanCall(id, Read(p))
            \/ ScanCall(id, Validation)
            \/ \E failed \in BOOLEAN : ScanResult(id, failed, Output)
            \/ ScanResult(id, FALSE, Nothing)
    \/ ScanCall(NoId, Opaque) \/ ScanResult(NoId, FALSE, Output)
    \/ ScanCorrection

-----------------------------------------------------------------------------
\* Place p holds the instructions of other skills from now on: one was
\* registered, edited, installed, or a link was switched.
ChangeInstructions(p, skills) ==
    /\ edits < MaxEdits /\ stands[p] # skills
    /\ stands' = [stands EXCEPT ![p] = skills]
    /\ edits' = edits + 1
    /\ withdrawn' = withdrawn \cup IF p \in PlacesRead THEN stands[p] \ skills ELSE {}
    /\ UNCHANGED <<source, records, identity, rejected, messages, said>>
    /\ Teach

TranscriptNext ==
    \/ Scan
    \/ \E p \in Place, skills \in SUBSET Skill : ChangeInstructions(p, skills)

TranscriptSpec == TranscriptInit /\ [][TranscriptNext]_transcriptVars
-----------------------------------------------------------------------------
\* A result is evidence for one call: the last thing said under its id, if
\* that is a call (analyzer.go:640-670).  The outcome of a session is that of
\* the last call with an id, unless one was answered twice.
CorrelationExact ==
    LET ms == Compact(messages)
        call == CallOf(ms)
        Earlier(i) == {j \in 1..(i - 1) : ms[j].role = "tool" /\ Key(ms[j]) = Key(ms[i])}
        Last(set) == {i \in set : \A j \in set : j <= i}
        Answered == {i \in DOMAIN ms : call[i] # 0 /\ ms[i].id # NoId}
        Twice == \E i, j \in DOMAIN ms : i # j /\ IsResult(ms[i]) /\ IsResult(ms[j])
                                         /\ ms[i].id = ms[j].id /\ ms[i].id # NoId
    IN  /\ \A i \in DOMAIN ms :
              {call[i]} \ {0} =
                  IF IsResult(ms[i]) THEN {j \in Last(Earlier(i)) : IsCall(ms[j])} ELSE {}
        /\ ~Twice => Outcome(ms) =
              IF Answered = {} THEN "unknown"
              ELSE IF \E i \in Last(Answered) : ms[i].failed THEN "failed" ELSE "succeeded"

\* A transcript is taken on one record that names both its session and its
\* directory, and no record contradicts it (normalize.go:310-311).
IdentityIsNative ==
    Accepted =>
        /\ <<Event.session, Event.cwd>> \in pairs
        /\ ids = {Event.session} /\ cwds = {Event.cwd}

\* However often a growing transcript is ingested, and whatever is registered
\* and installed meanwhile, its session teaches two skills only if a place that
\* it had read ceased to hold the instructions of one of them: a second skill
\* alone makes it teach nothing more (analyzer.go:151-153).
OneSkillPerSession ==
    \A c, d \in taught : c.skill # d.skill => {c.skill, d.skill} \cap withdrawn # {}
=============================================================================
