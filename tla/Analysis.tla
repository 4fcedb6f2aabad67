------------------------------ MODULE Analysis ------------------------------
(***************************************************************************)
(* What Analyze of internal/learning makes of the messages of a            *)
(* transcript: which call a tool result answers, which skill the session   *)
(* used, and the cards it teaches.                                         *)
(*                                                                         *)
(* A message is what parseCodex and parseClaude make of a record.  The     *)
(* text of a call stands for its shell command: it reads the instructions  *)
(* at a place, runs "go test", or cannot be parsed.  The text of a result  *)
(* is empty, or output that proves a read and a validation.                *)
(*                                                                         *)
(* Whose instructions a place holds is not in the transcript: the analysis *)
(* looks it up, in the registered skills and on disk, when it runs.        *)
(***************************************************************************)
EXTENDS Naturals, FiniteSets, Sequences

CONSTANTS
    MaxSkills,  \* bound on registered skills
    MaxPlaces,  \* bound on paths and names that load instructions
    MaxIds      \* bound on tool call ids

ASSUME AnalysisAssumption == MaxSkills \in Nat /\ MaxPlaces \in Nat /\ MaxIds \in Nat

Skill == 1..MaxSkills
Place == 1..MaxPlaces
CallId == 1..MaxIds
NoId == 0

Read(p) == <<"read", p>>
Validation == <<"validate">>
Opaque == <<"opaque">>
Correction == <<"correction">>
Output == <<"output">>
Nothing == <<>>

Tool == "shell"

Call(id, text) ==
    [role |-> "tool", id |-> id, tool |-> Tool, result |-> FALSE, failed |-> FALSE, text |-> text]

Result(id, tool, failed, text) ==
    [role |-> "tool", id |-> id, tool |-> tool, result |-> TRUE, failed |-> failed, text |-> text]

User(text) ==
    [role |-> "user", id |-> NoId, tool |-> "", result |-> FALSE, failed |-> FALSE, text |-> text]

IsCall(m) == m.role = "tool" /\ ~m.result
IsResult(m) == m.role = "tool" /\ m.result

-----------------------------------------------------------------------------
(* correlateToolCalls *)

\* byID for a message with an id, latestByName for one without.
Key(m) == IF m.id # NoId THEN <<"id", m.id>> ELSE <<"name", m.tool>>
Keys == ({"id"} \X CallId) \cup ({"name"} \X {Tool, ""})

Note(acc, call) == [acc EXCEPT !.call = Append(@, call)]

Ask(acc, i, k) == [Note(acc, 0) EXCEPT !.open[k] = i]

\* Deviation: a call stays open after its answer.
AnswerAgain(acc, k) == Note(acc, acc.open[k])

\* A result answers the call that is open under its key, which closes it.
Answer(acc, k) == [Note(acc, acc.open[k]) EXCEPT !.open[k] = 0]

NothingOpen == [open |-> [k \in Keys |-> 0], call |-> <<>>]

Correlate(acc, i, m) ==
    IF IsCall(m) THEN Ask(acc, i, Key(m))
    ELSE IF IsResult(m) THEN Answer(acc, Key(m))
    ELSE Note(acc, 0)

\* The call each message of ms answers, 0 if it answers none.
CallOf(ms) ==
    LET after[n \in 0..Len(ms)] ==
            IF n = 0 THEN NothingOpen ELSE Correlate(after[n - 1], n, ms[n])
    IN  after[Len(ms)].call

-----------------------------------------------------------------------------
(* sessionOutcome *)

\* The last result of a call that came before it, answered already or not.
Outcome(ms) ==
    LET Known(i) == /\ ms[i].result /\ ms[i].id # NoId
                    /\ \E j \in 1..(i - 1) : ms[j].id = ms[i].id /\ ~ms[j].result
        Last == {i \in DOMAIN ms : Known(i) /\ \A j \in DOMAIN ms : Known(j) => j <= i}
    IN  IF Last = {} THEN "unknown"
        ELSE IF \E i \in Last : ms[i].failed THEN "failed" ELSE "succeeded"

-----------------------------------------------------------------------------
(* attributedSkill.  stands[p] is the set of enabled skills whose            *)
(* instructions place p holds at the time of the analysis: those registered  *)
(* there under that path or name, those whose registered file is the same    *)
(* file by way of links, and, beneath a directory of installed skills, those *)
(* whose registered file has the same contents.                              *)

\* The skills whose instructions the call read that the result at i shows.
Shows(ms, call, stands, i) ==
    {s \in Skill : /\ IsResult(ms[i]) /\ ~ms[i].failed /\ ms[i].text # Nothing
                   /\ call[i] # 0
                   /\ \E p \in Place : ms[call[i]].text = Read(p) /\ s \in stands[p]}

\* Deviation: the skill that was read last is the session's.
AttributedLast(ms, call, stands) ==
    LET showing == {i \in DOMAIN ms : Shows(ms, call, stands, i) # {}}
        last == {j \in showing : \A k \in showing : k <= j}
    IN  UNION {Shows(ms, call, stands, i) : i \in last}

\* More than one skill is as good as none.
Attributed(ms, call, stands) ==
    LET matches == UNION {Shows(ms, call, stands, i) : i \in DOMAIN ms}
    IN  IF Cardinality(matches) = 1 THEN matches ELSE {}

-----------------------------------------------------------------------------
(* Analyze *)

\* commandFamily: a command that cannot be parsed has none.
Family(text) == IF text = Opaque THEN {} ELSE {text}

\* nextSuccessfulTool: the first later success of the same family (all calls
\* are calls of one tool here).
Recovery(ms, call, failure) ==
    LET Related(i) ==
            /\ IsResult(ms[i]) /\ ~ms[i].failed /\ call[i] # 0
            /\ Family(ms[call[failure]].text) \cap Family(ms[call[i]].text) # {}
        Later == {i \in DOMAIN ms : i > failure /\ Related(i)}
    IN  {ms[call[i]].text : i \in {j \in Later : \A k \in Later : j <= k}}

CardOf(s, kind, fact, lesson) == [skill |-> s, kind |-> kind, fact |-> fact, lesson |-> lesson]

\* A card's fingerprint is made of its kind, its fact and its lesson;
\* deduplicate keeps one card of each.
Cards(ms, stands) ==
    LET call == CallOf(ms)
    IN  UNION {
          {CardOf(s, "correction", ms[i].text, {}) : i \in
              {j \in DOMAIN ms : ms[j].role = "user" /\ ms[j].text = Correction}}
          \cup
          {CardOf(s, "failure", <<ms[i].tool, ms[call[i]].text, ms[i].text>>, Recovery(ms, call, i)) :
              i \in {j \in DOMAIN ms : IsResult(ms[j]) /\ ms[j].failed /\ call[j] # 0}}
          \cup
          {CardOf(s, "validation", ms[call[i]].text, {}) : i \in
              {j \in DOMAIN ms : /\ IsResult(ms[j]) /\ ~ms[j].failed /\ ms[j].text # Nothing
                                 /\ call[j] # 0 /\ ms[call[j]].text = Validation}}
          : s \in Attributed(ms, call, stands)}
=============================================================================
