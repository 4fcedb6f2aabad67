---------------------------- MODULE HookInstall ----------------------------
(***************************************************************************)
(* "hooks install" and "hooks uninstall" (internal/hooks/install.go): the  *)
(* handlers of SkillLoop in the settings of an agent, a file that its      *)
(* owner, the agent and other calls of SkillLoop change as well.  The      *)
(* files of the two providers have nothing in common: a command for both   *)
(* is a call for each in turn, up to the first that fails.                 *)
(*                                                                         *)
(* A call reads the file, computes the new document and renames a          *)
(* temporary over it; no lock is held between the two.  A document keeps   *)
(* of the JSON what the code looks at: for each event the groups, each     *)
(* with its handlers and whether it has other keys (a matcher), and the    *)
(* description.  A missing file or key reads as an empty one.              *)
(***************************************************************************)
EXTENDS Naturals, Sequences

CONSTANTS
    Caller,
    Variant,    \* SkillLoop's handlers: one for each --config it is called with
    Other,      \* a handler that is not SkillLoop's
    Malformed,  \* a file that is not JSON of the expected shape, or is unsafe to read
    Layouts,    \* what an owner keeps for an event
    MaxUpsets   \* bound on edits and crashes

ASSUME HookAssumption ==
    /\ MaxUpsets \in Nat
    /\ Variant # {} /\ Other \notin Variant

VARIABLES
    source,     \* the provider whose settings these are
    file,       \* the settings
    stage, request, \* the step of each caller, and its call
    upsets,
    standing,   \* what the last call for a handler made of it (history)
    outdated,   \* the callers whose file others changed since they read it (history)
    since       \* the handlers reported on since a caller read the file (history)

told == <<standing, outdated, since>>
hookVars == <<source, file, stage, request, upsets, told>>

Event == {"Stop", "SessionEnd"}

Handler == Variant \cup {Other}

Group(handlers, matcher) == [handlers |-> handlers, matcher |-> matcher]
Groups == [handlers : Seq(Handler), matcher : BOOLEAN]

Descriptions == {"none", "SkillLoop", "theirs"}
Document == [groups : [Event -> Seq(Groups)], description : Descriptions]

ASSUME MalformedAssumption == Malformed \notin Document

Empty == [groups |-> [e \in Event |-> <<>>], description |-> "none"]

NoRequest == [op |-> "none", variant |-> Other, doc |-> Empty]

Unknown == [v \in Variant |-> "unknown"]

\* A loop that keeps what is in set.
Keeping(kept, x, set) == IF x \in set THEN Append(kept, x) ELSE kept

Only(seq, set) ==
    LET after[n \in 0..Len(seq)] ==
            IF n = 0 THEN <<>> ELSE Keeping(after[n - 1], seq[n], set)
    IN  after[Len(seq)]

\* How often a group, and an event, has a handler.
In(g, v) == Len(Only(g.handlers, {v}))

Copies(groups, v) ==
    LET upTo[n \in 0..Len(groups)] == IF n = 0 THEN 0 ELSE upTo[n - 1] + In(groups[n], v)
    IN  upTo[Len(groups)]

\* No owner keeps a handler twice for an event.
ASSUME LayoutsAssumption ==
    \A groups \in Layouts :
        groups \in Seq(Groups) /\ \A v \in Variant : Copies(groups, v) <= 1

HookInit ==
    /\ source \in {"codex", "claude"}
    /\ file \in {Empty, Malformed} \cup
           [groups : [Event -> Layouts], description : Descriptions]
    /\ stage = [p \in Caller |-> "idle"]
    /\ request = [p \in Caller |-> NoRequest]
    /\ upsets = 0
    /\ standing = Unknown
    /\ outdated = {}
    /\ since = [p \in Caller |-> {}]

-----------------------------------------------------------------------------
(* The documents. *)

Has(groups, v) ==
    \E i \in DOMAIN groups : \E j \in DOMAIN groups[i].handlers : groups[i].handlers[j] = v

\* Deviation: the handler of another configuration counts as this one.
AddUnlessSimilar(groups, v) ==
    IF \E w \in Variant : Has(groups, w) THEN groups
    ELSE Append(groups, Group(<<v>>, FALSE))

\* addHandler, for one event.
AddHandler(groups, v) ==
    IF Has(groups, v) THEN groups ELSE Append(groups, Group(<<v>>, FALSE))

Without(g, v) == Group(Only(g.handlers, Handler \ {v}), g.matcher)

AllWithout(groups, v) == [i \in DOMAIN groups |-> Without(groups[i], v)]

\* Deviation: a group with the handler goes as a whole.
RemoveGroups(groups, v) == Only(groups, {g \in Groups : Without(g, v) = g})

\* A group that held nothing but the handler goes with it.
Stays(v) ==
    {g \in Groups : g.matcher \/ g.handlers = <<>> \/ Without(g, v).handlers # <<>>}

\* removeHandler, for one event.
RemoveHandler(groups, v) == AllWithout(Only(groups, Stays(v)), v)

Installed(doc, v) ==
    [groups |-> [e \in Event |-> AddHandler(doc.groups[e], v)],
     description |-> IF source = "codex" /\ doc.description = "none"
                     THEN "SkillLoop" ELSE doc.description]

Uninstalled(doc, v) ==
    [doc EXCEPT !.groups = [e \in Event |-> RemoveHandler(doc.groups[e], v)]]

Updated(doc, c) ==
    IF c.op = "install" THEN Installed(doc, c.variant) ELSE Uninstalled(doc, c.variant)

-----------------------------------------------------------------------------
(* A call. *)

Proceed(p, step) == stage' = [stage EXCEPT ![p] = step]

Finish(p) == Proceed(p, "idle") /\ request' = [request EXCEPT ![p] = NoRequest]

\* Who has read the file and not written it yet.
Readers == {p \in Caller : stage[p] = "write"}

\* A call ends and tells what its handler is now, given what was said of the others.
Report(p, said) ==
    /\ Finish(p)
    /\ standing' = [said EXCEPT ![request[p].variant] = request[p].op]
    /\ since' = [q \in Caller |->
          IF q \in Readers \ {p} THEN since[q] \cup {request[p].variant} ELSE {}]

GiveUp(p) ==
    /\ Finish(p)
    /\ outdated' = outdated \ {p}
    /\ since' = [since EXCEPT ![p] = {}]

Call(p, op, v) ==
    /\ stage[p] = "idle"
    /\ Proceed(p, "read")
    /\ request' = [request EXCEPT ![p] = [op |-> op, variant |-> v, doc |-> Empty]]
    /\ UNCHANGED <<source, file, upsets, told>>

\* A document that is as wanted already is not written.
Read(p) ==
    /\ stage[p] = "read" /\ file # Malformed
    /\ LET new == Updated(file, request[p])
       IN  IF new = file
           THEN Report(p, standing)
           ELSE /\ Proceed(p, "write")
                /\ request' = [request EXCEPT ![p].doc = new]
                /\ UNCHANGED <<standing, since>>
    /\ UNCHANGED <<source, file, upsets, outdated>>

\* The file is malformed, no regular file, too long, or another one than was
\* looked at; or the directory, the temporary or the rename fails (and cleans up).
Fail(p) ==
    /\ stage[p] \in {"read", "write"}
    /\ GiveUp(p)
    /\ UNCHANGED <<source, file, upsets, standing>>

\* writeDocument.  The temporary has a name of its own, and nobody else looks at
\* it; the rename replaces whatever the file is by now.  What was reported since
\* the draft was made is undone: nothing is said of those handlers any more.
WriteDocument(p) ==
    /\ stage[p] = "write"
    /\ file' = request[p].doc
    /\ Report(p, [v \in Variant |-> IF v \in since[p] THEN "unknown" ELSE standing[v]])
    /\ outdated' = (outdated \cup Readers) \ {p}
    /\ UNCHANGED <<source, upsets>>

-----------------------------------------------------------------------------
(* What is not a call. *)

\* The owner or the agent replaces the handlers of an event, or breaks the file.
Changed(new) ==
    /\ upsets < MaxUpsets
    /\ upsets' = upsets + 1
    /\ file' = new
    /\ standing' = Unknown
    /\ outdated' = outdated \cup Readers
    /\ UNCHANGED <<source, stage, request, since>>

Rewrite(e, groups) ==
    Changed([(IF file = Malformed THEN Empty ELSE file) EXCEPT !.groups[e] = groups])

Break == file # Malformed /\ Changed(Malformed)

Die(p) ==
    /\ upsets < MaxUpsets /\ stage[p] # "idle"
    /\ upsets' = upsets + 1
    /\ GiveUp(p)
    /\ UNCHANGED <<source, file, standing>>

HookNext ==
    \/ \E p \in Caller :
         \/ \E op \in {"install", "uninstall"}, v \in Variant : Call(p, op, v)
         \/ Read(p) \/ Fail(p) \/ WriteDocument(p) \/ Die(p)
    \/ \E e \in Event, groups \in Layouts : Rewrite(e, groups)
    \/ Break

HookSpec == HookInit /\ [][HookNext]_hookVars
-----------------------------------------------------------------------------
\* The groups without one handler, in order, but for those that are nothing without it.
Left(groups, v) ==
    Only(AllWithout(groups, v), {g \in Groups : g.matcher \/ g.handlers # <<>>})

\* Everything in a document but one handler.
Rest(doc, v) ==
    [groups |-> [e \in Event |-> Left(doc.groups[e], v)], theirs |-> doc.description = "theirs"]

\* A call changes nothing of a settings file but the one handler it is about,
\* in the group it stands in, unless somebody else changed the file between
\* its read and its rename ("unrelated existing JSON keys and hook handlers are
\* preserved", README.md:261; install.go:176-259).
OthersKept ==
    [][\A p \in Caller :
        request'[p] # request[p] /\ file' # file /\ p \notin outdated =>
            Rest(file', request[p].variant) = Rest(file, request[p].variant)]_hookVars

\* Installation is idempotent, and an installed handler stays installed: no
\* event has a handler twice, and both events have what the last call for the
\* handler said, through every other call that read the file after that, however
\* long it waited before its rename.  A call that had read the file before may
\* undo it, and the owner may (README.md:261).
HooksAsReported ==
    file # Malformed =>
        \A v \in Variant, e \in Event :
            LET n == Copies(file.groups[e], v)
            IN  /\ n <= 1
                /\ standing[v] = "install" => n = 1
                /\ standing[v] = "uninstall" => n = 0
=============================================================================
