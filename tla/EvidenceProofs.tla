--------------------------- MODULE EvidenceProofs ---------------------------
(***************************************************************************)
(* From a transcript to a quorum: whose transcript an accepted transcript  *)
(* is, which call its results answer and which skill it teaches, for       *)
(* transcripts of any length (module Transcript); and whose sessions the   *)
(* clusters count, for any number of sessions, topics and daemons (module  *)
(* Learning).  The two have nothing in common but what they are about:     *)
(* TranscriptSpec and Spec are two specifications.                         *)
(***************************************************************************)
EXTENDS Transcript, Learning, FiniteSetTheorems, TLAPS

-----------------------------------------------------------------------------
(* Identity.  The inductive invariant compares what the normalizer remembers *)
(* of the identity records with all that they said.                          *)

Fields(native, seen) == {native, seen} \ {Absent}

Consistent(native, seen) == native = Absent \/ seen = Absent \/ native = seen

\* A transcript not rejected yet has told nothing but what is remembered, and its
\* complete identity stands in one record.
IdentityInv ==
    ~rejected =>
        /\ ids = Fields(identity.session, identity.seenSession)
        /\ cwds = Fields(identity.cwd, identity.seenCwd)
        /\ Consistent(identity.session, identity.seenSession)
        /\ Consistent(identity.cwd, identity.seenCwd)
        /\ source = "codex" => identity.seenSession = Absent /\ identity.seenCwd = Absent
        /\ identity.session # Absent /\ identity.cwd # Absent
               => <<identity.session, identity.cwd>> \in pairs

Identities == [session : Sessions, cwd : Dirs, seenSession : Sessions, seenCwd : Dirs]

TranscriptInv == identity \in Identities /\ IdentityInv

\* observe yields the pair of the record, if it may (normalize.go:293).
LEMMA ObserveFacts ==
    ASSUME NEW id \in Identities, NEW session \in Sessions, NEW cwd \in Dirs,
           NEW next \in Observe(id, session, cwd)
    PROVE  /\ next \in Identities
           /\ session # Absent /\ cwd # Absent
           /\ Agree(id.session, session) /\ Agree(id.cwd, cwd)
           /\ next.session = session /\ next.cwd = cwd
           /\ next.seenSession = id.seenSession /\ next.seenCwd = id.seenCwd
  BY DEF Observe, Identities, Sessions, Dirs, Absent

\* observeClaude does so too, or keeps the pair and notes what the record has.
LEMMA ObserveClaudeFacts ==
    ASSUME NEW id \in Identities, NEW session \in Sessions, NEW cwd \in Dirs,
           NEW next \in ObserveClaude(id, session, cwd)
    PROVE  \/ /\ next \in Observe(id, session, cwd)
              /\ Agree(id.seenSession, session) /\ Agree(id.seenCwd, cwd)
           \/ /\ next \in Identities
              /\ Absent \in {session, cwd}
              /\ next.session = id.session /\ next.cwd = id.cwd
              /\ \/ session = Absent /\ next.seenSession = id.seenSession
                 \/ session # Absent /\ next.seenSession = session
                    /\ Agree(id.session, session) /\ Agree(id.seenSession, session)
              /\ \/ cwd = Absent /\ next.seenCwd = id.seenCwd
                 \/ cwd # Absent /\ next.seenCwd = cwd
                    /\ Agree(id.cwd, cwd) /\ Agree(id.seenCwd, cwd)
  BY DEF ObserveClaude, Identities, Sessions, Dirs, Absent

\* A record that names a session or a directory keeps the invariant or ends the
\* transcript; no other record touches either side of it.
LEMMA StepIdentity == TranscriptInv /\ [TranscriptNext]_transcriptVars => TranscriptInv'
<1> SUFFICES ASSUME TranscriptInv, [TranscriptNext]_transcriptVars
             PROVE  TranscriptInv'
  OBVIOUS
<1> USE DEF TranscriptInv
<1>1. ASSUME Reject PROVE TranscriptInv'
  BY <1>1 DEF Reject, NoIdentity, IdentityInv, Identities, Sessions, Dirs, Absent
<1>2. ASSUME NEW session \in Sessions, NEW cwd \in Dirs, ScanIdentity(session, cwd), ~Reject
      PROVE  TranscriptInv'
  <2>1. ~rejected /\ ~rejected' /\ identity' \in Observed(session, cwd)
    BY <1>2 DEF ScanIdentity, NextRecord
  <2>2. /\ source' = source
        /\ ids' = ids \cup ({session} \ {Absent})
        /\ cwds' = cwds \cup ({cwd} \ {Absent})
        /\ pairs' = IF Absent \in {session, cwd} THEN pairs ELSE pairs \cup {<<session, cwd>>}
    BY <1>2 DEF ScanIdentity
  <2>3. CASE /\ identity' \in Observe(identity, session, cwd)
             /\ \/ source = "codex"
                \/ Agree(identity.seenSession, session) /\ Agree(identity.seenCwd, cwd)
    <3>1. /\ identity' \in Identities
          /\ session # Absent /\ cwd # Absent
          /\ Agree(identity.session, session) /\ Agree(identity.cwd, cwd)
          /\ identity'.session = session /\ identity'.cwd = cwd
          /\ identity'.seenSession = identity.seenSession /\ identity'.seenCwd = identity.seenCwd
      BY <2>3, ObserveFacts
    <3> QED BY <2>1, <2>2, <2>3, <3>1 DEF IdentityInv, Fields, Consistent, Agree
  <2>4. CASE /\ source # "codex"
             /\ identity' \in ObserveClaude(identity, session, cwd)
             /\ identity' \notin Observe(identity, session, cwd)
    <3>1. /\ identity' \in Identities
          /\ Absent \in {session, cwd}
          /\ identity'.session = identity.session /\ identity'.cwd = identity.cwd
          /\ \/ session = Absent /\ identity'.seenSession = identity.seenSession
             \/ session # Absent /\ identity'.seenSession = session
                /\ Agree(identity.session, session) /\ Agree(identity.seenSession, session)
          /\ \/ cwd = Absent /\ identity'.seenCwd = identity.seenCwd
             \/ cwd # Absent /\ identity'.seenCwd = cwd
                /\ Agree(identity.cwd, cwd) /\ Agree(identity.seenCwd, cwd)
      BY <2>4, ObserveClaudeFacts
    <3>2. ids' = Fields(identity'.session, identity'.seenSession)
          /\ Consistent(identity'.session, identity'.seenSession)
      BY <2>1, <2>2, <3>1 DEF IdentityInv, Fields, Consistent, Agree
    <3>3. cwds' = Fields(identity'.cwd, identity'.seenCwd)
          /\ Consistent(identity'.cwd, identity'.seenCwd)
      BY <2>1, <2>2, <3>1 DEF IdentityInv, Fields, Consistent, Agree
    <3> QED BY <2>1, <2>2, <3>1, <2>4, <3>2, <3>3 DEF IdentityInv
  <2>5. identity' \in Observe(identity, session, cwd) => Absent \notin {session, cwd}
    BY ObserveFacts
  <2> QED BY <2>1, <2>3, <2>4, <2>5, ObserveClaudeFacts DEF Observed
<1>3. ASSUME UNCHANGED <<source, rejected, identity, said>>
      PROVE  TranscriptInv'
  BY <1>3 DEF IdentityInv, said
<1> QED
  BY <1>1, <1>2, <1>3
     DEF TranscriptNext, Scan, ChangeInstructions, transcriptVars, ScanOther, TooManyRecords,
         TooManyMessages, ScanMessage, ScanCall, ScanResult, ScanCorrection

\* The invariant holds of every prefix of every transcript.
THEOREM TranscriptInvariant == TranscriptSpec => []TranscriptInv
<1>1. TranscriptInit => TranscriptInv
  BY DEF TranscriptInit, NoIdentity, TranscriptInv, IdentityInv, Identities, Sessions, Dirs, Absent,
         Fields, Consistent
<1> QED BY <1>1, StepIdentity, PTL DEF TranscriptSpec

\* A transcript of any length is taken only on one record that names both its
\* session and its directory, contradicted by none.
THEOREM IdentityNative == TranscriptSpec => []IdentityIsNative
<1>1. TranscriptInv => IdentityIsNative
  BY DEF TranscriptInv, IdentityInv, IdentityIsNative, Accepted, Matches, Event, Fields,
         Consistent, Absent
<1> QED BY <1>1, TranscriptInvariant, PTL

-----------------------------------------------------------------------------
(* Loops.  What a loop over a sequence computes is proved with the least       *)
(* round after which it would be wrong, so it needs a least number first.      *)

\* A set of natural numbers that is not empty has a least element: what every
\* proof about a loop below rests on.
LEMMA LeastNumber ==
    ASSUME NEW T \in SUBSET Nat, T # {}
    PROVE  \E n \in T : \A m \in T : ~(m < n)
<1>1. PICK n \in T : \A m \in T : <<m, n>> \notin OpToRel(<, Nat)
  BY NatLessThanWellFounded, WFMin
<1>2. \A m \in T : m < n => <<m, n>> \in OpToRel(<, Nat)
  BY DEF OpToRel
<1> QED BY <1>1, <1>2

\* A bounded set of natural numbers that is not empty has a greatest element.
LEMMA GreatestNumber ==
    ASSUME NEW n \in Nat, NEW T \in SUBSET (0..n), T # {}
    PROVE  \E i \in T : \A j \in T : j <= i
<1> DEFINE U == {k \in Nat : \E i \in T : k = n - i}
<1>1. U \in SUBSET Nat
  OBVIOUS
<1>2. U # {}
  <2>1. PICK i \in T : TRUE
    OBVIOUS
  <2>2. i \in Int /\ n - i \in Nat
    BY <2>1
  <2>3. n - i \in U
    BY <2>2
  <2> QED BY <2>3
<1>3. PICK k \in U : \A m \in U : ~(m < k)
  BY <1>1, <1>2, LeastNumber
<1>4. PICK i \in T : k = n - i
  BY <1>3
<1>5. ASSUME NEW j \in T PROVE j <= i
  <2>1. i \in 0..n /\ j \in 0..n /\ n - j \in Nat
    OBVIOUS
  <2>2. n - j \in U
    BY <2>1
  <2>3. ~(n - j < n - i)
    BY <1>3, <1>4, <2>2
  <2> QED BY <2>1, <2>3
<1> QED BY <1>5

\* The course of a loop over 1..n that starts with a and does F in each round.
Course(f, n, a, F) ==
    /\ f[0] = a
    /\ \A i \in 1..n : f[i] = F[<<f[i - 1], i>>]

\* Every loop has a course.
LEMMA LoopRuns ==
    ASSUME NEW A, NEW a \in A, NEW N \in Nat, NEW F \in [A \X (1..N) -> A]
    PROVE  \E f \in [0..N -> A] : Course(f, N, a, F)
<1> DEFINE Missing == {k \in 0..N : \A f \in [0..k -> A] : ~Course(f, k, a, F)}
<1>1. ASSUME NEW k \in 0..N, k \in Missing, \A m \in Missing : ~(m < k)
      PROVE  FALSE
  <2>1. CASE k = 0
    <3> DEFINE g == [n \in 0..0 |-> a]
    <3>1. g \in [0..0 -> A] /\ g[0] = a
      OBVIOUS
    <3>2. Course(g, 0, a, F)
      BY <3>1 DEF Course
    <3> QED BY <1>1, <2>1, <3>1, <3>2
  <2>2. CASE k # 0
    <3>1. k - 1 \in 0..N /\ k \in 1..N /\ k - 1 < k
      BY <1>1, <2>2
    <3>2. k - 1 \notin Missing
      BY <1>1, <3>1
    <3>3. PICK f \in [0..(k - 1) -> A] : Course(f, k - 1, a, F)
      BY <3>1, <3>2
    <3> DEFINE b == F[<<f[k - 1], k>>]
               g == [n \in 0..k |-> IF n = k THEN b ELSE f[n]]
    <3>4. b \in A
      BY <3>1, <3>3
    <3> HIDE DEF b
    <3>5. \A n \in 0..k : n # k => n \in 0..(k - 1)
      BY <3>1
    <3>6. g \in [0..k -> A]
      BY <3>3, <3>4, <3>5
    <3>7. g[k] = b /\ \A n \in 0..(k - 1) : g[n] = f[n]
      BY <3>1
    <3> HIDE DEF g
    <3>8. g[0] = a
      BY <3>1, <3>3, <3>7 DEF Course
    <3>9. ASSUME NEW i \in 1..k PROVE g[i] = F[<<g[i - 1], i>>]
      <4>1. i - 1 \in 0..(k - 1)
        BY <3>1
      <4>2. CASE i = k
        BY <3>7, <4>1, <4>2 DEF b
      <4>3. CASE i # k
        <5>1. i \in 1..(k - 1) /\ i \in 0..(k - 1)
          BY <3>1, <4>3
        <5> QED BY <3>3, <3>7, <4>1, <5>1 DEF Course
      <4> QED BY <4>2, <4>3
    <3>10. Course(g, k, a, F)
      BY <3>8, <3>9 DEF Course
    <3> QED BY <1>1, <3>6, <3>10
  <2> QED BY <2>1, <2>2
<1>2. Missing \in SUBSET Nat /\ Missing \subseteq 0..N
  OBVIOUS
<1> HIDE DEF Missing
<1>3. Missing = {}
  BY <1>1, <1>2, LeastNumber
<1> QED BY <1>3 DEF Missing

-----------------------------------------------------------------------------
(* compact *)

Texts == {Validation, Opaque, Correction, Output, Nothing} \cup {Read(p) : p \in Place}

\* What a parser makes of a record.
Message ==
    {m \in [role : {"tool", "user"}, id : CallId \cup {NoId}, tool : {Tool, ""},
            result : BOOLEAN, failed : BOOLEAN, text : Texts] :
        m.role = "user" => ~m.result /\ m.id = NoId}

\* compact keeps some of the messages.
LEMMA KeepMessage ==
    ASSUME NEW kept \in Seq(Message), NEW m \in Message
    PROVE  Keep(kept, m) \in Seq(Message)
<1>1. Append(kept, m) \in Seq(Message)
  OBVIOUS
<1>2. Keep(kept, m) = kept \/ Keep(kept, m) = Append(kept, m)
  BY Zenon DEF Keep
<1> QED BY <1>1, <1>2

\* compact is a loop over the messages: it has a course, ending in its result.
LEMMA CompactRuns ==
    ASSUME NEW ms \in Seq(Message)
    PROVE  \E f \in [0..Len(ms) -> Seq(Message)] :
               /\ f[0] = <<>>
               /\ \A n \in 1..Len(ms) : f[n] = Keep(f[n - 1], ms[n])
               /\ Compact(ms) = f[Len(ms)]
<1> DEFINE N == Len(ms)
           F == [p \in Seq(Message) \X (1..N) |-> Keep(p[1], ms[p[2]])]
           Solves(f) == f = [n \in 0..N |-> IF n = 0 THEN <<>> ELSE Keep(f[n - 1], ms[n])]
           g == CHOOSE f : Solves(f)
<1>1. N \in Nat /\ <<>> \in Seq(Message)
  OBVIOUS
<1>2. F \in [Seq(Message) \X (1..N) -> Seq(Message)]
  <2> SUFFICES ASSUME NEW p \in Seq(Message) \X (1..N)
               PROVE  Keep(p[1], ms[p[2]]) \in Seq(Message)
    OBVIOUS
  <2>1. p[1] \in Seq(Message) /\ p[2] \in 1..N
    OBVIOUS
  <2>2. ms[p[2]] \in Message
    BY <2>1
  <2> QED BY <2>1, <2>2, KeepMessage
<1>3. PICK f \in [0..N -> Seq(Message)] : Course(f, N, <<>>, F)
  <2> HIDE DEF F, N
  <2> QED BY <1>1, <1>2, LoopRuns
<1>4. f[0] = <<>> /\ \A n \in 1..N : f[n] = Keep(f[n - 1], ms[n])
  <2> SUFFICES ASSUME NEW n \in 1..N PROVE f[n] = Keep(f[n - 1], ms[n])
    BY <1>3 DEF Course
  <2>1. f[n - 1] \in Seq(Message)
    BY <1>3
  <2>2. F[<<f[n - 1], n>>] = Keep(f[n - 1], ms[n])
    BY <2>1
  <2> QED BY <1>3, <2>2 DEF Course
<1>5. Solves(f)
  <2>1. f \in [0..N -> Seq(Message)]
    BY <1>3
  <2>2. ASSUME NEW n \in 0..N PROVE f[n] = IF n = 0 THEN <<>> ELSE Keep(f[n - 1], ms[n])
    <3>1. n = 0 \/ n \in 1..N
      BY <1>1
    <3> HIDE DEF N, F
    <3> QED BY <1>4, <3>1
  <2> HIDE DEF N, F
  <2> QED BY <2>1, <2>2
<1>6. Solves(g)
  <2> HIDE DEF Solves
  <2> QED BY <1>5
<1>7. Compact(ms) = g[N]
  BY DEF Compact
<1> HIDE DEF g
<1>8. g[0] = <<>> /\ \A n \in 1..N : g[n] = Keep(g[n - 1], ms[n])
  BY <1>1, <1>6
<1>9. \A n \in 0..N : g[n] = f[n]
  <2> DEFINE Differ == {n \in 0..N : g[n] # f[n]}
  <2>1. ASSUME NEW n \in Differ, \A m \in Differ : ~(m < n) PROVE FALSE
    <3>1. n # 0
      BY <1>4, <1>8
    <3>2. n \in 1..N /\ n - 1 \in 0..N /\ n - 1 < n
      BY <1>1, <3>1
    <3>3. g[n - 1] = f[n - 1]
      BY <2>1, <3>2
    <3> QED BY <1>4, <1>8, <3>2, <3>3
  <2>2. Differ \in SUBSET Nat
    BY <1>1
  <2> HIDE DEF Differ
  <2>3. Differ = {}
    BY <2>1, <2>2, LeastNumber
  <2> QED BY <2>3 DEF Differ
<1>10. Compact(ms) = f[N]
  <2>1. N \in 0..N
    BY <1>1
  <2> HIDE DEF N
  <2> QED BY <1>7, <1>9, <2>1
<1> HIDE DEF F
<1> QED BY <1>3, <1>4, <1>10

\* compact of no messages keeps none, and of one more decides about that one.
LEMMA CompactAppend ==
    ASSUME NEW ms \in Seq(Message), NEW m \in Message
    PROVE  /\ Compact(ms) \in Seq(Message)
           /\ Compact(Append(ms, m)) = Keep(Compact(ms), m)
<1> DEFINE N == Len(ms)
           more == Append(ms, m)
<1>1. /\ N \in Nat /\ more \in Seq(Message) /\ Len(more) = N + 1
      /\ more[N + 1] = m /\ \A n \in 1..N : more[n] = ms[n]
  OBVIOUS
<1> HIDE DEF more
<1>2. PICK f \in [0..N -> Seq(Message)] :
             /\ f[0] = <<>>
             /\ \A n \in 1..N : f[n] = Keep(f[n - 1], ms[n])
             /\ Compact(ms) = f[N]
  BY CompactRuns
<1>3. PICK g \in [0..(N + 1) -> Seq(Message)] :
             /\ g[0] = <<>>
             /\ \A n \in 1..(N + 1) : g[n] = Keep(g[n - 1], more[n])
             /\ Compact(more) = g[N + 1]
  BY <1>1, CompactRuns
<1>4. \A n \in 0..N : g[n] = f[n]
  <2> DEFINE Differ == {n \in 0..N : g[n] # f[n]}
  <2>1. ASSUME NEW n \in Differ, \A k \in Differ : ~(k < n) PROVE FALSE
    <3>1. n # 0
      BY <1>2, <1>3
    <3>2. n \in 1..N /\ n - 1 \in 0..N /\ n - 1 < n /\ n \in 1..(N + 1)
      BY <1>1, <3>1
    <3>3. g[n - 1] = f[n - 1]
      BY <2>1, <3>2
    <3> QED BY <1>1, <1>2, <1>3, <3>2, <3>3
  <2>2. Differ \in SUBSET Nat
    BY <1>1
  <2> HIDE DEF Differ
  <2>3. Differ = {}
    BY <2>1, <2>2, LeastNumber
  <2> QED BY <2>3 DEF Differ
<1>5. N + 1 \in 1..(N + 1) /\ (N + 1) - 1 = N /\ N \in 0..N
  BY <1>1
<1>6. Compact(more) = Keep(g[N], m)
  BY <1>1, <1>3, <1>5
<1> QED BY <1>2, <1>4, <1>5, <1>6 DEF more

-----------------------------------------------------------------------------
(* Which call a result answers. *)

\* After n messages the call at j is the last thing said under its key.
OpenAt(ms, n, k, j) ==
    /\ j \in 1..n
    /\ IsCall(ms[j]) /\ Key(ms[j]) = k
    /\ \A i \in (j + 1)..n : ms[i].role = "tool" => Key(ms[i]) # k

\* o is that call, 0 if there is none.
Opens(ms, n, k, o) ==
    \/ OpenAt(ms, n, k, o)
    \/ o = 0 /\ \A j \in 1..n : ~OpenAt(ms, n, k, j)

\* o is the call that the message at i answers, 0 if it answers none.
Answers(ms, i, o) ==
    IF IsResult(ms[i]) THEN Opens(ms, i - 1, Key(ms[i]), o) ELSE o = 0

Progress == [open : [Keys -> Nat], call : Seq(Nat)]

\* What correlateToolCalls knows after n messages.
Correlated(ms, n, acc) ==
    /\ \A k \in Keys : Opens(ms, n, k, acc.open[k])
    /\ Len(acc.call) = n
    /\ \A i \in 1..n : Answers(ms, i, acc.call[i])

\* The key of a message of a tool is one of the two maps.
LEMMA KeyInKeys ==
    ASSUME NEW m \in Message
    PROVE  Key(m) \in Keys
<1>1. m.id \in CallId \cup {NoId} /\ m.tool \in {Tool, ""}
  BY DEF Message
<1> QED BY <1>1 DEF Key, Keys

\* A round of the loop yields progress.
LEMMA CorrelateType ==
    ASSUME NEW acc \in Progress, NEW i \in Nat, NEW m \in Message
    PROVE  /\ Correlate(acc, i, m) \in Progress
           /\ Correlate(acc, i, m).call = Append(acc.call,
                  IF IsResult(m) THEN acc.open[Key(m)] ELSE 0)
           /\ Correlate(acc, i, m).open =
                  IF IsCall(m) THEN [acc.open EXCEPT ![Key(m)] = i]
                  ELSE IF IsResult(m) THEN [acc.open EXCEPT ![Key(m)] = 0]
                  ELSE acc.open
<1>1. Key(m) \in Keys
  BY KeyInKeys
<1>2. acc.open \in [Keys -> Nat] /\ acc.call \in Seq(Nat)
  BY DEF Progress
<1>3. acc.open[Key(m)] \in Nat
  BY <1>1, <1>2
<1>4. ASSUME NEW c \in Nat
      PROVE  /\ Note(acc, c) \in Progress
             /\ Note(acc, c).open = acc.open
             /\ Note(acc, c).call = Append(acc.call, c)
  <2>1. Append(acc.call, c) \in Seq(Nat)
    BY <1>2
  <2> QED BY <1>2, <2>1 DEF Note, Progress
<1>5. ASSUME NEW c \in Nat, NEW o \in Nat
      PROVE  LET noted == [Note(acc, c) EXCEPT !.open[Key(m)] = o]
             IN  /\ noted \in Progress
                 /\ noted.open = [acc.open EXCEPT ![Key(m)] = o]
                 /\ noted.call = Append(acc.call, c)
  BY <1>1, <1>2, <1>4 DEF Progress
<1>6. ~(IsCall(m) /\ IsResult(m))
  BY DEF IsCall, IsResult
<1>7. CASE IsCall(m)
  BY <1>5, <1>6, <1>7 DEF Correlate, Ask
<1>8. CASE IsResult(m)
  BY <1>3, <1>5, <1>6, <1>8 DEF Correlate, Answer
<1>9. CASE ~IsCall(m) /\ ~IsResult(m)
  BY <1>4, <1>9 DEF Correlate
<1> QED BY <1>7, <1>8, <1>9

\* A round keeps the map of open calls and the answers right.
LEMMA CorrelateStep ==
    ASSUME NEW ms \in Seq(Message), NEW n \in Nat, n + 1 \in 1..Len(ms),
           NEW acc \in Progress, Correlated(ms, n, acc)
    PROVE  Correlated(ms, n + 1, Correlate(acc, n + 1, ms[n + 1]))
<1> DEFINE m == ms[n + 1]
           next == Correlate(acc, n + 1, m)
<1>1. m \in Message /\ Key(m) \in Keys
  BY KeyInKeys
<1>2. acc.open \in [Keys -> Nat] /\ acc.call \in Seq(Nat) /\ Len(acc.call) = n
  BY DEF Progress, Correlated
<1>3. /\ next.call = Append(acc.call, IF IsResult(m) THEN acc.open[Key(m)] ELSE 0)
      /\ next.open = IF IsCall(m) THEN [acc.open EXCEPT ![Key(m)] = n + 1]
                     ELSE IF IsResult(m) THEN [acc.open EXCEPT ![Key(m)] = 0]
                     ELSE acc.open
  <2>1. n + 1 \in Nat
    OBVIOUS
  <2> HIDE DEF m
  <2> QED BY <1>1, <2>1, CorrelateType
<1> HIDE DEF next
<1>4. ASSUME NEW k \in Keys PROVE Opens(ms, n + 1, k, next.open[k])
  <2>1. Opens(ms, n, k, acc.open[k])
    BY DEF Correlated
  <2>2. CASE IsCall(m) /\ k = Key(m)
    <3>1. next.open[k] = n + 1
      BY <1>1, <1>2, <1>3, <2>2
    <3>2. OpenAt(ms, n + 1, k, n + 1)
      BY <2>2 DEF OpenAt
    <3> QED BY <3>1, <3>2 DEF Opens
  <2>3. CASE IsResult(m) /\ k = Key(m)
    <3>1. next.open[k] = 0
      BY <1>1, <1>2, <1>3, <2>3 DEF IsCall, IsResult
    <3>2. \A j \in 1..(n + 1) : ~OpenAt(ms, n + 1, k, j)
      <4> SUFFICES ASSUME NEW j \in 1..(n + 1), OpenAt(ms, n + 1, k, j) PROVE FALSE
        OBVIOUS
      <4>1. j # n + 1
        BY <2>3 DEF OpenAt, IsCall, IsResult
      <4>2. n + 1 \in (j + 1)..(n + 1)
        BY <4>1
      <4> QED BY <2>3, <4>2 DEF OpenAt, IsResult
    <3> QED BY <3>1, <3>2 DEF Opens
  <2>4. CASE m.role = "tool" => k # Key(m)
    <3>1. next.open[k] = acc.open[k]
      BY <1>1, <1>2, <1>3, <2>4 DEF IsCall, IsResult
    <3>2. ASSUME NEW j \in Nat PROVE OpenAt(ms, n + 1, k, j) <=> OpenAt(ms, n, k, j)
      <4>1. ASSUME OpenAt(ms, n + 1, k, j) PROVE OpenAt(ms, n, k, j)
        <5>1. j # n + 1
          BY <2>4, <4>1 DEF OpenAt, IsCall
        <5> QED BY <4>1, <5>1 DEF OpenAt
      <4>2. ASSUME OpenAt(ms, n, k, j) PROVE OpenAt(ms, n + 1, k, j)
        <5>1. \A i \in (j + 1)..(n + 1) : i \in (j + 1)..n \/ i = n + 1
          BY <4>2 DEF OpenAt
        <5> QED BY <2>4, <4>2, <5>1 DEF OpenAt
      <4> QED BY <4>1, <4>2
    <3>3. acc.open[k] \in Nat
      BY <1>2
    <3>4. \A j \in 1..(n + 1) : OpenAt(ms, n, k, j) => j \in 1..n
      BY DEF OpenAt
    <3> QED BY <2>1, <3>1, <3>2, <3>3, <3>4 DEF Opens
  <2>5. m.role = "tool" => IsCall(m) \/ IsResult(m)
    BY DEF IsCall, IsResult
  <2> QED BY <2>2, <2>3, <2>4, <2>5
<1>5. Len(next.call) = n + 1
  BY <1>1, <1>2, <1>3
<1>6. ASSUME NEW i \in 1..(n + 1) PROVE Answers(ms, i, next.call[i])
  <2> DEFINE c == IF IsResult(m) THEN acc.open[Key(m)] ELSE 0
  <2>1. c \in Nat
    BY <1>1, <1>2
  <2>2. CASE i = n + 1
    <3>1. next.call[i] = c
      BY <1>2, <1>3, <2>1, <2>2
    <3> QED BY <1>1, <2>2, <3>1 DEF Answers, Correlated
  <2>3. CASE i # n + 1
    <3>1. i \in 1..n
      BY <2>3
    <3> HIDE DEF c
    <3>2. next.call[i] = acc.call[i]
      BY <1>2, <1>3, <2>1, <3>1 DEF c
    <3> QED BY <3>1, <3>2 DEF Correlated
  <2> QED BY <2>2, <2>3
<1> QED BY <1>4, <1>5, <1>6 DEF Correlated, next

\* Every message is told which call it answers: the last thing said under its
\* key before it, if that is a call.
LEMMA CallOfAnswers ==
    ASSUME NEW ms \in Seq(Message)
    PROVE  /\ CallOf(ms) \in Seq(Nat) /\ Len(CallOf(ms)) = Len(ms)
           /\ \A i \in 1..Len(ms) : Answers(ms, i, CallOf(ms)[i])
<1> DEFINE N == Len(ms)
           F == [p \in Progress \X (1..N) |-> Correlate(p[1], p[2], ms[p[2]])]
           Solves(f) == f = [n \in 0..N |->
               IF n = 0 THEN NothingOpen ELSE Correlate(f[n - 1], n, ms[n])]
           g == CHOOSE f : Solves(f)
<1>1. N \in Nat
  OBVIOUS
<1>2. /\ NothingOpen \in Progress
      /\ NothingOpen.open = [k \in Keys |-> 0] /\ NothingOpen.call = <<>>
  <2>1. <<>> \in Seq(Nat)
    OBVIOUS
  <2> QED BY <2>1 DEF NothingOpen, Progress
<1>3. F \in [Progress \X (1..N) -> Progress]
  <2> SUFFICES ASSUME NEW p \in Progress \X (1..N)
               PROVE  Correlate(p[1], p[2], ms[p[2]]) \in Progress
    OBVIOUS
  <2>1. p[1] \in Progress /\ p[2] \in 1..N /\ p[2] \in Nat
    OBVIOUS
  <2>2. ms[p[2]] \in Message
    BY <2>1
  <2> QED BY <2>1, <2>2, CorrelateType
<1>4. PICK f \in [0..N -> Progress] : Course(f, N, NothingOpen, F)
  <2> HIDE DEF F, N
  <2> QED BY <1>1, <1>2, <1>3, LoopRuns
<1>5. ASSUME NEW n \in 1..N PROVE f[n] = Correlate(f[n - 1], n, ms[n])
  <2>1. f[n - 1] \in Progress
    BY <1>4
  <2>2. F[<<f[n - 1], n>>] = Correlate(f[n - 1], n, ms[n])
    BY <2>1
  <2> QED BY <1>4, <2>2 DEF Course
<1>6. Solves(f)
  <2>1. \A n \in 0..N : f[n] = IF n = 0 THEN NothingOpen ELSE Correlate(f[n - 1], n, ms[n])
    BY <1>1, <1>4, <1>5 DEF Course
  <2> QED BY <1>4, <2>1
<1>7. Solves(g)
  <2> HIDE DEF Solves
  <2> QED BY <1>6
<1>8. CallOf(ms) = g[N].call
  BY DEF CallOf
<1> HIDE DEF g
<1>9. g[0] = NothingOpen /\ \A n \in 1..N : g[n] = Correlate(g[n - 1], n, ms[n])
  BY <1>1, <1>7
<1>10. \A n \in 0..N : g[n] \in Progress /\ Correlated(ms, n, g[n])
  <2> DEFINE Wrong == {n \in 0..N : ~(g[n] \in Progress /\ Correlated(ms, n, g[n]))}
  <2>1. Correlated(ms, 0, NothingOpen)
    BY <1>2 DEF Correlated, Opens
  <2>2. ASSUME NEW n \in Wrong, \A k \in Wrong : ~(k < n) PROVE FALSE
    <3>1. n # 0
      BY <1>2, <1>9, <2>1
    <3>2. n \in 1..N /\ n - 1 \in 0..N /\ n - 1 < n /\ n \in Nat
      BY <1>1, <3>1
    <3>3. g[n - 1] \in Progress /\ Correlated(ms, n - 1, g[n - 1])
      BY <2>2, <3>2
    <3>4. ms[n] \in Message
      BY <3>2
    <3>5. g[n] \in Progress
      BY <1>9, <3>2, <3>3, <3>4, CorrelateType
    <3>6. n - 1 \in Nat /\ (n - 1) + 1 = n
      BY <3>2
    <3>7. Correlated(ms, (n - 1) + 1, Correlate(g[n - 1], (n - 1) + 1, ms[(n - 1) + 1]))
      BY <3>2, <3>3, <3>6, CorrelateStep
    <3> QED BY <1>9, <2>2, <3>2, <3>5, <3>6, <3>7
  <2>3. Wrong \in SUBSET Nat
    BY <1>1
  <2> HIDE DEF Wrong
  <2>4. Wrong = {}
    BY <2>2, <2>3, LeastNumber
  <2> QED BY <2>4 DEF Wrong
<1>11. N \in 0..N
  BY <1>1
<1> QED BY <1>8, <1>10, <1>11 DEF Progress, Correlated

\* A key has one call that is open.
LEMMA OpensUnique ==
    ASSUME NEW ms, NEW n \in Nat, NEW k, NEW o, NEW p, Opens(ms, n, k, o), Opens(ms, n, k, p)
    PROVE  o = p
<1>1. ASSUME OpenAt(ms, n, k, o), OpenAt(ms, n, k, p), o < p PROVE FALSE
  <2>1. p \in (o + 1)..n
    BY <1>1 DEF OpenAt
  <2> QED BY <1>1, <2>1 DEF OpenAt, IsCall
<1>2. ASSUME OpenAt(ms, n, k, o), OpenAt(ms, n, k, p), p < o PROVE FALSE
  <2>1. o \in (p + 1)..n
    BY <1>2 DEF OpenAt
  <2> QED BY <1>2, <2>1 DEF OpenAt, IsCall
<1>3. OpenAt(ms, n, k, o) => o \in 1..n
  BY DEF OpenAt
<1>4. OpenAt(ms, n, k, p) => p \in 1..n
  BY DEF OpenAt
<1> QED BY <1>1, <1>2, <1>3, <1>4 DEF Opens

\* What comes later changes nothing of which call a message answers.
LEMMA CallOfPrefix ==
    ASSUME NEW ms \in Seq(Message), NEW m \in Message, NEW i \in 1..Len(ms)
    PROVE  CallOf(Append(ms, m))[i] = CallOf(ms)[i]
<1> DEFINE more == Append(ms, m)
<1>1. /\ more \in Seq(Message) /\ Len(more) = Len(ms) + 1 /\ Len(ms) \in Nat
      /\ \A j \in 1..Len(ms) : more[j] = ms[j]
  OBVIOUS
<1> HIDE DEF more
<1>2. Answers(ms, i, CallOf(ms)[i])
  BY CallOfAnswers
<1>3. i \in 1..Len(more)
  BY <1>1
<1>4. Answers(more, i, CallOf(more)[i])
  BY <1>1, <1>3, CallOfAnswers
<1>5. ASSUME NEW k, NEW o, Opens(more, i - 1, k, o) PROVE Opens(ms, i - 1, k, o)
  <2>1. \A j \in 1..(i - 1) : more[j] = ms[j]
    BY <1>1
  <2>2. \A j : OpenAt(more, i - 1, k, j) <=> OpenAt(ms, i - 1, k, j)
    BY <2>1 DEF OpenAt
  <2> QED BY <1>5, <2>2 DEF Opens
<1>6. more[i] = ms[i] /\ i - 1 \in Nat
  BY <1>1
<1> QED BY <1>2, <1>4, <1>5, <1>6, OpensUnique DEF Answers, more

\* The message at i is the result of a call that came before it.
KnownResult(ms, i) ==
    /\ ms[i].result /\ ms[i].id # NoId
    /\ \E j \in 1..(i - 1) : ms[j].id = ms[i].id /\ ~ms[j].result

AnsweredTwice(ms) ==
    \E i, j \in DOMAIN ms : i # j /\ IsResult(ms[i]) /\ IsResult(ms[j])
                               /\ ms[i].id = ms[j].id /\ ms[i].id # NoId

\* When no call is answered twice, a result that follows a call of its id answers
\* a call, and only such a one does.
LEMMA AnsweredIsKnown ==
    ASSUME NEW ms \in Seq(Message), ~AnsweredTwice(ms), NEW i \in 1..Len(ms)
    PROVE  (CallOf(ms)[i] # 0 /\ ms[i].id # NoId) <=> KnownResult(ms, i)
<1> DEFINE o == CallOf(ms)[i]
<1>0. /\ ms[i] \in Message /\ i \in Nat /\ Len(ms) \in Nat /\ i - 1 \in Nat
      /\ \A j \in 1..(i - 1) : j \in 1..Len(ms) /\ ms[j] \in Message
  OBVIOUS
<1>1. Answers(ms, i, o)
  BY CallOfAnswers
<1> HIDE DEF o
<1>2. \A m \in Message : /\ m.result => IsResult(m)
                         /\ ~m.result /\ m.id # NoId => IsCall(m)
                         /\ m.id # NoId => m.role = "tool"
                         /\ IsCall(m) => ~m.result
                         /\ IsResult(m) => m.result
  BY DEF Message, IsResult, IsCall
<1>3. ASSUME o # 0, ms[i].id # NoId PROVE KnownResult(ms, i)
  <2>1. IsResult(ms[i]) /\ OpenAt(ms, i - 1, Key(ms[i]), o)
    BY <1>1, <1>3 DEF Answers, Opens
  <2>2. o \in 1..(i - 1) /\ IsCall(ms[o]) /\ Key(ms[o]) = Key(ms[i])
    BY <2>1 DEF OpenAt
  <2>3. ms[o].id = ms[i].id
    BY <1>3, <2>2 DEF Key
  <2> QED BY <1>0, <1>2, <1>3, <2>1, <2>2, <2>3 DEF KnownResult
<1>4. ASSUME KnownResult(ms, i) PROVE o # 0
  <2> DEFINE Same == {j \in 1..(i - 1) : ms[j].id = ms[i].id}
  <2>1. Same \in SUBSET (0..Len(ms)) /\ Same # {}
    BY <1>0, <1>4 DEF KnownResult
  <2>2. PICK last \in Same : \A j \in Same : j <= last
    <3> HIDE DEF Same
    <3> QED BY <1>0, <2>1, GreatestNumber
  <2>3. last \in 1..(i - 1) /\ last \in 1..Len(ms) /\ ms[last] \in Message
        /\ ms[last].id = ms[i].id /\ ms[i].id # NoId /\ IsResult(ms[i])
    BY <1>0, <1>2, <1>4 DEF KnownResult
  <2>4. ~ms[last].result
    BY <1>0, <1>2, <2>3 DEF AnsweredTwice
  <2>5. IsCall(ms[last]) /\ Key(ms[last]) = Key(ms[i])
    BY <1>2, <2>3, <2>4 DEF Key
  <2>6. ASSUME NEW j \in (last + 1)..(i - 1), Key(ms[j]) = Key(ms[i]) PROVE FALSE
    <3>1. j \in 1..(i - 1) /\ j > last
      BY <2>3
    <3>2. ms[j].id = ms[i].id
      BY <2>3, <2>6 DEF Key
    <3>3. j <= last
      BY <2>2, <3>1, <3>2
    <3> QED BY <2>3, <3>1, <3>3
  <2>7. OpenAt(ms, i - 1, Key(ms[i]), last)
    BY <2>3, <2>5, <2>6 DEF OpenAt
  <2>8. ~(\A j \in 1..(i - 1) : ~OpenAt(ms, i - 1, Key(ms[i]), j))
    BY <2>3, <2>7
  <2>9. OpenAt(ms, i - 1, Key(ms[i]), o)
    BY <1>1, <2>3, <2>8 DEF Answers, Opens
  <2> QED BY <1>0, <2>9 DEF OpenAt
<1> QED BY <1>3, <1>4 DEF o, KnownResult

\* A result answers the last thing said under its key, if that is a call.
LEMMA AnswersLast ==
    ASSUME NEW ms \in Seq(Message), NEW i \in 1..Len(ms)
    PROVE  LET Earlier == {j \in 1..(i - 1) : ms[j].role = "tool" /\ Key(ms[j]) = Key(ms[i])}
               last == {j \in Earlier : \A k \in Earlier : k <= j}
           IN  {CallOf(ms)[i]} \ {0} =
                   IF IsResult(ms[i]) THEN {j \in last : IsCall(ms[j])} ELSE {}
<1> DEFINE Earlier == {j \in 1..(i - 1) : ms[j].role = "tool" /\ Key(ms[j]) = Key(ms[i])}
           last == {j \in Earlier : \A k \in Earlier : k <= j}
           o == CallOf(ms)[i]
<1>1. Answers(ms, i, o) /\ i \in Nat
  BY CallOfAnswers
<1> HIDE DEF o
<1>2. ASSUME NEW j PROVE OpenAt(ms, i - 1, Key(ms[i]), j) <=> j \in last /\ IsCall(ms[j])
  <2>1. ASSUME OpenAt(ms, i - 1, Key(ms[i]), j) PROVE j \in last /\ IsCall(ms[j])
    <3>1. j \in Earlier /\ IsCall(ms[j])
      BY <2>1 DEF OpenAt, IsCall
    <3>2. ASSUME NEW k \in Earlier PROVE k <= j
      <4>1. k \in (j + 1)..(i - 1) => FALSE
        BY <2>1 DEF OpenAt
      <4> QED BY <1>1, <3>1, <4>1
    <3> QED BY <3>1, <3>2
  <2>2. ASSUME j \in last, IsCall(ms[j]) PROVE OpenAt(ms, i - 1, Key(ms[i]), j)
    <3>1. ASSUME NEW k \in (j + 1)..(i - 1), ms[k].role = "tool", Key(ms[k]) = Key(ms[i])
          PROVE  FALSE
      <4>1. k \in Earlier /\ j \in 1..(i - 1)
        BY <1>1, <2>2, <3>1
      <4>2. k <= j
        BY <2>2, <4>1
      <4> QED BY <1>1, <4>1, <4>2
    <3> QED BY <2>2, <3>1 DEF OpenAt
  <2> QED BY <2>1, <2>2
<1>3. 0 \notin last
  BY <1>1
<1> HIDE DEF last
<1>4. CASE IsResult(ms[i])
  <2>1. CASE OpenAt(ms, i - 1, Key(ms[i]), o)
    <3>1. \A j : OpenAt(ms, i - 1, Key(ms[i]), j) => j = o
      BY <1>1, <2>1, OpensUnique DEF Opens
    <3> QED BY <1>2, <1>3, <1>4, <2>1, <3>1 DEF last, o
  <2>2. CASE o = 0 /\ \A j \in 1..(i - 1) : ~OpenAt(ms, i - 1, Key(ms[i]), j)
    <3>1. \A j : ~OpenAt(ms, i - 1, Key(ms[i]), j)
      BY <2>2 DEF OpenAt
    <3> QED BY <1>2, <1>4, <2>2, <3>1 DEF last, o
  <2> QED BY <1>1, <1>4, <2>1, <2>2 DEF Answers, Opens
<1>5. CASE ~IsResult(ms[i])
  BY <1>1, <1>5 DEF Answers, o
<1> QED BY <1>4, <1>5 DEF last

\* The outcome of a session is that of the last call that was answered.
LEMMA OutcomeOfAnswered ==
    ASSUME NEW ms \in Seq(Message), ~AnsweredTwice(ms)
    PROVE  LET Answered == {i \in DOMAIN ms : CallOf(ms)[i] # 0 /\ ms[i].id # NoId}
               last == {i \in Answered : \A j \in Answered : j <= i}
           IN  Outcome(ms) =
                 IF Answered = {} THEN "unknown"
                 ELSE IF \E i \in last : ms[i].failed THEN "failed" ELSE "succeeded"
<1> DEFINE Answered == {i \in DOMAIN ms : CallOf(ms)[i] # 0 /\ ms[i].id # NoId}
           last == {i \in Answered : \A j \in Answered : j <= i}
           Known == {i \in DOMAIN ms : KnownResult(ms, i)}
           lastKnown == {i \in DOMAIN ms :
               KnownResult(ms, i) /\ \A j \in DOMAIN ms : KnownResult(ms, j) => j <= i}
<1>1. DOMAIN ms = 1..Len(ms) /\ Len(ms) \in Nat
  OBVIOUS
<1>2. Answered = Known
  BY <1>1, AnsweredIsKnown
<1>3. lastKnown = {i \in Known : \A j \in Known : j <= i}
  OBVIOUS
<1>4. lastKnown = last
  BY <1>2, <1>3
<1>5. Answered # {} => last # {}
  <2>1. Answered \in SUBSET (0..Len(ms))
    BY <1>1
  <2> HIDE DEF Answered
  <2> QED BY <1>1, <2>1, GreatestNumber
<1>6. Answered = {} => last = {}
  OBVIOUS
<1>7. Outcome(ms) = IF lastKnown = {} THEN "unknown"
                    ELSE IF \E i \in lastKnown : ms[i].failed THEN "failed" ELSE "succeeded"
  BY DEF Outcome, KnownResult
<1> HIDE DEF last, Answered, lastKnown
<1> QED BY <1>4, <1>5, <1>6, <1>7 DEF last, Answered

\* compact yields messages.
LEMMA CompactType ==
    ASSUME NEW ms \in Seq(Message)
    PROVE  Compact(ms) \in Seq(Message)
<1>1. Len(ms) \in 0..Len(ms)
  OBVIOUS
<1> QED BY <1>1, CompactRuns

-----------------------------------------------------------------------------
(* The skill of a session. *)

Matching(ms, held) == UNION {Shows(ms, CallOf(ms), held, i) : i \in DOMAIN ms}

\* A message more takes no skill from those that were shown.
LEMMA MatchingGrows ==
    ASSUME NEW ms \in Seq(Message), NEW m \in Message, NEW held
    PROVE  Matching(ms, held) \subseteq Matching(Append(ms, m), held)
<1> SUFFICES ASSUME NEW i \in DOMAIN ms, NEW s \in Shows(ms, CallOf(ms), held, i)
             PROVE  \E j \in DOMAIN Append(ms, m) :
                        s \in Shows(Append(ms, m), CallOf(Append(ms, m)), held, j)
  BY DEF Matching
<1> DEFINE more == Append(ms, m)
           call == CallOf(ms)
<1>1. /\ DOMAIN ms = 1..Len(ms) /\ Len(ms) \in Nat /\ i \in Nat
      /\ DOMAIN more = 1..(Len(ms) + 1)
      /\ \A j \in 1..Len(ms) : more[j] = ms[j]
  OBVIOUS
<1>2. CallOf(more)[i] = call[i]
  BY <1>1, CallOfPrefix
<1>3. Answers(ms, i, call[i]) /\ IsResult(ms[i]) /\ call[i] # 0
  BY <1>1, CallOfAnswers DEF Shows
<1>4. call[i] \in 1..(i - 1)
  BY <1>3 DEF Answers, Opens, OpenAt
<1>5. call[i] \in 1..Len(ms) /\ i \in DOMAIN more
  BY <1>1, <1>4
<1>6. more[i] = ms[i] /\ more[call[i]] = ms[call[i]]
  BY <1>1, <1>5
<1> HIDE DEF more, call
<1>7. s \in Shows(more, CallOf(more), held, i)
  BY <1>2, <1>6 DEF Shows, call
<1> QED BY <1>5, <1>7 DEF more

\* A place that holds other instructions takes from the skills shown none but
\* those it held, and none if it was not read.
LEMMA MatchingChanges ==
    ASSUME NEW ms \in Seq(Message), NEW held \in [Place -> SUBSET Skill],
           NEW p \in Place, NEW skills \in SUBSET Skill,
           NEW s \in Matching(ms, held), s \notin Matching(ms, [held EXCEPT ![p] = skills])
    PROVE  /\ s \in held[p] \ skills
           /\ \E j \in DOMAIN ms : ms[j].text = Read(p)
<1> DEFINE call == CallOf(ms)
           next == [held EXCEPT ![p] = skills]
<1>1. PICK i \in DOMAIN ms : s \in Shows(ms, call, held, i)
  BY DEF Matching
<1>2. PICK q \in Place : ms[call[i]].text = Read(q) /\ s \in held[q]
  BY <1>1 DEF Shows
<1>3. s \notin Shows(ms, call, next, i)
  BY <1>1 DEF Matching
<1>4. s \notin next[q]
  BY <1>1, <1>2, <1>3 DEF Shows
<1>5. q = p /\ s \notin skills
  BY <1>2, <1>4
<1>6. DOMAIN ms = 1..Len(ms) /\ i \in 1..Len(ms) /\ Len(ms) \in Nat
  OBVIOUS
<1>7. Answers(ms, i, call[i]) /\ IsResult(ms[i]) /\ call[i] # 0
  BY <1>1, <1>6, CallOfAnswers DEF Shows
<1>8. call[i] \in 1..(i - 1)
  BY <1>7 DEF Answers, Opens, OpenAt
<1>9. call[i] \in DOMAIN ms
  BY <1>6, <1>8
<1> QED BY <1>2, <1>5, <1>9

\* What compact keeps was read.
LEMMA CompactKeeps ==
    ASSUME NEW ms \in Seq(Message), NEW j \in DOMAIN Compact(ms)
    PROVE  \E i \in DOMAIN ms : Compact(ms)[j] = ms[i]
<1>1. PICK f \in [0..Len(ms) -> Seq(Message)] :
          /\ f[0] = <<>>
          /\ \A n \in 1..Len(ms) : f[n] = Keep(f[n - 1], ms[n])
          /\ Compact(ms) = f[Len(ms)]
  BY CompactRuns
<1> DEFINE Kept(n) == \A k \in DOMAIN f[n] : \E i \in DOMAIN ms : f[n][k] = ms[i]
           Lost == {n \in 0..Len(ms) : ~Kept(n)}
<1>2. ASSUME NEW n \in Lost, \A m \in Lost : ~(m < n) PROVE FALSE
  <2>1. Kept(0)
    BY <1>1
  <2>2. n # 0 /\ n \in 0..Len(ms) /\ ~Kept(n)
    BY <1>2, <2>1
  <2>3. n \in 1..Len(ms) /\ n - 1 \in 0..Len(ms) /\ n - 1 < n
    BY <2>2
  <2>4. Kept(n - 1)
    BY <1>2, <2>3
  <2>5. f[n - 1] \in Seq(Message) /\ ms[n] \in Message /\ n \in DOMAIN ms
    BY <1>1, <2>3
  <2>6. f[n] = f[n - 1] \/ f[n] = Append(f[n - 1], ms[n])
    BY <1>1, <2>3, Zenon DEF Keep
  <2>7. ASSUME f[n] = Append(f[n - 1], ms[n]), NEW k \in DOMAIN f[n]
        PROVE  (k \in DOMAIN f[n - 1] /\ f[n][k] = f[n - 1][k]) \/ f[n][k] = ms[n]
    BY <2>5, <2>7
  <2>8. Kept(n)
    BY <2>4, <2>5, <2>6, <2>7
  <2> QED BY <2>2, <2>8
<1>3. Lost \in SUBSET Nat
  OBVIOUS
<1> HIDE DEF Lost
<1>4. Lost = {}
  BY <1>2, <1>3, LeastNumber
<1>5. Len(ms) \in 0..Len(ms)
  OBVIOUS
<1>6. Kept(Len(ms))
  BY <1>4, <1>5 DEF Lost
<1> QED BY <1>1, <1>6

\* What an ingest teaches is about the one skill that was shown.
LEMMA TaughtIsMatching ==
    ASSUME NEW ms \in Seq(Message), NEW held, NEW c \in Cards(ms, held)
    PROVE  Matching(ms, held) = {c.skill}
<1>1. PICK s \in Attributed(ms, CallOf(ms), held) : c.skill = s
  BY DEF Cards, CardOf
<1>2. Cardinality(Matching(ms, held)) = 1 /\ s \in Matching(ms, held)
  BY <1>1 DEF Attributed, Matching
<1>3. Matching(ms, held) \in SUBSET (1..MaxSkills)
  BY DEF Matching, Shows, Skill
<1>4. IsFiniteSet(Matching(ms, held))
  <2>1. 1 \in Int /\ MaxSkills \in Int
    BY AnalysisAssumption
  <2>2. IsFiniteSet(1..MaxSkills)
    BY <2>1, FS_Interval
  <2> QED BY <1>3, <2>2, FS_Subset
<1>5. \E x : Matching(ms, held) = {x}
  BY <1>2, <1>4, FS_Singleton
<1> QED BY <1>1, <1>2, <1>5

\* Every skill that was taught so far is one the transcript still shows or one
\* that was withdrawn; but for the withdrawn they are one.
SkillInv ==
    /\ messages \in Seq(Message)
    /\ stands \in [Place -> SUBSET Skill]
    /\ OneSkillPerSession
    /\ ~rejected => \A c \in taught :
          c.skill \in Matching(Compact(messages), stands) \cup withdrawn

\* Every record and every change of the instructions keeps it.
LEMMA StepSkill == SkillInv /\ [TranscriptNext]_transcriptVars => SkillInv'
<1> SUFFICES ASSUME SkillInv, [TranscriptNext]_transcriptVars PROVE SkillInv'
  OBVIOUS
<1>0. /\ messages \in Seq(Message) /\ stands \in [Place -> SUBSET Skill]
      /\ \A c, d \in taught : c.skill # d.skill => {c.skill, d.skill} \cap withdrawn # {}
  BY DEF SkillInv, OneSkillPerSession
<1>1. CASE UNCHANGED <<rejected, messages, instructions, taught>>
  BY <1>1 DEF SkillInv, OneSkillPerSession, instructions
<1>2. ASSUME messages' \in Seq(Message), UNCHANGED instructions, rejected', taught' = taught
      PROVE  SkillInv'
  BY <1>0, <1>2 DEF SkillInv, OneSkillPerSession, instructions
<1>3. ASSUME messages' \in Seq(Message), stands' \in [Place -> SUBSET Skill],
             withdrawn \subseteq withdrawn', ~rejected, Teach,
             Matching(Compact(messages), stands) \subseteq
                 Matching(Compact(messages'), stands') \cup withdrawn'
      PROVE  SkillInv'
  <2> DEFINE shown == Matching(Compact(messages'), stands')
  <2>1. \A c \in taught : c.skill \in shown \cup withdrawn'
    BY <1>3 DEF SkillInv
  <2>2. taught' = taught \/ taught' = taught \cup Cards(Compact(messages'), stands')
    BY <1>3 DEF Teach
  <2>3. \A c \in Cards(Compact(messages'), stands') : shown = {c.skill}
    BY <1>3, CompactType, TaughtIsMatching
  <2> HIDE DEF shown
  <2>4. \A c \in taught' : c.skill \in shown \cup withdrawn'
    BY <2>1, <2>2, <2>3
  <2>5. ASSUME NEW c \in taught', NEW d \in taught', c.skill # d.skill
        PROVE  {c.skill, d.skill} \cap withdrawn' # {}
    <3>1. CASE c \in taught /\ d \in taught
      BY <1>0, <1>3, <2>5, <3>1
    <3>2. CASE c \notin taught \/ d \notin taught
      <4>1. shown = {c.skill} \/ shown = {d.skill}
        BY <2>2, <2>3, <3>2
      <4> QED BY <2>4, <2>5, <4>1
    <3> QED BY <3>1, <3>2
  <2> QED BY <1>3, <2>4, <2>5 DEF SkillInv, OneSkillPerSession, shown
<1>4. ASSUME Reject, UNCHANGED instructions, Teach \/ taught' = taught PROVE SkillInv'
  <2>1. taught' = taught
    BY <1>4 DEF Reject, Teach, Accepted
  <2>2. messages' = <<>> /\ <<>> \in Seq(Message)
    BY <1>4 DEF Reject
  <2> QED BY <1>2, <1>4, <2>1, <2>2 DEF Reject
<1>5. ASSUME NEW m \in Message, ScanMessage(m) PROVE SkillInv'
  <2>1. /\ messages' = Append(messages, m) /\ Append(messages, m) \in Seq(Message)
        /\ ~rejected /\ Teach
        /\ UNCHANGED <<stands, withdrawn>>
    BY <1>0, <1>5 DEF ScanMessage, NextRecord, instructions
  <2>2. /\ Compact(messages) \in Seq(Message)
        /\ Compact(messages') = Keep(Compact(messages), m)
    BY <1>0, <2>1, CompactAppend
  <2>3. \/ Keep(Compact(messages), m) = Compact(messages)
        \/ Keep(Compact(messages), m) = Append(Compact(messages), m)
    BY Zenon DEF Keep
  <2>4. Matching(Compact(messages), stands) \subseteq Matching(Compact(messages'), stands)
    BY <2>2, <2>3, MatchingGrows
  <2> QED BY <1>0, <1>3, <2>1, <2>4
<1>6. ASSUME NEW session \in Sessions, NEW cwd \in Dirs, ScanIdentity(session, cwd)
      PROVE  SkillInv'
  <2>1. CASE Reject
    BY <1>4, <1>6, <2>1 DEF ScanIdentity, instructions
  <2>2. CASE UNCHANGED <<rejected, messages>>
    BY <1>0, <1>3, <1>6, <2>2 DEF ScanIdentity, NextRecord, instructions
  <2> QED BY <1>6, <2>1, <2>2 DEF ScanIdentity
<1>7. ASSUME NEW id \in CallId \cup {NoId}, NEW text \in Texts, NEW failed \in BOOLEAN
      PROVE  /\ Call(id, text) \in Message
             /\ Result(id, NameOf(id), failed, text) \in Message
             /\ User(text) \in Message
  <2>1. NameOf(id) \in {Tool, ""}
    BY DEF NameOf
  <2> QED BY <2>1 DEF Call, Result, User, Message
<1>8. /\ Validation \in Texts /\ Opaque \in Texts /\ Correction \in Texts
      /\ Output \in Texts /\ Nothing \in Texts /\ \A p \in Place : Read(p) \in Texts
  BY DEF Texts
<1>9. ASSUME NEW id \in CallId \cup {NoId}, NEW text \in Texts, NEW failed \in BOOLEAN,
             ScanCall(id, text) \/ ScanResult(id, failed, text)
      PROVE  SkillInv'
  BY <1>5, <1>7, <1>9 DEF ScanCall, ScanResult
<1>10. ASSUME ScanCorrection PROVE SkillInv'
  BY <1>5, <1>7, <1>8, <1>10 DEF ScanCorrection
<1>11. CASE \E id \in CallId :
              \/ \E p \in Place : ScanCall(id, Read(p))
              \/ ScanCall(id, Validation)
              \/ \E failed \in BOOLEAN : ScanResult(id, failed, Output)
              \/ ScanResult(id, FALSE, Nothing)
  BY <1>8, <1>9, <1>11
<1>12. CASE ScanCall(NoId, Opaque) \/ ScanResult(NoId, FALSE, Output)
  BY <1>8, <1>9, <1>12
<1>13. CASE TooManyRecords \/ TooManyMessages
  BY <1>4, <1>13 DEF TooManyRecords, TooManyMessages
<1>14. CASE ScanOther \/ UNCHANGED transcriptVars
  BY <1>1, <1>14 DEF ScanOther, transcriptVars
<1>15. ASSUME NEW p \in Place, NEW skills \in SUBSET Skill, ChangeInstructions(p, skills)
       PROVE  SkillInv'
  <2>1. /\ stands' = [stands EXCEPT ![p] = skills]
        /\ withdrawn' = withdrawn \cup IF p \in PlacesRead THEN stands[p] \ skills ELSE {}
        /\ UNCHANGED <<rejected, messages>>
        /\ Teach
    BY <1>15 DEF ChangeInstructions
  <2>2. stands' \in [Place -> SUBSET Skill]
    BY <1>0, <2>1
  <2>3. CASE rejected
    <3>1. taught' = taught
      BY <2>1, <2>3 DEF Teach, Accepted
    <3> QED BY <1>0, <2>1, <2>2, <2>3, <3>1 DEF SkillInv, OneSkillPerSession
  <2>4. CASE ~rejected
    <3>1. Compact(messages) \in Seq(Message)
      BY <1>0, CompactType
    <3>2. ASSUME NEW s \in Matching(Compact(messages), stands),
                 s \notin Matching(Compact(messages), stands')
          PROVE  s \in withdrawn'
      <4>1. s \in stands[p] \ skills
            /\ \E j \in DOMAIN Compact(messages) : Compact(messages)[j].text = Read(p)
        BY <1>0, <2>1, <3>1, <3>2, MatchingChanges
      <4>2. p \in PlacesRead
        BY <1>0, <4>1, CompactKeeps DEF PlacesRead
      <4> QED BY <2>1, <4>1, <4>2
    <3>3. Matching(Compact(messages), stands)
              \subseteq Matching(Compact(messages'), stands') \cup withdrawn'
      BY <2>1, <3>2
    <3> QED BY <1>0, <1>3, <2>1, <2>2, <2>4, <3>3
  <2> QED BY <2>3, <2>4
<1> QED
  BY <1>6, <1>10, <1>11, <1>12, <1>13, <1>14, <1>15 DEF TranscriptNext, Scan

\* The invariant holds however a transcript grows and the instructions change.
THEOREM SkillInvariant == TranscriptSpec => []SkillInv
<1>1. TranscriptInit => SkillInv
  <2>1. <<>> \in Seq(Message)
    OBVIOUS
  <2>2. [p \in Place |-> Skill \cap {p}] \in [Place -> SUBSET Skill]
    OBVIOUS
  <2> QED BY <2>1, <2>2 DEF TranscriptInit, SkillInv, OneSkillPerSession
<1> QED BY <1>1, StepSkill, PTL DEF TranscriptSpec

\* However long a transcript grows, however often it is ingested and whatever the
\* places that it reads hold meanwhile, its session teaches two skills only if a
\* place it had read ceased to hold the instructions of one of them.
THEOREM OneSkill == TranscriptSpec => []OneSkillPerSession
<1>1. SkillInv => OneSkillPerSession
  BY DEF SkillInv
<1> QED BY <1>1, SkillInvariant, PTL

\* In a transcript of any length every result is evidence for one call.
THEOREM CorrelationCorrect == TranscriptSpec => []CorrelationExact
<1>1. SkillInv => CorrelationExact
  <2> SUFFICES ASSUME SkillInv PROVE CorrelationExact
    OBVIOUS
  <2>1. Compact(messages) \in Seq(Message)
    BY CompactType DEF SkillInv
  <2>2. DOMAIN Compact(messages) = 1..Len(Compact(messages))
    BY <2>1
  <2> QED BY <2>1, <2>2, AnswersLast, OutcomeOfAnswered DEF CorrelationExact, AnsweredTwice
<1> QED BY <1>1, SkillInvariant, PTL

-----------------------------------------------------------------------------
(* Learning.  The inductive invariant says that evidence is bound to sessions  *)
(* that are bound to transcripts of their own, and that counts are backed by   *)
(* it, the counts that a rebuild is about to write included.                   *)

Claims == [event : (Session \X Path) \cup {<<>>}, topics : SUBSET Topic]

MemoryFits ==
    /\ ingest \in [Daemon -> Claims]
    /\ \A d \in Daemon : pc[d] = "commit" => ingest[d].event \in Session \X Path
    /\ listed \in [Session -> Row \cup {None}]
    /\ \A s \in todo : listed[s] # None

Bound == {s \in Session : sessions[s] # None}

\* A transcript is bound to one session, and whatever is stored or about to be
\* stored belongs to a session that is bound.
EvidenceBound ==
    /\ \A s, r \in Bound : sessions[s].binding = sessions[r].binding => s = r
    /\ \A c \in Stored \cup fresh : c[1] \in Bound
    /\ todo \subseteq Bound

\* Nothing is counted that has no card, and a rebuild whose snapshot is current
\* has counted all there is.
CountsBacked ==
    \A t \in Topic :
        LET held == Cardinality(SessionsOf(t))
        IN  /\ count[t] <= held
            /\ status[t] \in {"proposed", "resolved"} => Quorum <= held
            /\ \A p \in Process : groups[p][t] <= held
            /\ \A p \in unchanged : pc[p] = "upsert" => groups[p][t] = held

LearningInv == TypeOK /\ MemoryFits /\ EvidenceBound /\ CountsBacked

\* How many sessions have a card of a topic is a number.
LEMMA HeldNat ==
    ASSUME NEW t \in Topic
    PROVE  IsFiniteSet(SessionsOf(t)) /\ Cardinality(SessionsOf(t)) \in Nat
<1>1. SessionsOf(t) \in SUBSET Session
  BY DEF SessionsOf
<1>2. IsFiniteSet(SessionsOf(t))
  BY <1>1, FS_Subset, LearningAssumption
<1> QED BY <1>2, FS_CardinalityType

\* The invariant holds of an empty database.
LEMMA InitLearning == Init => LearningInv
<1> SUFFICES ASSUME Init PROVE LearningInv
  OBVIOUS
<1> USE LearningAssumption DEF Init
<1>1. TypeOK
  BY DEF TypeOK
<1>2. MemoryFits
  <2>1. NoIngest \in Claims
    BY DEF NoIngest, Claims
  <2> QED BY <2>1 DEF MemoryFits, Process
<1>3. Stored = {} /\ fresh = {} /\ todo = {} /\ Bound = {}
  BY DEF Stored, Bound
<1>4. EvidenceBound
  BY <1>3 DEF EvidenceBound
<1>5. CountsBacked
  BY HeldNat DEF CountsBacked
<1> QED BY <1>1, <1>2, <1>4, <1>5 DEF LearningInv

\* Every step keeps the types, and what a daemon and the reanalysis hold in
\* memory is about the session of the event, or about sessions that were listed.
LEMMA StepMemory == LearningInv /\ [Next]_vars => TypeOK' /\ MemoryFits'
<1> SUFFICES ASSUME LearningInv, [Next]_vars PROVE TypeOK' /\ MemoryFits'
  OBVIOUS
<1> USE LearningAssumption
<1>0. TypeOK /\ MemoryFits
  BY DEF LearningInv
<1>1. ASSUME NEW p \in Path, NEW content \in Content, Put(p, content)
      PROVE  TypeOK' /\ MemoryFits'
  BY <1>0, <1>1 DEF Put, Change, TypeOK, MemoryFits, tables, memory
<1>2. ASSUME NEW s \in Session, NEW topics \in SUBSET Topic, Write(s, topics)
      PROVE  TypeOK' /\ MemoryFits'
  <2>1. [id |-> s, topics |-> topics] \in Content /\ <<s, "sessions">> \in Path
    BY DEF Content, Path
  <2> QED BY <1>1, <1>2, <2>1 DEF Write
<1>3. ASSUME NEW p \in Path, NEW s \in Session, Replace(p, s)
      PROVE  TypeOK' /\ MemoryFits'
  <2>1. [file[p] EXCEPT !.id = s] \in Content
    BY <1>0, <1>3 DEF Replace, Content, TypeOK
  <2> QED BY <1>1, <1>3, <2>1 DEF Replace
<1>4. ASSUME NEW s \in Session, Archive(s) PROVE TypeOK' /\ MemoryFits'
  <2>1. <<s, "sessions">> \in Path /\ <<s, "archived">> \in Path
    BY DEF Path
  <2>2. file' \in [Path -> Content \cup {NoFile}]
    BY <1>0, <1>4, <2>1 DEF Archive, TypeOK
  <2>3. changes' \in 0..MaxChanges /\ UNCHANGED <<events, hooks, tables, memory, unchanged>>
    BY <1>0, <1>4 DEF Archive, Change, TypeOK
  <2> QED BY <1>0, <2>2, <2>3 DEF TypeOK, MemoryFits, tables, memory
<1>5. ASSUME NEW p \in Path, Hook(p) PROVE TypeOK' /\ MemoryFits'
  <2>1. file[p].id \in Session
    BY <1>0, <1>5 DEF Hook, Content, TypeOK
  <2> QED BY <1>0, <1>5, <2>1 DEF Hook, TypeOK, MemoryFits, tables, memory
<1>6. ASSUME NEW d \in Daemon, Claim(d) PROVE TypeOK' /\ MemoryFits'
  <2>1. PICK e \in events :
          /\ events' = events \ {e}
          /\ \/ \E topics \in Normalize(e[1], e[2]) :
                  /\ ingest' = [ingest EXCEPT ![d] = [event |-> e, topics |-> topics]]
                  /\ Goto(d, "commit")
             \/ UNCHANGED <<pc, ingest>>
    BY <1>6 DEF Claim
  <2>2. e \in Session \X Path
    BY <1>0 DEF TypeOK
  <2>3. \A topics \in Normalize(e[1], e[2]) : topics \in SUBSET Topic
    BY <1>0, <2>2 DEF Normalize, TypeOK, Content
  <2>4. \A topics \in SUBSET Topic : [event |-> e, topics |-> topics] \in Claims
    BY <2>2 DEF Claims
  <2>5. /\ ingest' \in [Daemon -> Claims]
        /\ pc' \in [Process -> {"idle", "commit", "list", "resolve", "rebuild", "upsert"}]
        /\ \A x \in Daemon : pc'[x] = "commit" => ingest'[x].event \in Session \X Path
    <3>1. CASE UNCHANGED <<pc, ingest>>
      BY <1>0, <3>1 DEF TypeOK, MemoryFits
    <3>2. ASSUME NEW claim \in Claims, claim.event = e,
                 ingest' = [ingest EXCEPT ![d] = claim], Goto(d, "commit")
          PROVE  <2>5!1 /\ <2>5!2 /\ <2>5!3
      BY <1>0, <2>2, <3>2 DEF Goto, TypeOK, MemoryFits, Process
    <3> QED BY <2>1, <2>3, <2>4, <3>1, <3>2
  <2>6. events' \subseteq Session \X Path
    BY <1>0, <2>1 DEF TypeOK
  <2>7. /\ unchanged' = {}
        /\ UNCHANGED <<file, hooks, changes, tables, listed, known, todo, fresh, groups>>
    BY <1>6 DEF Claim, Commits
  <2>8. TypeOK'
    BY <1>0, <2>5, <2>6, <2>7 DEF TypeOK, tables
  <2>9. MemoryFits'
    BY <1>0, <2>5, <2>7 DEF MemoryFits
  <2> QED BY <2>8, <2>9
<1>7. ASSUME NEW d \in Daemon, Commit(d) PROVE TypeOK' /\ MemoryFits'
  <2>1. /\ ingest[d].event[1] \in Session /\ ingest[d].event[2] \in Path
        /\ {ingest[d].event[1]} \X ingest[d].topics \subseteq Card
    BY <1>0, <1>7 DEF Commit, MemoryFits, Claims, Card
  <2>2. [path |-> ingest[d].event[2], binding |-> ingest[d].event[2]] \in Row
    BY <2>1 DEF Row
  <2>3. sessions' \in [Session -> Row \cup {None}]
    <3>1. \/ sessions' = sessions
          \/ sessions' = [sessions EXCEPT ![ingest[d].event[1]] = IF @ = None
                 THEN [path |-> ingest[d].event[2], binding |-> ingest[d].event[2]] ELSE @]
      BY <1>7 DEF Commit
    <3> QED BY <1>0, <2>1, <2>2, <3>1 DEF TypeOK
  <2>6. cards' \in [Card -> 0..1]
    <3>1. cards' = cards \/ Add({ingest[d].event[1]} \X ingest[d].topics)
      BY <1>7 DEF Commit
    <3> QED BY <1>0, <3>1 DEF Add, TypeOK
  <2>4. NoIngest \in Claims
    BY DEF NoIngest, Claims
  <2>5. /\ ingest' \in [Daemon -> Claims]
        /\ pc' \in [Process -> {"idle", "commit", "list", "resolve", "rebuild", "upsert"}]
        /\ \A x \in Daemon : pc'[x] = "commit" => ingest'[x].event \in Session \X Path
    BY <1>0, <1>7, <2>4 DEF Commit, Goto, TypeOK, MemoryFits, Process
  <2> QED BY <1>0, <1>7, <2>3, <2>5, <2>6 DEF Commit, Commits, TypeOK, MemoryFits, provider
<1>8. ASSUME NEW d \in Daemon, Prune(d) PROVE TypeOK' /\ MemoryFits'
  <2>1. PICK old \in SUBSET {s \in Session : sessions[s] # None /\ sessions[s].path # Pruned} :
          sessions' = [s \in Session |->
              IF s \in old THEN PruneLocator(sessions[s]) ELSE sessions[s]]
    BY <1>8 DEF Prune
  <2>2. \A row \in Row : PruneLocator(row) \in Row
    BY DEF Row, PruneLocator
  <2>3. sessions' \in [Session -> Row \cup {None}]
    BY <1>0, <2>1, <2>2 DEF TypeOK
  <2> QED BY <1>0, <1>8, <2>3 DEF Prune, Change, Commits, TypeOK, MemoryFits, memory
<1>9. ASSUME NEW p \in Process, Snapshot(p) PROVE TypeOK' /\ MemoryFits'
  <2>1. groups' \in [Process -> [Topic -> Nat]]
    BY <1>0, <1>9, HeldNat DEF Snapshot, TypeOK
  <2> QED BY <1>0, <1>9, <2>1 DEF Snapshot, Goto, TypeOK, MemoryFits, provider, tables, Process
<1>10. ASSUME NEW p \in Process, Upsert(p) PROVE TypeOK' /\ MemoryFits'
  <2>1. /\ count' \in [Topic -> Nat]
        /\ status' \in [Topic -> {"none", "open", "proposed", "resolved"}]
    BY <1>0, <1>10 DEF Upsert, Upserted, TypeOK
  <2>2. groups' \in [Process -> [Topic -> Nat]] /\ unchanged' \subseteq Process
    BY <1>0, <1>10 DEF Upsert, EndRebuild, Commits, TypeOK
  <2> QED
    BY <1>0, <1>10, <2>1, <2>2
       DEF Upsert, EndRebuild, Goto, TypeOK, MemoryFits, provider, Process
<1>11. ASSUME ListSessions PROVE TypeOK' /\ MemoryFits'
  BY <1>0, <1>11 DEF ListSessions, Goto, TypeOK, MemoryFits, provider, tables, Process
<1>12. ASSUME ListCards PROVE TypeOK' /\ MemoryFits'
  BY <1>0, <1>12 DEF ListCards, Goto, TypeOK, MemoryFits, provider, tables, Process, Stored
<1>13. ASSUME NEW s \in Session, Resolve(s) PROVE TypeOK' /\ MemoryFits'
  <2>1. \A p \in Path : Normalize(s, p) \in SUBSET SUBSET Topic
    BY <1>0 DEF Normalize, TypeOK, Content
  <2>2. listed[s] \in Row
    BY <1>0, <1>13 DEF Resolve, MemoryFits
  <2>3. Resolved(s) \in SUBSET SUBSET Topic
    BY <2>1, <2>2 DEF Resolved, Row
  <2>4. {s} \X UNION Resolved(s) \subseteq Card
    BY <2>3 DEF Card
  <2> QED BY <1>0, <1>13, <2>4 DEF Resolve, TypeOK, MemoryFits, provider, tables
<1>14. ASSUME EndDryRun PROVE TypeOK' /\ MemoryFits'
  BY <1>0, <1>14 DEF EndDryRun, Forgotten, Goto, TypeOK, MemoryFits, provider, tables, Process
<1>15. ASSUME AddCards PROVE TypeOK' /\ MemoryFits'
  <2>1. cards' \in [Card -> 0..1]
    BY <1>0, <1>15 DEF AddCards, Add, TypeOK
  <2> QED
    BY <1>0, <1>15, <2>1
       DEF AddCards, Forgotten, Commits, Goto, TypeOK, MemoryFits, provider, Process
<1>16. ASSUME NEW t \in Topic, NEW from, NEW to \in {"open", "proposed", "resolved"},
              Decide(t, from, to)
       PROVE  TypeOK' /\ MemoryFits'
  BY <1>0, <1>16 DEF Decide, Change, Commits, TypeOK, MemoryFits, memory
<1>17. ASSUME NEW p \in Process, Crash(p) PROVE TypeOK' /\ MemoryFits'
  <2>1. NoIngest \in Claims
    BY DEF NoIngest, Claims
  <2>2. /\ ingest' \in [Daemon -> Claims]
        /\ pc' \in [Process -> {"idle", "commit", "list", "resolve", "rebuild", "upsert"}]
        /\ \A x \in Daemon : pc'[x] = "commit" => ingest'[x].event \in Session \X Path
    BY <1>0, <1>17, <2>1 DEF Crash, Goto, TypeOK, MemoryFits, Process
  <2>3. /\ listed' \in [Session -> Row \cup {None}]
        /\ \A s \in todo' : listed'[s] # None
        /\ todo' \subseteq Session /\ known' \subseteq Card /\ fresh' \subseteq Card
    BY <1>0, <1>17 DEF Crash, Forgotten, TypeOK, MemoryFits
  <2>4. groups' \in [Process -> [Topic -> Nat]] /\ changes' \in 0..MaxChanges
    BY <1>0, <1>17 DEF Crash, Change, TypeOK
  <2> QED BY <1>0, <1>17, <2>2, <2>3, <2>4 DEF Crash, TypeOK, MemoryFits, tables
<1>18. CASE UNCHANGED vars
  BY <1>0, <1>18 DEF vars, provider, tables, memory, TypeOK, MemoryFits
<1> QED
  BY <1>2, <1>3, <1>4, <1>5, <1>6, <1>7, <1>8, <1>9, <1>10, <1>11, <1>12, <1>13, <1>14, <1>15,
     <1>16, <1>17, <1>18 DEF Next, Pass, Process

\* What a step may change of the evidence: a row that is there keeps its binding,
\* a new one has a binding of its own, and a card that is there stays.
LEMMA EvidenceGrows ==
    LearningInv /\ [Next]_vars =>
        /\ \A s \in Bound : s \in Bound' /\ sessions'[s].binding = sessions[s].binding
        /\ \A s \in Bound' \ Bound : \A r \in Bound' :
               sessions'[s].binding = sessions'[r].binding => s = r
        /\ Stored \subseteq Stored'
        /\ \A c \in Stored' \ Stored : c \in fresh \/ c[1] \in Bound'
<1> SUFFICES ASSUME LearningInv, [Next]_vars
             PROVE  /\ \A s \in Bound :
                           s \in Bound' /\ sessions'[s].binding = sessions[s].binding
                    /\ \A s \in Bound' \ Bound : \A r \in Bound' :
                           sessions'[s].binding = sessions'[r].binding => s = r
                    /\ Stored \subseteq Stored'
                    /\ \A c \in Stored' \ Stored : c \in fresh \/ c[1] \in Bound'
  OBVIOUS
<1>0. TypeOK /\ MemoryFits
  BY DEF LearningInv
<1>1. CASE sessions' = sessions /\ cards' = cards
  BY <1>1 DEF Bound, Stored
<1>2. ASSUME NEW d \in Daemon, Prune(d)
      PROVE  /\ cards' = cards
             /\ Bound' = Bound
             /\ \A s \in Bound : sessions'[s].binding = sessions[s].binding
  <2>1. PICK old \in SUBSET {s \in Session : sessions[s] # None /\ sessions[s].path # Pruned} :
          sessions' = [s \in Session |->
              IF s \in old THEN PruneLocator(sessions[s]) ELSE sessions[s]]
    BY <1>2 DEF Prune
  <2>2. \A row \in Row : PruneLocator(row) # None /\ PruneLocator(row).binding = row.binding
    BY NoneAssumption DEF Row, PruneLocator
  <2> QED BY <1>0, <1>2, <2>1, <2>2 DEF Prune, Bound, TypeOK
<1>3. ASSUME NEW d \in Daemon, Commit(d)
      PROVE  \/ sessions' = sessions /\ cards' = cards
             \/ \E s \in Session, p \in Path, topics \in SUBSET Topic :
                   /\ Records(s, p)
                   /\ sessions' = [sessions EXCEPT ![s] =
                          IF @ = None THEN [path |-> p, binding |-> p] ELSE @]
                   /\ Add({s} \X topics)
  <2>1. /\ ingest[d].event[1] \in Session /\ ingest[d].event[2] \in Path
        /\ ingest[d].topics \in SUBSET Topic
    BY <1>0, <1>3 DEF Commit, MemoryFits, Claims
  <2> QED BY <1>3, <2>1 DEF Commit
<1>4. ASSUME NEW s \in Session, NEW p \in Path, NEW topics \in SUBSET Topic, Records(s, p),
             sessions' = [sessions EXCEPT ![s] =
                 IF @ = None THEN [path |-> p, binding |-> p] ELSE @],
             Add({s} \X topics)
      PROVE  /\ \A r \in Bound : r \in Bound' /\ sessions'[r].binding = sessions[r].binding
             /\ \A r \in Bound' \ Bound : \A q \in Bound' :
                    sessions'[r].binding = sessions'[q].binding => r = q
             /\ Stored \subseteq Stored'
             /\ \A c \in Stored' \ Stored : c[1] \in Bound'
  <2>1. [path |-> p, binding |-> p] \in Row
    BY DEF Row
  <2>2. Bound' = Bound \cup {s}
    BY <1>0, <1>4, <2>1, NoneAssumption DEF Bound, TypeOK
  <2>3. \A r \in Bound : sessions'[r] = sessions[r]
    BY <1>0, <1>4 DEF Bound, TypeOK
  <2>4. s \notin Bound => /\ sessions'[s].binding = p
                         /\ \A r \in Bound : sessions[r].binding # p
    BY <1>0, <1>4 DEF Bound, Records, TypeOK
  <2>5. Stored \subseteq Stored' /\ \A c \in Stored' \ Stored : c \in {s} \X topics
    BY <1>0, <1>4 DEF Add, Stored, TypeOK
  <2> QED BY <2>2, <2>3, <2>4, <2>5
<1>5. ASSUME AddCards
      PROVE  /\ sessions' = sessions
             /\ Stored' = Stored \cup fresh
  BY <1>0, <1>5 DEF AddCards, Add, Stored, TypeOK
<1>6. CASE \E d \in Daemon : Prune(d)
  BY <1>2, <1>6 DEF Stored
<1>7. CASE \E d \in Daemon : Commit(d)
  BY <1>1, <1>3, <1>4, <1>7
<1>8. CASE AddCards
  BY <1>5, <1>8 DEF Bound
<1>9. CASE /\ ~AddCards
           /\ \A d \in Daemon : ~Prune(d) /\ ~Commit(d)
  BY <1>1, <1>9
     DEF Next, vars, tables, Pass, Write, Put, Archive, Replace, Hook, Claim, Snapshot, Upsert,
         EndRebuild, ListSessions, ListCards, Resolve, EndDryRun, Decide, Crash
<1> QED BY <1>6, <1>7, <1>8, <1>9

\* So no step takes a session from those that a topic has.
LEMMA HeldGrows ==
    ASSUME LearningInv, [Next]_vars, NEW t \in Topic
    PROVE  /\ SessionsOf(t) \subseteq SessionsOf(t)'
           /\ Cardinality(SessionsOf(t)) <= Cardinality(SessionsOf(t)')
           /\ Cardinality(SessionsOf(t)') \in Nat
<1>1. SessionsOf(t) \subseteq SessionsOf(t)'
  BY EvidenceGrows DEF SessionsOf
<1>2. SessionsOf(t)' \in SUBSET Session
  BY DEF SessionsOf
<1>3. IsFiniteSet(SessionsOf(t)')
  BY <1>2, FS_Subset, LearningAssumption
<1> QED BY <1>1, <1>3, FS_Subset, FS_CardinalityType

\* No step binds a transcript twice, or stores a card of a session without a row.
LEMMA StepEvidence == LearningInv /\ [Next]_vars => EvidenceBound'
<1> SUFFICES ASSUME LearningInv, [Next]_vars PROVE EvidenceBound'
  OBVIOUS
<1>0. TypeOK /\ MemoryFits /\ EvidenceBound
  BY DEF LearningInv
<1>1. Bound \subseteq Bound'
  BY EvidenceGrows
<1>2. \A s, r \in Bound' : sessions'[s].binding = sessions'[r].binding => s = r
  BY <1>0, EvidenceGrows DEF EvidenceBound
<1>3. \A c \in Stored' : c[1] \in Bound'
  BY <1>0, <1>1, EvidenceGrows DEF EvidenceBound
<1>4. (\A c \in fresh' : c[1] \in Bound') /\ todo' \subseteq Bound'
  <2>1. CASE ListSessions
    BY <1>0, <1>1, <2>1 DEF ListSessions, EvidenceBound, tables, Bound
  <2>2. ASSUME NEW s \in Session, Resolve(s)
        PROVE  (\A c \in fresh' : c[1] \in Bound') /\ todo' \subseteq Bound'
    <3>1. s \in Bound' /\ todo' \subseteq todo
          /\ \A c \in fresh' \ fresh : c \in {s} \X UNION Resolved(s)
      BY <1>0, <1>1, <2>2 DEF Resolve, EvidenceBound
    <3> QED BY <1>0, <1>1, <3>1 DEF EvidenceBound
  <2>3. CASE Forgotten
    BY <2>3 DEF Forgotten
  <2>4. CASE UNCHANGED <<todo, fresh>>
    BY <1>0, <1>1, <2>4 DEF EvidenceBound
  <2> QED
    BY <2>1, <2>2, <2>3, <2>4
       DEF Next, vars, memory, Pass, Write, Put, Archive, Replace, Hook, Claim, Commit, Prune,
           Snapshot, Upsert, EndRebuild, ListCards, EndDryRun, AddCards, Decide, Crash
<1> QED BY <1>2, <1>3, <1>4 DEF EvidenceBound

\* No step counts a session that has no card, or goes on after its snapshot has
\* become old as if it were not.
LEMMA StepCounts == LearningInv /\ [Next]_vars => CountsBacked'
<1> SUFFICES ASSUME LearningInv, [Next]_vars, NEW t \in Topic
             PROVE  /\ count'[t] <= Cardinality(SessionsOf(t)')
                    /\ status'[t] \in {"proposed", "resolved"}
                           => Quorum <= Cardinality(SessionsOf(t)')
                    /\ \A p \in Process : groups'[p][t] <= Cardinality(SessionsOf(t)')
                    /\ \A p \in unchanged' : pc'[p] = "upsert" =>
                           groups'[p][t] = Cardinality(SessionsOf(t)')
  BY DEF CountsBacked
<1> DEFINE held == Cardinality(SessionsOf(t))
           held2 == Cardinality(SessionsOf(t)')
<1>0. TypeOK /\ TypeOK' /\ CountsBacked
  BY StepMemory DEF LearningInv
<1>1. held \in Nat /\ held2 \in Nat /\ held <= held2
  BY HeldGrows, HeldNat
<1>2. /\ count[t] <= held
      /\ status[t] \in {"proposed", "resolved"} => Quorum <= held
      /\ \A p \in Process : groups[p][t] <= held
      /\ \A p \in unchanged : pc[p] = "upsert" => groups[p][t] = held
  BY <1>0 DEF CountsBacked
<1>3. /\ count[t] \in Nat /\ count'[t] \in Nat /\ Quorum \in Nat
      /\ \A p \in Process : groups[p][t] \in Nat /\ groups'[p][t] \in Nat
      /\ unchanged \subseteq Process /\ unchanged' \subseteq Process
  BY <1>0, LearningAssumption DEF TypeOK
<1> HIDE DEF held, held2
<1>4. count'[t] <= held2 /\ (status'[t] \in {"proposed", "resolved"} => Quorum <= held2)
  <2>1. ASSUME NEW p \in Process, Upserted(p)
        PROVE  /\ count'[t] \in {count[t], groups[p][t]}
               /\ status'[t] \in {"proposed", "resolved"} => status'[t] = status[t]
    BY <2>1 DEF Upserted
  <2>2. ASSUME NEW u \in Topic, NEW from, NEW to, Decide(u, from, to), to \in {"open", "proposed"}
        PROVE  /\ count'[t] = count[t]
               /\ status'[t] \in {"proposed", "resolved"}
                      => status'[t] = status[t] \/ Quorum <= count[t]
    BY <1>0, <2>2 DEF Decide, TypeOK
  <2>3. ASSUME NEW u \in Topic, Decide(u, "proposed", "resolved")
        PROVE  /\ count'[t] = count[t]
               /\ status'[t] \in {"proposed", "resolved"}
                      => status[t] \in {"proposed", "resolved"}
    BY <1>0, <2>3 DEF Decide, TypeOK
  <2>4. CASE UNCHANGED <<count, status>>
    BY <1>1, <1>2, <1>3, <2>4
  <2>5. CASE \E p \in Process : Upserted(p)
    BY <1>1, <1>2, <1>3, <2>1, <2>5
  <2>6. CASE \E u \in Topic : Decide(u, "open", "proposed") \/ Decide(u, "proposed", "open")
    BY <1>1, <1>2, <1>3, <2>2, <2>6
  <2>7. CASE \E u \in Topic : Decide(u, "proposed", "resolved")
    BY <1>1, <1>2, <1>3, <2>3, <2>7
  <2> QED
    BY <2>4, <2>5, <2>6, <2>7
       DEF Next, vars, tables, Pass, Write, Put, Archive, Replace, Hook, Claim, Commit, Prune,
           Snapshot, Upsert, ListSessions, ListCards, Resolve, EndDryRun, AddCards, Crash, Process
<1>5. ASSUME NEW p \in Process
      PROVE  /\ groups'[p][t] <= held2
             /\ p \in unchanged' /\ pc'[p] = "upsert" => groups'[p][t] = held2
  <2>1. ASSUME NEW q \in Process, Snapshot(q)
        PROVE  <1>5!2
    <3>1. SessionsOf(t)' = SessionsOf(t)
      BY <2>1 DEF Snapshot, tables, SessionsOf, Stored
    <3>2. /\ groups'[p][t] = IF p = q THEN held ELSE groups[p][t]
          /\ p # q => pc'[p] = pc[p] /\ (p \in unchanged' => p \in unchanged)
      BY <1>0, <2>1 DEF Snapshot, Goto, TypeOK, held
    <3>3. held2 = held
      BY <3>1 DEF held, held2
    <3> QED BY <1>2, <1>3, <3>2, <3>3
  <2>2. ASSUME NEW q \in Process, groups' = [groups EXCEPT ![q] = [u \in Topic |-> 0]],
               Goto(q, "idle"), unchanged' \in {{}, unchanged},
               SessionsOf(t)' = SessionsOf(t)
        PROVE  <1>5!2
    <3>1. /\ groups'[p][t] = IF p = q THEN 0 ELSE groups[p][t]
          /\ pc'[p] = IF p = q THEN "idle" ELSE pc[p]
      BY <1>0, <2>2 DEF Goto, TypeOK
    <3>2. held2 = held
      BY <2>2 DEF held, held2
    <3> QED BY <1>1, <1>2, <1>3, <2>2, <3>1, <3>2
  <2>3. CASE \E q \in Process : Upsert(q) \/ Crash(q)
    <3>1. SessionsOf(t)' = SessionsOf(t)
      BY <2>3 DEF Upsert, EndRebuild, Crash, tables, SessionsOf, Stored
    <3> QED BY <2>2, <2>3, <3>1 DEF Upsert, EndRebuild, Crash, Commits
  <2>4. CASE groups' = groups /\ unchanged' = {}
    BY <1>1, <1>2, <1>3, <2>4
  <2>5. CASE /\ UNCHANGED <<groups, unchanged, cards>>
             /\ \/ pc' = pc
                \/ \E q \in Process, step \in {"idle", "list", "resolve", "rebuild"} : Goto(q, step)
    <3>1. SessionsOf(t)' = SessionsOf(t)
      BY <2>5 DEF SessionsOf, Stored
    <3>2. pc'[p] = "upsert" => pc[p] = "upsert"
      BY <1>0, <2>5 DEF Goto, TypeOK
    <3> QED BY <1>2, <1>3, <2>5, <3>1, <3>2 DEF held, held2
  <2>6. CASE AddCards /\ fresh = {}
    <3>1. cards' = cards
      BY <1>0, <2>6 DEF AddCards, Add, TypeOK
    <3> QED BY <2>5, <2>6, <3>1 DEF AddCards, Process
  <2> QED
    BY <2>1, <2>3, <2>4, <2>5, <2>6
       DEF Next, vars, tables, memory, Commits, Pass, Write, Put, Archive, Replace, Hook, Claim,
           Commit, Prune, ListSessions, ListCards, Resolve, EndDryRun, AddCards, Decide, Process
<1> QED BY <1>3, <1>4, <1>5 DEF held2

\* Whatever daemons, reanalyses and crashes do, evidence stays bound and counted.
THEOREM LearningInvariant == Spec => []LearningInv
<1>1. LearningInv /\ [Next]_vars => LearningInv'
  BY StepMemory, StepEvidence, StepCounts DEF LearningInv
<1> QED BY <1>1, InitLearning, PTL DEF Spec

\* The type invariant, with one card for a session and topic.
THEOREM LearningTypeCorrect == Spec => []TypeOK
<1>1. LearningInv => TypeOK
  BY DEF LearningInv
<1> QED BY <1>1, LearningInvariant, PTL

\* A cluster's count, and the quorum of a proposal, are ones of transcripts.
THEOREM QuorumBacked == Spec => []QuorumOfTranscripts
<1>1. LearningInv => QuorumOfTranscripts
  <2> SUFFICES ASSUME LearningInv, NEW t \in Topic
               PROVE  LET bound == {sessions[s].binding : s \in SessionsOf(t)}
                      IN  /\ count[t] <= Cardinality(bound)
                          /\ status[t] \in {"proposed", "resolved"} =>
                                 Cardinality(bound) >= Quorum
    BY DEF QuorumOfTranscripts
  <2> DEFINE bound == {sessions[s].binding : s \in SessionsOf(t)}
             binding == [s \in SessionsOf(t) |-> sessions[s].binding]
  <2>1. SessionsOf(t) \subseteq Bound
    BY DEF LearningInv, EvidenceBound, SessionsOf
  <2>2. \A s, r \in SessionsOf(t) : binding[s] = binding[r] => s = r
    BY <2>1 DEF LearningInv, EvidenceBound
  <2>3. binding \in Bijection(SessionsOf(t), bound)
    BY <2>2 DEF Bijection, Injection, Surjection, IsInjective
  <2>4. ExistsBijection(SessionsOf(t), bound)
    BY <2>3 DEF ExistsBijection
  <2>5. Cardinality(bound) = Cardinality(SessionsOf(t))
    BY <2>4, HeldNat, FS_Bijection
  <2> QED
    BY <2>5, HeldNat, LearningAssumption DEF LearningInv, CountsBacked
<1> QED BY <1>1, LearningInvariant, PTL

\* Counts never go down, and what was decided stays decided.
THEOREM ClustersOnlyAdvance == Spec => ClustersAdvance
<1>1. LearningInv /\ [Next]_vars =>
        [\A t \in Topic :
            /\ count'[t] >= count[t]
            /\ status[t] = "resolved" => status'[t] = "resolved"]_vars
  <2> SUFFICES ASSUME LearningInv, Next, NEW t \in Topic
               PROVE  /\ count'[t] >= count[t]
                      /\ status[t] = "resolved" => status'[t] = "resolved"
    OBVIOUS
  <2>0. /\ count[t] \in Nat /\ count[t] <= Cardinality(SessionsOf(t))
        /\ status \in [Topic -> {"none", "open", "proposed", "resolved"}]
    BY DEF LearningInv, CountsBacked, TypeOK
  <2>1. ASSUME NEW p \in Process, Upsert(p)
        PROVE  /\ count'[t] >= count[t]
               /\ status[t] = "resolved" => status'[t] = "resolved"
    <3>1. CASE UNCHANGED <<count, status>>
      BY <2>0, <3>1
    <3>2. CASE p \in unchanged /\ Upserted(p)
      <4>1. groups[p][t] = Cardinality(SessionsOf(t))
        BY <2>1, <3>2 DEF Upsert, LearningInv, CountsBacked
      <4> QED BY <2>0, <3>2, <4>1, HeldNat DEF Upserted
    <3> QED BY <2>1, <3>1, <3>2 DEF Upsert
  <2>2. ASSUME NEW u \in Topic, NEW from \in {"open", "proposed"}, NEW to, Decide(u, from, to)
        PROVE  /\ count'[t] >= count[t]
               /\ status[t] = "resolved" => status'[t] = "resolved"
    BY <2>0, <2>2 DEF Decide
  <2>3. CASE UNCHANGED <<count, status>>
    BY <2>0, <2>3
  <2> QED
    BY <2>1, <2>2, <2>3
       DEF Next, vars, tables, Pass, Write, Put, Archive, Replace, Hook, Claim, Commit, Prune,
           Snapshot, ListSessions, ListCards, Resolve, EndDryRun, AddCards, Crash, Process
<1> QED BY <1>1, LearningInvariant, PTL DEF Spec, ClustersAdvance

\* A session keeps its transcript: no ingest, prune or crash rebinds or forgets it.
THEOREM BindingsKept ==
    Spec => [][\A s \in Session : sessions[s] # None =>
                 /\ sessions'[s] # None
                 /\ sessions'[s].binding = sessions[s].binding]_vars
<1>1. LearningInv /\ [Next]_vars =>
        [\A s \in Session : sessions[s] # None =>
            /\ sessions'[s] # None
            /\ sessions'[s].binding = sessions[s].binding]_vars
  BY EvidenceGrows DEF Bound
<1> QED BY <1>1, LearningInvariant, PTL DEF Spec
=============================================================================
