---------------------------- MODULE MCTranscript ----------------------------
(* Transcript, for TLC. *)
EXTENDS Transcript

\* Bound on the search: more than two messages are read only in a transcript
\* that would be accepted as it is, or that has nothing but corrections; an
\* identity that comes later is tried with two messages before it.  What is made
\* of messages does not depend on the provider: Claude's are no more than two.
AcceptedEarly ==
    \/ Len(messages) <= 2
    \/ /\ source = "codex"
       /\ Accepted \/ \A i \in DOMAIN messages : messages[i] = User(Correction)

\* Places are alike until one of them is read: it is place 1.
FirstPlaceRead == PlacesRead # {} => 1 \in PlacesRead

\* Bound on the search: what a place holds changes only for an accepted
\* transcript of reads, their output and corrections; what else teaches a card
\* does so in the same way.
Reading ==
    /\ Accepted /\ PlacesRead # {}
    /\ \A i \in DOMAIN messages :
          ~messages[i].failed /\ messages[i].text \notin {Validation, Opaque, Nothing}

MCNext ==
    \/ Scan /\ (edits' > 0 => Reading')
    \/ Reading /\ \E p \in Place, skills \in SUBSET Skill : ChangeInstructions(p, skills)

MCSpec == TranscriptInit /\ [][MCNext]_transcriptVars
=============================================================================
