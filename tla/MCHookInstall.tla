--------------------------- MODULE MCHookInstall ---------------------------
(* Callers and handlers are interchangeable; see README.md. *)
EXTENDS HookInstall, TLC

Interchangeable == Permutations(Caller) \cup Permutations(Variant)

MCLayouts ==
    {<<>>, <<Group(<<Other>>, TRUE)>>, <<Group(<<Other>>, FALSE)>>}
    \cup {<<Group(<<Other, v>>, FALSE)>> : v \in Variant}
    \cup {<<Group(<<Other>>, FALSE), Group(<<v>>, TRUE)>> : v \in Variant}

\* Bound on the search: the owner starts with nothing, or with the same for both
\* events and a description; edits make the events differ.
MCInit ==
    /\ HookInit
    /\ \/ file \in {Empty, Malformed}
       \/ file.groups["Stop"] = file.groups["SessionEnd"] /\ file.description = "theirs"

MCSpec == MCInit /\ [][HookNext]_hookVars
=============================================================================
