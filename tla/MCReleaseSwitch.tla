--------------------------- MODULE MCReleaseSwitch ---------------------------
(* A line of revisions, each a child of the one before: two promotions in a *)
(* row, and two competing candidates on the first base.                     *)
EXTENDS ReleaseSwitch

CONSTANTS base, first, second, rival

MCCommit == {base, first, second, rival}
MCCandidates == {<<base, first>>, <<first, second>>, <<base, rival>>}
=============================================================================
