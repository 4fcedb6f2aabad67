---------------------------- MODULE MCPolicyLock ----------------------------
(* Two readers against a writer need three processes; a fourth adds only a *)
(* second queued writer or reader of the same kind.                        *)
EXTENDS PolicyLock
=============================================================================
