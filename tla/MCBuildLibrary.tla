--------------------------- MODULE MCBuildLibrary ---------------------------
(* A resolution with a fallback seed, then one without: enough for a seed   *)
(* to be skipped, to be fallen back to, and to follow a closed group.       *)
EXTENDS BuildLibrary

CONSTANTS a, b

MCPlan == <<<<1, 3>>, <<2>>>>

(* A program under either name, not revised; and one revised under another. *)
MCDrafts == {<<a, a>>, <<b, b>>, <<b, a>>}

=============================================================================
