--------------------------- MODULE MCEpisodeRunner ---------------------------
(* Three occurrences: a program compiled in the first can misfire in the    *)
(* second and again in the third, beside one compiled in the second.        *)
EXTENDS EpisodeRunner, MCCommands

CONSTANTS merge, rebase

(* A replay ends, over the programs of MCCommands, in exactly the ways the  *)
(* episodes take it to.                                                     *)
ASSUME ReplaysEndAsModelled == ReplayEndings = ReplayResults

MCVariants == {merge, rebase}

=============================================================================
