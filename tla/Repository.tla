---------------------------- MODULE Repository ----------------------------
(***************************************************************************)
(* The clone a resolution works in, as far as git's outcome depends on it. *)
(* git itself is not this repository's code: its commands are modelled     *)
(* from how the injectors, the gold bodies and the checkers use them.      *)
(*                                                                         *)
(* A tree is a set of lines, and a line is in a file, at a place of it: two*)
(* sides that change one place differently conflict.  A commit is a name,  *)
(* and a tip is the set of commits it contains with the tree it records.   *)
(* A clone r holds                                                         *)
(*   base, head, up      the merge base's tree, the local and upstream tips*)
(*   work, ignored       the working tree, and the files git ignores       *)
(*   stash, unmerged     the stashed trees, and the files left in conflict *)
(*   branch, others      the branch checked out, and the other local ones  *)
(*   tracks, default     the branch it follows, and upstream's default ""  *)
(*   remote              the branches upstream has                         *)
(*   fetched             the remote-tracking refs, which may be stale      *)
(*   initialised         the submodule has a checkout                      *)
(*   ok                  no command has failed                             *)
(***************************************************************************)
EXTENDS Naturals, Sequences, FiniteSets

Line(file, at, key, value) == [file |-> file, at |-> at, key |-> key, value |-> value]

Files(tree) == {l.file : l \in tree}

Part(tree, file) == {l \in tree : l.file = file}

Without(tree, file) == tree \ Part(tree, file)

Changed(old, new) == Files((old \ new) \cup (new \ old))

Place(tree, file, at) == {l \in tree : l.file = file /\ l.at = at}

-----------------------------------------------------------------------------
(* Three-way merges.                                                        *)

Merged(base, ours, theirs) == (ours \cap theirs) \cup (ours \ base) \cup (theirs \ base)

(* Both sides changed one place of the file, differently.                   *)
ConflictsIn(base, ours, theirs, file) ==
    \E l \in base \cup ours \cup theirs :
        /\ l.file = file
        /\ Place(ours, file, l.at) # Place(base, file, l.at)
        /\ Place(theirs, file, l.at) # Place(base, file, l.at)
        /\ Place(ours, file, l.at) # Place(theirs, file, l.at)

Conflicted(base, ours, theirs) ==
    {f \in Files(base \cup ours \cup theirs) : ConflictsIn(base, ours, theirs, f)}

Markers(files) == {Line(f, "conflict", "<<<<<<<", "") : f \in files}

-----------------------------------------------------------------------------
(* What is read of a clone.                                                 *)

Untracked(r) == (Files(r.work) \ Files(r.head.tree)) \ r.ignored

(* git diff --name-only HEAD.                                               *)
DirtyFiles(r) == Changed(r.head.tree, r.work) \cap Files(r.head.tree)

(* git status --porcelain prints something.                                 *)
Dirty(r) == DirtyFiles(r) # {} \/ Untracked(r) # {}

Collisions(r) == Untracked(r) \cap Files(r.up.tree)

Ahead(r) == Cardinality(r.up.commits \ r.head.commits)

Behind(r) == Cardinality(r.head.commits \ r.up.commits)

TipContained(r) == r.up.commits \subseteq r.head.commits

(* The merge base's tree, wherever the local tip has got to.                *)
MergeBase(r) ==
    IF TipContained(r) THEN r.up.tree ELSE IF Behind(r) = 0 THEN r.head.tree ELSE r.base

-----------------------------------------------------------------------------
(* The commands.  A command that fails leaves the rest of a body unrun.     *)

Then(r, Command(_)) == IF r.ok THEN Command(r) ELSE r

Failed(r) == [r EXCEPT !.ok = FALSE]

Advance(r, tip) ==
    [r EXCEPT !.head = tip, !.work = Merged(r.head.tree, r.work, tip.tree)]

(* The local work upstream's files would be written over.                   *)
InTheWay(r) ==
    Collisions(r) # {} \/ DirtyFiles(r) \cap Changed(r.head.tree, r.up.tree) # {}

FastForward(r) ==
    IF r.unmerged # {} THEN Failed(r)
    ELSE IF TipContained(r) THEN r
    ELSE IF Behind(r) > 0 \/ InTheWay(r) THEN Failed(r)
    ELSE Advance(r, r.up)

(* git merge --no-edit: a conflict stops it with markers in the tree.       *)
MergeUpstream(r) ==
    LET tree == Merged(r.base, r.head.tree, r.up.tree)
        stopped == Conflicted(r.base, r.head.tree, r.up.tree)
    IN  IF TipContained(r) \/ Behind(r) = 0 THEN FastForward(r)
        ELSE IF \/ r.unmerged # {} \/ Collisions(r) # {}
                \/ DirtyFiles(r) \cap Changed(r.head.tree, tree) # {}
        THEN Failed(r)
        ELSE IF stopped # {}
        THEN [r EXCEPT !.ok = FALSE, !.unmerged = stopped,
                       !.work = Merged(r.head.tree, r.work, tree) \cup Markers(stopped)]
        ELSE Advance(r, [commits |-> r.head.commits \cup r.up.commits \cup {"merge"},
                         tree |-> tree])

(* git rebase: the local commits are written anew on upstream's tip.        *)
Rebase(r) ==
    IF TipContained(r) THEN r
    ELSE IF DirtyFiles(r) # {} \/ Collisions(r) # {} \/ r.unmerged # {}
            \/ Conflicted(r.base, r.head.tree, r.up.tree) # {}
    THEN Failed(r)
    ELSE Advance(r, [commits |-> r.up.commits \cup (IF Behind(r) > 0 THEN {"rebased"} ELSE {}),
                     tree |-> Merged(r.base, r.head.tree, r.up.tree)])

(* git reset --hard: tracked files are upstream's, untracked ones stay.     *)
ResetHard(r) ==
    [r EXCEPT !.head = r.up, !.unmerged = {},
              !.work = r.up.tree \cup {l \in r.work : /\ l.file \notin Files(r.head.tree)
                                                      /\ l.file \notin Files(r.up.tree)}]

(* git stash push --include-untracked, and git stash pop.  No state here    *)
(* makes a pop conflict in a tracked file, so only its failing is kept.     *)
Stash(r) ==
    IF r.unmerged # {} THEN Failed(r)
    ELSE IF ~Dirty(r) THEN r
    ELSE [r EXCEPT !.stash = <<[from |-> r.head.tree,
                                work |-> {l \in r.work : l.file \notin r.ignored}]>> \o @,
                   !.work = r.head.tree \cup {l \in @ : l.file \in r.ignored}]

Pop(r) ==
    IF r.stash = <<>> THEN Failed(r)
    ELSE LET s == Head(r.stash)
         IN  IF \/ (Files(s.work) \ Files(s.from)) \cap Files(r.work) # {}
                \/ Conflicted(s.from, r.work, s.work) # {}
             THEN Failed(r)
             ELSE [r EXCEPT !.work = Merged(s.from, @, s.work), !.stash = Tail(@)]

(* git add -A and git commit: what is not ignored becomes the tip's tree,   *)
(* and a merge that had stopped is concluded.                               *)
CommitAll(r) ==
    LET tree == {l \in r.work : l.file \in Files(r.head.tree) \/ l.file \notin r.ignored}
    IN  IF tree = r.head.tree /\ r.unmerged = {} THEN Failed(r)
        ELSE [r EXCEPT !.unmerged = {},
                       !.head = [commits |-> @.commits \cup {"work"}
                                     \cup (IF r.unmerged # {} THEN r.up.commits \cup {"merge"}
                                                              ELSE {}),
                                 tree |-> tree]]

(* git checkout -- <paths>, and git clean -fd.                              *)
RestoreTracked(r) ==
    IF r.unmerged # {} THEN Failed(r)
    ELSE [r EXCEPT !.work = r.head.tree \cup {l \in @ : l.file \notin Files(r.head.tree)}]

CleanUntracked(r) == [r EXCEPT !.work = {l \in @ : l.file \notin Untracked(r)}]

(* A file of the working tree replaced by another's lines of it.            *)
Replace(r, file, lines) == [r EXCEPT !.work = Without(@, file) \cup lines]

(* mv of each file to its name aside.                                       *)
MoveAside(r, files, Aside(_)) ==
    [r EXCEPT !.work = {l \in @ : l.file \notin files}
                           \cup {[l EXCEPT !.file = Aside(@)] : l \in {k \in @ : k.file \in files}}]

(* git branch -m, and -M over a branch of that name.                        *)
RenameBranch(r, name) ==
    IF name \in r.others THEN Failed(r) ELSE [r EXCEPT !.branch = name]

ForceRenameBranch(r, name) == [r EXCEPT !.branch = name, !.others = @ \ {name}]

(* git branch --set-upstream-to takes any ref it has fetched.               *)
SetUpstream(r, name) ==
    IF name \notin r.fetched THEN Failed(r) ELSE [r EXCEPT !.tracks = name]

=============================================================================
