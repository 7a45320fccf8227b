------------------------------ MODULE Intents ------------------------------
(***************************************************************************)
(* signatures.py: what is observed of a clone, and tasks/intent.py with    *)
(* each family's rules: the resolution a fingerprint is labelled with and  *)
(* the resolutions it accepts.  A rule reads the fingerprint only, never   *)
(* the seed, the injected state or what the harness recorded.              *)
(***************************************************************************)
EXTENDS Faults, LibraryStatus

(* _config_tree: the stale keys, those set under both names, and the        *)
(* ignored config files.  An entry names its file and its pair.             *)
StaleKeys(r) ==
    {<<e[1], e[2].old>> : e \in
        {e \in ConfigFiles \X RENAMES :
            \E l \in r.work : l.file = e[1] /\ l.key = e[2].old}}

SetTwice(r) ==
    {<<e[1], e[2].old>> : e \in
        {e \in ConfigFiles \X RENAMES :
            /\ \E l \in r.work : l.file = e[1] /\ l.key = e[2].old
            /\ \E l \in r.work : l.file = e[1] /\ l.key = e[2].new}}

(* _ThreeWay.dropped_by: what one side removed of a conflicted file and the *)
(* other still has; what both changed is dropped by neither.                *)
Dropped(r, dropper, keeper) ==
    {l \in (MergeBase(r) \ dropper) \cap keeper : l.file \in Conflicted(MergeBase(r), r.head.tree, r.up.tree)}

(* StateFingerprint.observe, of the fields a rule of a measured family      *)
(* reads.  Ahead and behind are counts; the rest are names.  A clone that   *)
(* declares no submodule reads as one whose upstream references it.         *)
observe(r) ==
    [dirty_worktree      |-> Dirty(r),
     branch              |-> r.branch,
     upstream_ahead      |-> Ahead(r),
     upstream_behind     |-> Behind(r),
     has_submodule_reference |-> \E l \in r.head.tree : l.at = "gitlink",
     local_touched_files    |-> Changed(MergeBase(r), r.head.tree),
     upstream_touched_files |-> Changed(MergeBase(r), r.up.tree),
     submodule_initialised  |-> r.initialised,
     submodule_pin_matches_upstream      |-> Part(r.head.tree, Nested) = Part(r.up.tree, Nested),
     upstream_still_references_submodule |-> Part(r.up.tree, Nested) # {} \/ Declaration \notin r.work,
     dirty_files         |-> DirtyFiles(r),
     untracked_upstream_collisions |-> Collisions(r),
     tracked_branch      |-> r.tracks,
     upstream_default_branch |-> r.default,
     local_branches      |-> r.others \cup {r.branch},
     merge_conflicted_files |-> Conflicted(MergeBase(r), r.head.tree, r.up.tree),
     upstream_dropped_lines |-> Dropped(r, r.up.tree, r.head.tree),
     local_dropped_lines    |-> Dropped(r, r.head.tree, r.up.tree),
     config_stale_keys      |-> StaleKeys(r),
     config_keys_set_twice  |-> SetTwice(r),
     config_ignored_files   |-> Files(r.work) \cap r.ignored]

-----------------------------------------------------------------------------
(* The shared tests.                                                        *)

has_local_only_commits(s) == s.upstream_behind > 0

follows_a_renamed_branch(s) ==
    /\ s.tracked_branch # "" /\ s.upstream_default_branch # ""
    /\ s.tracked_branch # s.upstream_default_branch

sync_would_conflict(s) ==
    s.merge_conflicted_files # {} /\ s.upstream_ahead > 0 /\ s.upstream_behind > 0

-----------------------------------------------------------------------------
(* branch_renamed.                                                          *)

NewNameTaken(s) ==
    s.upstream_default_branch \in s.local_branches /\ s.upstream_default_branch # s.branch

NothingLocal(s) == follows_a_renamed_branch(s) /\ s.upstream_behind = 0

BranchDecides(s, v) ==
    CASE v = "rename"  -> NothingLocal(s) /\ ~NewNameTaken(s)
      [] v = "retrack" -> NothingLocal(s) /\ NewNameTaken(s)
      [] v = "merge"   -> follows_a_renamed_branch(s) /\ s.upstream_behind > 0
      [] OTHER -> FALSE

BranchAccepts(s, v) ==
    CASE v = "rename"  -> NothingLocal(s) /\ ~NewNameTaken(s)
      [] v = "retrack" -> NothingLocal(s)
      [] v = "merge"   -> follows_a_renamed_branch(s)
      [] OTHER -> FALSE

-----------------------------------------------------------------------------
(* config_renamed: each rule fixes every stale entry.                       *)

InAnIgnoredFile(s, entry) == entry[1] \in s.config_ignored_files

ConfigDecides(s, v) ==
    /\ s.config_stale_keys # {}
    /\ CASE v = "rename" -> s.config_keys_set_twice = {}
         [] v = "drop_old" -> s.config_keys_set_twice = s.config_stale_keys
         [] v = "migrate_local" -> s.config_keys_set_twice = {}
         [] OTHER -> FALSE
    /\ IF v = "migrate_local" THEN \A entry \in s.config_stale_keys : InAnIgnoredFile(s, entry)
                              ELSE \A entry \in s.config_stale_keys : ~InAnIgnoredFile(s, entry)

-----------------------------------------------------------------------------
(* dirty_tree.                                                              *)

HasWorkToKeep(s) == s.dirty_worktree /\ s.upstream_ahead > 0 /\ s.upstream_behind = 0

Collides(s) == s.untracked_upstream_collisions # {}

EditsAFileUpstreamChanged(s) == s.dirty_files \cap s.upstream_touched_files # {}

DirtyDecides(s, v) ==
    CASE v = "stash"  -> HasWorkToKeep(s) /\ ~Collides(s) /\ ~EditsAFileUpstreamChanged(s)
      [] v = "commit" -> HasWorkToKeep(s) /\ ~Collides(s) /\ EditsAFileUpstreamChanged(s)
      [] v = "aside"  -> HasWorkToKeep(s) /\ Collides(s)
      [] OTHER -> FALSE

DirtyAccepts(s, v) ==
    CASE v \in {"stash", "commit"} -> HasWorkToKeep(s) /\ ~Collides(s)
      [] v = "aside" -> HasWorkToKeep(s)
      [] OTHER -> FALSE

-----------------------------------------------------------------------------
(* diverged.                                                                *)

HasLocalCommitsToSync(s) ==
    has_local_only_commits(s) /\ ~follows_a_renamed_branch(s) /\ ~sync_would_conflict(s)

ConflictingFiles(s) == s.local_touched_files \cap s.upstream_touched_files

DivergedDecides(s, v) ==
    /\ HasLocalCommitsToSync(s)
    /\ CASE v = "discard" -> s.local_touched_files = {}
         [] v = "merge"   -> ConflictingFiles(s) # {}
         [] v = "rebase"  -> s.local_touched_files # {} /\ ConflictingFiles(s) = {}
         [] OTHER -> FALSE

DivergedAccepts(s, v) == v \in {"merge", "rebase"} /\ HasLocalCommitsToSync(s)

-----------------------------------------------------------------------------
(* lockfile_conflict.  No modelled file is a Cargo.lock.                    *)

LockDecides(s, v) ==
    /\ sync_would_conflict(s)
    /\ CASE v = "take_upstream" -> s.local_dropped_lines = {}
         [] v = "keep_local" -> s.local_dropped_lines # {} /\ s.upstream_dropped_lines = {}
         [] OTHER -> FALSE

(* As a bug would have it: upstream's side serves in any conflict.          *)
LockAcceptsUpstream(s, v) ==
    /\ sync_would_conflict(s)
    /\ v = "take_upstream" \/ s.upstream_dropped_lines = {}

LockAccepts(s, v) ==
    /\ sync_would_conflict(s)
    /\ CASE v = "take_upstream" -> s.local_dropped_lines = {}
         [] v = "keep_local" -> s.upstream_dropped_lines = {}
         [] OTHER -> FALSE

-----------------------------------------------------------------------------
(* submodule_moved.                                                         *)

SubmoduleDecides(s, v) ==
    /\ s.has_submodule_reference
    /\ CASE v = "remove" -> ~s.upstream_still_references_submodule
         [] v = "init" -> s.upstream_still_references_submodule /\ ~s.submodule_initialised
         [] v = "repin" -> /\ s.upstream_still_references_submodule
                           /\ s.submodule_initialised
                           /\ ~s.submodule_pin_matches_upstream
         [] OTHER -> FALSE

-----------------------------------------------------------------------------
(* IntentSpec, over a family's declared variants.                           *)

declared_variants ==
    <<{"rename", "retrack", "merge"}, {"rename", "drop_old", "migrate_local"},
      {"stash", "commit", "aside"}, {"discard", "merge", "rebase"},
      {"take_upstream", "keep_local"}, {"remove", "init", "repin"}>>

correct_in(f, s, v) ==
    CASE f = BranchRenamed -> BranchDecides(s, v)
      [] f = ConfigRenamed -> ConfigDecides(s, v)
      [] f = DirtyTree -> DirtyDecides(s, v)
      [] f = Diverged -> DivergedDecides(s, v)
      [] f = LockfileConflict -> LockDecides(s, v)
      [] OTHER -> SubmoduleDecides(s, v)

(* accepted_by, FALSE where a variant declares none.                        *)
accepted_by(f, s, v) ==
    CASE f = BranchRenamed -> BranchAccepts(s, v)
      [] f = ConfigRenamed -> ConfigDecides(s, v)
      [] f = DirtyTree -> DirtyAccepts(s, v)
      [] f = Diverged -> DivergedAccepts(s, v)
      [] f = LockfileConflict -> LockAccepts(s, v)
      [] OTHER -> FALSE

accepted_in(f, s, v) == correct_in(f, s, v) \/ accepted_by(f, s, v)

(* correct_variant raises when two rules hold: Overlap.                     *)
Overlap(f, s) ==
    \E v, w \in declared_variants[f] : v # w /\ correct_in(f, s, v) /\ correct_in(f, s, w)

Labelled(f, s) == \E v \in declared_variants[f] : correct_in(f, s, v)

correct_variant(f, s) ==
    IF Labelled(f, s) THEN CHOOSE v \in declared_variants[f] : correct_in(f, s, v) ELSE None

acceptable_variants(f, s) ==
    IF Labelled(f, s) THEN {v \in declared_variants[f] : accepted_in(f, s, v)} ELSE {}

=============================================================================
