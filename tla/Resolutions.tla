---------------------------- MODULE Resolutions ----------------------------
(***************************************************************************)
(* The gold resolutions, bench/gold/*.yaml: per family and resolution, the *)
(* body that resolves a clone, and the preconditions that say when.  They  *)
(* are what a compiled program is a version of: the model may leave a      *)
(* precondition out, or put one resolution's label on another's body.      *)
(***************************************************************************)
EXTENDS Intents

(* {upstream_branch}: upstream's default where the clone records one.       *)
UpstreamBranch(r) == IF r.default = "" THEN "main" ELSE r.default

-----------------------------------------------------------------------------
(* Preconditions, by name.  A probe that names a path nobody declares is    *)
(* not bound, and does not hold.                                            *)

Overlaps(r) ==
    Changed(MergeBase(r), r.head.tree) \cap Changed(MergeBase(r), r.up.tree)

Shaped(tree, file) == \E l \in tree : l.file = file /\ l.key = "packages"

ConflictFiles(r) == Conflicted(MergeBase(r), r.head.tree, r.up.tree)

StaleIn(r, file) == \E l \in r.work : l.file = file /\ l.key \in OldNames

TwiceIn(r, file) ==
    \E pair \in RENAMES : \A key \in {pair.old, pair.new} :
        \E l \in r.work : l.file = file /\ l.key = key

PathBound(r) == Declaration \in r.work

Precondition(r, name) ==
    CASE name = "follows_upstreams_current_branch" -> r.tracks = UpstreamBranch(r)
      [] name = "follows_another_branch" -> r.tracks # UpstreamBranch(r)
      [] name = "has_local_only_commits" -> Behind(r) > 0
      [] name = "no_local_only_commits" -> Behind(r) = 0
      [] name = "upstream_has_new_commits" -> Ahead(r) > 0
      [] name = "new_name_is_free" -> UpstreamBranch(r) \notin r.others \cup {r.branch}
      [] name = "new_name_already_taken" -> UpstreamBranch(r) \in r.others \cup {r.branch}
      [] name = "the_app_lists_its_renames" -> Table \in Files(r.work)
      [] name = "the_settings_use_an_old_name" -> StaleIn(r, Settings)
      [] name = "no_setting_under_both_names" -> ~TwiceIn(r, Settings)
      [] name = "a_setting_under_both_names" -> TwiceIn(r, Settings)
      [] name = "the_override_is_private" -> Local \in Files(r.work) \cap r.ignored
      [] name = "only_the_override_uses_an_old_name" -> StaleIn(r, Local) /\ ~StaleIn(r, Settings)
      [] name = "has_uncommitted_work" -> Dirty(r)
      [] name = "no_unsaved_file_in_the_way" -> Collisions(r) = {}
      [] name = "an_unsaved_file_in_the_way" -> Collisions(r) # {}
      [] name = "edits_avoid_upstream_files" ->
             DirtyFiles(r) \cap Changed(MergeBase(r), r.up.tree) = {}
      [] name = "edits_touch_an_upstream_file" ->
             DirtyFiles(r) \cap Changed(MergeBase(r), r.up.tree) # {}
      [] name = "local_commits_change_nothing" -> Changed(MergeBase(r), r.head.tree) = {}
      [] name = "local_commits_change_files" -> Changed(MergeBase(r), r.head.tree) # {}
      [] name = "files_disjoint" -> Overlaps(r) = {}
      [] name = "upstream_touched_a_local_file" -> Overlaps(r) # {}
      [] name = "local_work_beyond_the_overlap" ->
             Changed(MergeBase(r), r.head.tree) \ Overlaps(r) # {}
      [] name = "conflict_is_one_dependency_file" ->
             \E f \in Files(r.head.tree) :
                 ConflictFiles(r) = {f} /\ Shaped(r.head.tree, f) /\ Shaped(r.up.tree, f)
      [] name = "both_sides_have_commits" -> Ahead(r) > 0 /\ Behind(r) > 0
      [] name = "a_merge_would_conflict" -> ConflictFiles(r) # {}
      [] name = "local_side_removed_nothing" -> Dropped(r, r.head.tree, r.up.tree) = {}
      [] name = "local_side_removed_something" -> Dropped(r, r.head.tree, r.up.tree) # {}
      [] name = "upstream_removed_nothing" -> Dropped(r, r.up.tree, r.head.tree) = {}
      [] name = "upstream_still_tracks_it" -> PathBound(r) /\ Part(r.up.tree, Nested) # {}
      [] name = "upstream_dropped_it" -> PathBound(r) /\ Part(r.up.tree, Nested) = {}
      [] name = "submodule_initialised" -> PathBound(r) /\ r.initialised
      [] name = "submodule_not_initialised" -> PathBound(r) /\ ~r.initialised
      [] name = "pin_drifted" ->
             PathBound(r) /\ Part(r.head.tree, Nested) # Part(r.up.tree, Nested)

(* The preconditions the gold resolutions are written in.                   *)
PreconditionNames ==
    {"follows_upstreams_current_branch", "follows_another_branch", "has_local_only_commits",
     "no_local_only_commits", "upstream_has_new_commits", "new_name_is_free",
     "new_name_already_taken", "the_app_lists_its_renames", "the_settings_use_an_old_name",
     "no_setting_under_both_names", "a_setting_under_both_names", "the_override_is_private",
     "only_the_override_uses_an_old_name", "has_uncommitted_work",
     "no_unsaved_file_in_the_way", "an_unsaved_file_in_the_way",
     "edits_avoid_upstream_files", "edits_touch_an_upstream_file",
     "local_commits_change_nothing", "local_commits_change_files", "files_disjoint",
     "upstream_touched_a_local_file", "local_work_beyond_the_overlap",
     "conflict_is_one_dependency_file", "both_sides_have_commits", "a_merge_would_conflict",
     "local_side_removed_nothing", "local_side_removed_something",
     "upstream_removed_nothing", "upstream_still_tracks_it", "upstream_dropped_it",
     "submodule_initialised", "submodule_not_initialised", "pin_drifted"}

InWork == {"has_uncommitted_work", "upstream_has_new_commits", "no_local_only_commits"}

Synced == {"follows_upstreams_current_branch", "has_local_only_commits"}

InTheLock ==
    {"conflict_is_one_dependency_file", "both_sides_have_commits", "a_merge_would_conflict"}

GoldPreconditions(f, v) ==
    CASE f = BranchRenamed /\ v = "rename" ->
             {"follows_another_branch", "no_local_only_commits", "new_name_is_free"}
      [] f = BranchRenamed /\ v = "retrack" ->
             {"follows_another_branch", "no_local_only_commits", "new_name_already_taken"}
      [] f = BranchRenamed /\ v = "merge" -> {"follows_another_branch", "has_local_only_commits"}
      [] f = ConfigRenamed /\ v = "rename" ->
             {"the_app_lists_its_renames", "the_settings_use_an_old_name",
              "no_setting_under_both_names"}
      [] f = ConfigRenamed /\ v = "drop_old" ->
             {"the_app_lists_its_renames", "a_setting_under_both_names"}
      [] f = ConfigRenamed /\ v = "migrate_local" ->
             {"the_app_lists_its_renames", "the_override_is_private",
              "only_the_override_uses_an_old_name"}
      [] v = "stash" -> InWork \cup {"no_unsaved_file_in_the_way", "edits_avoid_upstream_files"}
      [] v = "commit" -> InWork \cup {"no_unsaved_file_in_the_way", "edits_touch_an_upstream_file"}
      [] v = "aside" -> InWork \cup {"an_unsaved_file_in_the_way"}
      [] v = "discard" -> Synced \cup {"local_commits_change_nothing"}
      [] v = "rebase" -> Synced \cup {"local_commits_change_files", "files_disjoint"}
      [] f = Diverged /\ v = "merge" ->
             Synced \cup {"upstream_touched_a_local_file", "local_work_beyond_the_overlap"}
      [] v = "take_upstream" -> InTheLock \cup {"local_side_removed_nothing"}
      [] v = "keep_local" ->
             InTheLock \cup {"local_side_removed_something", "upstream_removed_nothing"}
      [] v = "init" -> {"upstream_still_tracks_it", "submodule_not_initialised"}
      [] v = "repin" -> {"submodule_initialised", "upstream_still_tracks_it", "pin_drifted"}
      [] v = "remove" -> {"upstream_dropped_it"}

-----------------------------------------------------------------------------
(* Bodies.                                                                  *)

SetUpstreamHere(r) == SetUpstream(r, UpstreamBranch(r))

RenameHere(r) == RenameBranch(r, UpstreamBranch(r))

(* sed over one config file: each old name becomes the new, or is deleted   *)
(* where the new one is set.                                                *)
RenameKeys(r, file) ==
    Replace(r, file,
            {IF \E pair \in RENAMES : pair.old = l.key
             THEN [l EXCEPT !.key = (CHOOSE pair \in RENAMES : pair.old = @).new] ELSE l :
             l \in Part(r.work, file)})

DropOldKeys(r) ==
    Replace(r, Settings,
            {l \in Part(r.work, Settings) :
                ~\E pair \in RENAMES :
                    /\ l.key = pair.old
                    /\ \E k \in r.work : k.file = Settings /\ k.key = pair.new})

MoveCollisionsAside(r) == MoveAside(r, Collisions(r), ASIDE)

(* The lock rebuilt from one side's file and the other side's new packages, *)
(* around a merge that stops on it.                                         *)
Rebuild(r, side, additions) ==
    LET merged == MergeUpstream(r)
        added == {l \in additions \ MergeBase(r) : l.file = Lock /\ l.key = "package"}
    IN  IF Lock \notin ConflictFiles(r) \/ merged.unmerged = {} THEN Failed(merged)
        ELSE CommitAll([Replace([merged EXCEPT !.ok = TRUE], Lock, Part(side, Lock) \cup added)
                            EXCEPT !.work = @ \ Markers({Lock})])

UpdateSubmodule(r) ==
    IF Part(r.work, Nested) = {} THEN Failed(r) ELSE [r EXCEPT !.initialised = TRUE]

CheckoutUpstreamPath(r) ==
    IF Part(r.up.tree, Nested) = {} THEN Failed(r)
    ELSE Replace(r, Nested, Part(r.up.tree, Nested))

RemoveSubmodule(r) ==
    IF Declaration \notin r.work THEN Failed(r)
    ELSE [r EXCEPT !.work = {l \in @ : l.file # Nested /\ l # Declaration}]

Body(f, v, r) ==
    CASE f = BranchRenamed /\ v = "rename" ->
             Then(Then(Then(r, RenameHere), SetUpstreamHere), FastForward)
      [] f = BranchRenamed /\ v = "retrack" -> Then(Then(r, SetUpstreamHere), FastForward)
      [] f = BranchRenamed /\ v = "merge" -> Then(Then(r, SetUpstreamHere), MergeUpstream)
      [] f = ConfigRenamed /\ v = "rename" -> RenameKeys(r, Settings)
      [] f = ConfigRenamed /\ v = "drop_old" -> DropOldKeys(r)
      [] f = ConfigRenamed /\ v = "migrate_local" -> RenameKeys(r, Local)
      [] v = "stash" -> Then(Then(Then(r, Stash), FastForward), Pop)
      [] v = "commit" -> Then(Then(r, CommitAll), MergeUpstream)
      [] v = "aside" -> Then(Then(Then(Then(r, MoveCollisionsAside), Stash), FastForward), Pop)
      [] v = "discard" -> ResetHard(r)
      [] v = "rebase" -> Rebase(r)
      [] f = Diverged /\ v = "merge" -> MergeUpstream(r)
      [] v = "take_upstream" -> Rebuild(r, r.up.tree, r.head.tree)
      [] v = "keep_local" -> Rebuild(r, r.head.tree, r.up.tree)
      [] v = "init" -> UpdateSubmodule(r)
      [] v = "repin" -> Then(Then(r, CheckoutUpstreamPath), CommitAll)
      [] v = "remove" -> Then(Then(r, RemoveSubmodule), CommitAll)

(* What a body's own postconditions ask of the clone it left: less than the *)
(* checker does.                                                            *)
Postcondition(f, v, r) ==
    CASE f = BranchRenamed -> r.tracks = UpstreamBranch(r) /\ TipContained(r)
      [] f = ConfigRenamed /\ v = "migrate_local" ->
             ~StaleIn(r, Local) /\ Local \notin Files(r.head.tree)
      [] f = ConfigRenamed /\ v # "migrate_local" -> ~StaleIn(r, Settings)
      [] v = "stash" -> TipContained(r) /\ Dirty(r)
      [] v = "aside" -> TipContained(r) /\ Collisions(r) = {}
      [] v = "discard" -> r.head = r.up
      [] v = "rebase" -> TipContained(r) /\ ~Dirty(r)
      [] v = "commit" \/ (f = Diverged /\ v = "merge") -> TipContained(r)
      [] f = LockfileConflict ->
             TipContained(r) /\ \A l \in r.head.tree : l.at # "conflict"
      [] v = "init" -> r.initialised
      [] v = "repin" -> Part(r.head.tree, Nested) = Part(r.up.tree, Nested)
      [] v = "remove" -> Part(r.head.tree, Nested) = {}

-----------------------------------------------------------------------------
(* What an agent may do to a clone in one tool call: one command, whether   *)
(* it fails or not, or a whole resolution, the destructive ones with them.  *)
AgentMoves(f, r) ==
    {[c EXCEPT !.ok = TRUE] :
        c \in {FastForward(r), MergeUpstream(r), Rebase(r), ResetHard(r), Stash(r), Pop(r),
               CommitAll(r), RestoreTracked(r), CleanUntracked(r), SetUpstreamHere(r),
               SetUpstream(r, "main"), ForceRenameBranch(r, UpstreamBranch(r))}
              \cup {Body(f, v, r) : v \in declared_variants[f]}}

=============================================================================
