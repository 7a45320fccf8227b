------------------------------ MODULE Faults ------------------------------
(***************************************************************************)
(* tasks/faults: the six measured families, each an injector that puts a   *)
(* clone in one of three live states, and a checker that grades what a     *)
(* resolution left.  The checkers read the clone and what the injector     *)
(* recorded for the harness, `recorded`, which is kept outside the clone.  *)
(*                                                                         *)
(* Families are numbered in the order of their names.  A seed selects the  *)
(* state, and one more choice (an untracked file beside the edit, which of *)
(* the renamed keys is stale); the hash behind the two is left out, as are *)
(* the texts, names and counts the instance axes draw, which no rule reads.*)
(***************************************************************************)
EXTENDS Repository

BranchRenamed    == 1
ConfigRenamed    == 2
DirtyTree        == 3
Diverged         == 4
LockfileConflict == 5
SubmoduleMoved   == 6

FAULTS == BranchRenamed .. SubmoduleMoved

SeedRange == 0 .. 5

(* state_for_seed: what the seed's first draw selects.                      *)
INJECTED_STATES ==
    <<<<"plain", "local_work", "name_taken">>,
      <<"stale_key", "both_keys", "local_override">>,
      <<"disjoint", "same_file", "collision">>,
      <<"empty_local_commits", "disjoint_files", "overlapping_files">>,
      <<"additions_only", "upstream_removed", "local_removed">>,
      <<"init", "repin", "remove">>>>

state_for_seed(f, seed) == INJECTED_STATES[f][1 + (seed % 3)]

(* The second draw.                                                         *)
Other(seed) == seed >= 3

STATE_VARIANT ==
    [plain |-> "rename", local_work |-> "merge", name_taken |-> "retrack",
     stale_key |-> "rename", both_keys |-> "drop_old", local_override |-> "migrate_local",
     disjoint |-> "stash", same_file |-> "commit", collision |-> "aside",
     empty_local_commits |-> "discard", disjoint_files |-> "rebase",
     overlapping_files |-> "merge",
     additions_only |-> "take_upstream", upstream_removed |-> "take_upstream",
     local_removed |-> "keep_local",
     init |-> "init", repin |-> "repin", remove |-> "remove"]

variant_for_seed(f, seed) == STATE_VARIANT[state_for_seed(f, seed)]

-----------------------------------------------------------------------------
(* What create builds: a clone of an upstream with two files in it.         *)

App == "app.py"

Readme == "docs/readme.md"

BaseTree == {Line(App, "body", "code", ""), Line(Readme, "body", "text", "")}

Tip(commits, tree) == [commits |-> commits, tree |-> tree]

BaseTip == Tip({"base"}, BaseTree)

(* A clone at these tips, its working tree the local tip's with more in it. *)
Clone(base, head, up, more) ==
    [base |-> base, head |-> head, up |-> up, work |-> head.tree \cup more, ignored |-> {},
     stash |-> <<>>, unmerged |-> {}, branch |-> "main", others |-> {}, tracks |-> "main",
     default |-> "", remote |-> {"main"}, fetched |-> {"main"}, initialised |-> FALSE,
     ok |-> TRUE]

(* sandbox.recorded, and injected_state.                                    *)
Unrecorded ==
    [state |-> "", kept |-> {}, untracked |-> {}, collision |-> FALSE, taken |-> FALSE,
     added |-> {}, removed |-> {}, target |-> "", expected |-> {}, settings |-> {}]

TheirTop == Line(App, "top", "theirs", "")

OurNote == Line(Readme, "end", "ours", "")

-----------------------------------------------------------------------------
(* branch_renamed: upstream renamed its default branch.                     *)

BranchClone(state) ==
    LET ours == IF state = "local_work" THEN Tip({"base", "ours"}, BaseTree \cup {OurNote})
                                        ELSE BaseTip
    IN  [Clone(BaseTree, ours, Tip({"base", "theirs"}, BaseTree \cup {TheirTop}), {}) EXCEPT
             !.default = "trunk", !.remote = {"trunk"}, !.fetched = {"main", "trunk"},
             !.others = IF state = "name_taken" THEN {"trunk"} ELSE {}]

BranchRecord(state) ==
    [Unrecorded EXCEPT !.kept = IF state = "local_work" THEN {OurNote} ELSE {},
                       !.taken = (state = "name_taken")]

(* The side branch's commit is on the branch that took the name.            *)
BranchCheck(r, recorded) ==
    /\ r.tracks \in r.remote
    /\ TipContained(r)
    /\ recorded.kept \subseteq r.work
    /\ recorded.taken => "trunk" \in r.others

-----------------------------------------------------------------------------
(* config_renamed: a config file still sets a renamed key's old name.       *)

RENAMES == {[old |-> "timeout", new |-> "timeout_s"], [old |-> "cache", new |-> "cache_dir"]}

Table == "config/renames.conf"

Settings == "config/settings.conf"

Local == "config/local.conf"

Ignore == ".gitignore"

Sets(file, key, value) == Line(file, "body", key, value)

TableLines == {Sets(Table, pair.old, pair.new) : pair \in RENAMES}

IgnoreLines == {Line(Ignore, "body", Local, "")}

Migrated == {Sets(Settings, pair.new, "new value") : pair \in RENAMES}

Pair(other) == CHOOSE pair \in RENAMES : (pair.old = "cache") <=> other

(* layout_for_seed: the settings, and the file a fix must edit.             *)
SettingsLines(state, pair) ==
    CASE state = "stale_key" ->
             (Migrated \ {Sets(Settings, pair.new, "new value")})
                 \cup {Sets(Settings, pair.old, "new value")}
      [] state = "both_keys" -> Migrated \cup {Sets(Settings, pair.old, "old value")}
      [] OTHER -> Migrated

LocalNote == Sets(Local, "local_note", "this machine only")

LocalLines(state, pair) ==
    IF state = "local_override" THEN {Sets(Local, pair.old, "old value"), LocalNote} ELSE {}

ConfigClone(state, pair) ==
    LET tree == BaseTree \cup TableLines \cup IgnoreLines \cup SettingsLines(state, pair)
        tip == Tip({"base", "config"}, tree)
    IN  [Clone(tree, tip, tip, LocalLines(state, pair)) EXCEPT !.ignored = {Local}]

ConfigRecord(state, pair) ==
    [Unrecorded EXCEPT
         !.state = state,
         !.target = IF state = "local_override" THEN Local ELSE Settings,
         !.expected = IF state = "local_override"
                      THEN {Sets(Local, pair.new, "old value"), LocalNote} ELSE Migrated,
         !.settings = SettingsLines(state, pair)]

OldNames == {pair.old : pair \in RENAMES}

ConfigFiles == {Settings, Local}

ConfigCheck(r, recorded) ==
    /\ Part(r.work, Table) = TableLines
    /\ Part(r.work, Ignore) = IgnoreLines
    /\ \A l \in r.work : l.file \in ConfigFiles => l.key \notin OldNames
    /\ Part(r.work, recorded.target) = recorded.expected
    /\ recorded.state = "local_override" =>
           /\ Local \notin Files(r.head.tree)
           /\ Part(r.work, Settings) = recorded.settings

-----------------------------------------------------------------------------
(* dirty_tree: uncommitted work while upstream moved on.                    *)

Scratch == "notes/scratch.txt"

ASIDE(file) == IF file = Scratch THEN "notes/scratch.txt.local" ELSE "aside.local"

Note(file) == Line(file, "body", "note", "ours")

HasUntracked(state, other) == state = "collision" \/ other

Work(state) == IF state = "same_file" THEN Line(App, "end", "ours", "") ELSE OurNote

DirtyClone(state, other) ==
    LET theirs == BaseTree \cup {TheirTop} \cup
                  (IF state = "collision" THEN {Line(Scratch, "body", "note", "theirs")} ELSE {})
    IN  Clone(BaseTree, BaseTip, Tip({"base", "theirs"}, theirs),
              {Work(state)} \cup (IF HasUntracked(state, other) THEN {Note(Scratch)} ELSE {}))

DirtyRecord(state, other) ==
    [Unrecorded EXCEPT !.kept = {Work(state)},
                       !.untracked = IF HasUntracked(state, other) THEN {Note(Scratch)} ELSE {},
                       !.collision = (state = "collision")]

(* As a bug would have it: the untracked file is not looked for.            *)
DirtyCheckTracked(r, recorded) ==
    /\ TipContained(r)
    /\ recorded.kept \subseteq r.work

DirtyCheck(r, recorded) ==
    /\ TipContained(r)
    /\ recorded.kept \subseteq r.work
    /\ \/ Part(r.work, Scratch) = recorded.untracked \/ recorded.untracked = {}
       \/ recorded.collision /\ Part(r.work, ASIDE(Scratch)) = {Note(ASIDE(Scratch))}

-----------------------------------------------------------------------------
(* diverged: each side has commits the other lacks.                         *)

DivergedLines(state) ==
    CASE state = "empty_local_commits" -> {}
      [] state = "disjoint_files" -> {OurNote}
      [] OTHER -> {OurNote, Line(App, "end", "ours", "")}

DivergedClone(state) ==
    Clone(BaseTree, Tip({"base", "ours"}, BaseTree \cup DivergedLines(state)),
          Tip({"base", "theirs"}, BaseTree \cup {TheirTop}), {})

DivergedRecord(state) == [Unrecorded EXCEPT !.kept = DivergedLines(state)]

DivergedCheck(r, recorded) == TipContained(r) /\ recorded.kept \subseteq r.work

-----------------------------------------------------------------------------
(* lockfile_conflict: both sides changed one lock-shaped file.              *)

Lock == "deps.lock"

LockLine(key, value) == Line(Lock, "packages", key, value)

Shape == LockLine("packages", "[")

Version(value) == LockLine("version", value)

Package(name) == LockLine("package", name)

LockBase == {Shape, Version("base"), Package("core"), Package("zlib")}

LockEdited(state, removal, version, added) ==
    {Shape, Version(version), Package(added), Package("core")}
        \cup (IF state = removal THEN {} ELSE {Package("zlib")})

LockClone(state) ==
    LET side(removal, version, added) ==
            Tip({"base", "lock", version},
                BaseTree \cup LockEdited(state, removal, version, added))
    IN  Clone(BaseTree \cup LockBase, side("local_removed", "ours", "birch"),
              side("upstream_removed", "theirs", "elder"), {})

LockRecord(state) ==
    [Unrecorded EXCEPT !.added = {Package("birch"), Package("elder")},
                       !.removed = IF state = "additions_only" THEN {} ELSE {Package("zlib")}]

LockCheck(r, recorded) ==
    /\ TipContained(r)
    /\ \A l \in r.work : l.at # "conflict"
    /\ recorded.added \subseteq r.work
    /\ recorded.removed \cap r.work = {}
    /\ Cardinality({l \in Part(r.work, Lock) : l.key = "version"}) = 1

-----------------------------------------------------------------------------
(* submodule_moved: the nested repository is not as upstream expects it.    *)

Nested == "vendor/lib"

Gitlink(commit) == Line(Nested, "gitlink", "commit", commit)

Declaration == Line(".gitmodules", "section", "path", Nested)

SubmoduleClone(state) ==
    LET pinned == Tip({"base", "nested"}, BaseTree \cup {Gitlink("initial"), Declaration})
        up == CASE state = "init" -> pinned
                [] state = "repin" -> Tip({"base", "nested", "theirs"},
                                          BaseTree \cup {Gitlink("grown"), Declaration})
                [] OTHER -> Tip({"base", "nested", "theirs"}, BaseTree)
    IN  [Clone(pinned.tree, pinned, up, {}) EXCEPT !.initialised = (state # "init")]

SubmoduleRecord(state) == [Unrecorded EXCEPT !.state = state]

SubmoduleCheck(r, recorded) ==
    CASE recorded.state = "init" -> r.initialised /\ Part(r.work, Nested) # {}
      [] recorded.state = "repin" ->
             /\ Part(r.up.tree, Nested) # {}
             /\ Part(r.head.tree, Nested) = Part(r.up.tree, Nested)
      [] OTHER -> Part(r.head.tree, Nested) = {} /\ Declaration \notin r.work

-----------------------------------------------------------------------------
(* The registry's view: what a build at a seed is, and its grade.           *)

InjectedClone(f, seed) ==
    LET state == state_for_seed(f, seed)
    IN  CASE f = BranchRenamed -> BranchClone(state)
          [] f = ConfigRenamed -> ConfigClone(state, Pair(Other(seed)))
          [] f = DirtyTree -> DirtyClone(state, Other(seed))
          [] f = Diverged -> DivergedClone(state)
          [] f = LockfileConflict -> LockClone(state)
          [] OTHER -> SubmoduleClone(state)

Recorded(f, seed) ==
    LET state == state_for_seed(f, seed)
    IN  CASE f = BranchRenamed -> BranchRecord(state)
          [] f = ConfigRenamed -> ConfigRecord(state, Pair(Other(seed)))
          [] f = DirtyTree -> DirtyRecord(state, Other(seed))
          [] f = Diverged -> DivergedRecord(state)
          [] f = LockfileConflict -> LockRecord(state)
          [] OTHER -> SubmoduleRecord(state)

change_surface ==
    <<{App, Readme}, {Ignore, Table, Settings}, {App, Readme, Scratch, ASIDE(Scratch)},
      {App, Readme}, {Lock}, {".gitmodules", Nested}>>

check(f, r, recorded) ==
    CASE f = BranchRenamed -> BranchCheck(r, recorded)
      [] f = ConfigRenamed -> ConfigCheck(r, recorded)
      [] f = DirtyTree -> DirtyCheck(r, recorded)
      [] f = Diverged -> DivergedCheck(r, recorded)
      [] f = LockfileConflict -> LockCheck(r, recorded)
      [] OTHER -> SubmoduleCheck(r, recorded)

(* recorded_state_intact: what was committed stays inside the surface.      *)
(* Nothing modelled pushes to upstream or makes the clone anew.             *)
recorded_state_intact(f, r) == Changed(BaseTree, r.head.tree) \subseteq change_surface[f]

(* tasks.spec's grade of a resolved clone: the check, and the intact state. *)
Graded(f, seed, r) == check(f, r, Recorded(f, seed)) /\ recorded_state_intact(f, r)

=============================================================================
