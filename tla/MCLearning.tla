----------------------------- MODULE MCLearning -----------------------------
(* One episode over every state of every family; one learner whose solve is *)
(* followed turn by turn; two that share a library.  The programs a model   *)
(* writes are gold ones and what it may get wrong in them.                  *)
EXTENDS Learning

MCVariants == UNION {declared_variants[f] : f \in FAULTS}

MCDeclared == [f \in FAULTS |-> declared_variants[f]]

MCStateOf == [f \in FAULTS |-> [seed \in SeedRange |-> state_for_seed(f, seed)]]

MCClaimed == [f \in FAULTS |-> [seed \in SeedRange |-> variant_for_seed(f, seed)]]

Observed == [b \in [fault : FAULTS, seed : SeedRange] |-> observe(InjectedClone(b.fault, b.seed))]

MCLabel == [f \in FAULTS |-> [b \in DOMAIN Observed |-> correct_variant(f, Observed[b])]]

MCAcceptable == [f \in FAULTS |-> [b \in DOMAIN Observed |-> acceptable_variants(f, Observed[b])]]

MCGroups == {{"e"}, {"l0"}, {"l1", "l2"}}

(* The fourth seed adds an untracked file beside dirty_tree's edit.         *)
MCTasks ==
    [s \in Sessions |->
        IF s = "e" THEN {b \in [fault : FAULTS, seed : SeedRange] :
                            b.seed < 3 \/ (b.fault = DirtyTree /\ b.seed = 3)}
        ELSE IF s = "l0" THEN {[fault |-> SubmoduleMoved, seed |-> 2]}
        ELSE {[fault |-> LockfileConflict, seed |-> 2]}]

Gold(f, v) ==
    [fault |-> f, variant |-> v, body |-> v, pres |-> GoldPreconditions(f, v),
     breaks |-> "never", unguarded |-> FALSE]

Lacking(t, names) == [t EXCEPT !.pres = @ \ names]

GoldTexts == UNION {{Gold(f, v) : v \in declared_variants[f]} : f \in FAULTS}

FlawedTexts ==
    {Lacking(Gold(LockfileConflict, "keep_local"),
             {"local_side_removed_something", "upstream_removed_nothing"}),
     Lacking(Gold(LockfileConflict, "keep_local"), {"upstream_removed_nothing"}),
     Lacking(Gold(LockfileConflict, "take_upstream"), {"local_side_removed_nothing"}),
     Lacking(Gold(LockfileConflict, "take_upstream"), {"conflict_is_one_dependency_file"}),
     [Gold(LockfileConflict, "take_upstream") EXCEPT !.variant = "keep_local"],
     Lacking(Gold(DirtyTree, "stash"), InWork),
     Lacking(Gold(DirtyTree, "commit"), {"edits_touch_an_upstream_file"}),
     Lacking(Gold(Diverged, "rebase"), {"files_disjoint"}),
     Lacking(Gold(Diverged, "merge"), Synced \cup {"local_work_beyond_the_overlap"}),
     [Gold(Diverged, "discard") EXCEPT !.pres = {"has_local_only_commits"}],
     [Gold(Diverged, "discard") EXCEPT !.pres = {}],
     [Gold(BranchRenamed, "merge") EXCEPT !.breaks = "has_uncommitted_work"],
     [Gold(BranchRenamed, "rename") EXCEPT !.breaks = "always"],
     [Gold(ConfigRenamed, "rename") EXCEPT !.variant = None],
     [Gold(SubmoduleMoved, "init") EXCEPT !.unguarded = TRUE]}

MCTexts == GoldTexts \cup FlawedTexts

=============================================================================
