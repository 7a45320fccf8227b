------------------------ MODULE Resolutions_proofs ------------------------
(***************************************************************************)
(* Theorems about the six measured families, for every seed: which         *)
(* resolutions run to their end and pass a fault's checker in each state   *)
(* its injector makes, that these are the ones its intent's rules accept   *)
(* of what they observe, and that a precondition cannot tell two seeds of  *)
(* one state apart.                                                        *)
(*                                                                         *)
(* A family's part goes: the clone its injector makes, as a predicate of   *)
(* one (BranchState, DirtyState ...); what each gold body leaves of it;    *)
(* and what the checker and recorded_state_intact say of that.             *)
(***************************************************************************)
EXTENDS Resolutions, FiniteSetTheorems, TLAPS

(* A clone has the fields of one, whatever they hold.                       *)
IsClone(r) ==
    r = [base |-> r.base, head |-> r.head, up |-> r.up, work |-> r.work, ignored |-> r.ignored,
         stash |-> r.stash, unmerged |-> r.unmerged, branch |-> r.branch, others |-> r.others,
         tracks |-> r.tracks, default |-> r.default, remote |-> r.remote,
         fetched |-> r.fetched, initialised |-> r.initialised, ok |-> r.ok]

NoDefault == ""

(* No command of the body has failed.                                       *)
Fine(r) == r.ok

(* Fine is read off one field, a truth value Zenon keeps track of.          *)
LEMMA FineIs == ASSUME NEW r, NEW q, q.ok = r.ok  PROVE Fine(q) <=> Fine(r)
BY Zenon DEF Fine

(* A fresh clone: checked out at its tip, on main, nothing stashed or       *)
(* stopped.                                                                 *)
LEMMA CloneWorks ==
    ASSUME NEW base, NEW head, NEW up, NEW more, NEW r, r = Clone(base, head, up, more)
    PROVE  r.work = head.tree \cup more
BY DEF Clone

LEMMA CloneIs ==
    ASSUME NEW base, NEW head, NEW up, NEW more, NEW r, r = Clone(base, head, up, more)
    PROVE  /\ IsClone(r)
           /\ r.base = base /\ r.head = head /\ r.up = up
           /\ r.ignored = {} /\ r.stash = <<>> /\ r.unmerged = {} /\ r.branch = "main"
           /\ r.others = {} /\ r.tracks = "main" /\ r.remote = {"main"} /\ r.fetched = {"main"}
BY DEF Clone, IsClone

LEMMA CloneIsFresh ==
    ASSUME NEW base, NEW head, NEW up, NEW more, NEW r, r = Clone(base, head, up, more)
    PROVE  r.default = NoDefault /\ ~r.initialised /\ Fine(r)
<1>1. r.default = NoDefault
  BY DEF Clone, NoDefault
<1>2. ~r.initialised
  BY DEF Clone
<1>3. Fine(r)
  BY DEF Clone, Fine
<1> QED
  BY <1>1, <1>2, <1>3, Zenon

LEMMA CleanCloneIs ==
    ASSUME NEW base, NEW head, NEW up, NEW r, r = Clone(base, head, up, {})
    PROVE  /\ IsClone(r)
           /\ r.base = base /\ r.head = head /\ r.up = up /\ r.work = head.tree
           /\ r.ignored = {} /\ r.stash = <<>> /\ r.unmerged = {} /\ r.branch = "main"
           /\ r.others = {} /\ r.tracks = "main" /\ r.remote = {"main"} /\ r.fetched = {"main"}
<1>1. r.work = head.tree
  BY DEF Clone
<1>2. /\ IsClone(r)
      /\ r.base = base /\ r.head = head /\ r.up = up
      /\ r.ignored = {} /\ r.stash = <<>> /\ r.unmerged = {} /\ r.branch = "main"
      /\ r.others = {} /\ r.tracks = "main" /\ r.remote = {"main"} /\ r.fetched = {"main"}
  BY DEF Clone, IsClone
<1> QED
  BY <1>1, <1>2

(* What records hold, for the provers.                                      *)
LEMMA TipIs ==
    ASSUME NEW commits, NEW tree
    PROVE  Tip(commits, tree).commits = commits /\ Tip(commits, tree).tree = tree
BY DEF Tip

LEMMA LineIs ==
    ASSUME NEW f, NEW a, NEW k, NEW v
    PROVE  /\ Line(f, a, k, v).file = f /\ Line(f, a, k, v).at = a
           /\ Line(f, a, k, v).key = k /\ Line(f, a, k, v).value = v
BY DEF Line

(* Ahead and Behind count: what a count says of its set.                    *)
LEMMA CountIs ==
    ASSUME NEW S, IsFiniteSet(S)
    PROVE  /\ Cardinality(S) \in Nat
           /\ Cardinality(S) > 0 <=> S # {}
           /\ Cardinality(S) = 0 <=> S = {}
BY FS_EmptySet, FS_CardinalityType

(* Files, Changed and Merged of trees that grew from a common one.          *)
LEMMA FilesIs ==
    ASSUME NEW S, NEW T
    PROVE  /\ Files(S \cup T) = Files(S) \cup Files(T)
           /\ \A l : Files({l}) = {l.file}
           /\ \A l \in S : l.file \in Files(S)
           /\ \A f \in Files(S) : \E l \in S : l.file = f
           /\ Files({}) = {}
BY DEF Files

LEMMA ChangedIs ==
    ASSUME NEW S, NEW T
    PROVE  /\ Changed(S, S) = {}
           /\ Changed(S, S \cup T) = Files(T \ S)
<1>1. (S \ S) \cup (S \ S) = {}
  OBVIOUS
<1>2. (S \ (S \cup T)) \cup ((S \cup T) \ S) = T \ S
  OBVIOUS
<1> QED
  BY <1>1, <1>2 DEF Changed, Files

LEMMA MergedIs ==
    ASSUME NEW B, NEW O, NEW T
    PROVE  /\ Merged(B, B \cup O, B \cup T) = B \cup O \cup T
           /\ Merged(B, B, B \cup T) = B \cup T
           /\ Merged(B, B \cup O, B \cup O) = B \cup O
BY DEF Merged

(* Two sides that grew a tree at different places do not conflict.          *)
Apart(O, T) == \A o \in O, t \in T : o.file # t.file \/ o.at # t.at

LEMMA ApartMerges ==
    ASSUME NEW B, NEW O, NEW T, Apart(O, T)
    PROVE  Conflicted(B, B \cup O, B \cup T) = {}
<1> SUFFICES ASSUME NEW f, ConflictsIn(B, B \cup O, B \cup T, f) PROVE FALSE
  BY DEF Conflicted
<1>1. PICK l \in B \cup (B \cup O) \cup (B \cup T) :
         /\ Place(B \cup O, f, l.at) # Place(B, f, l.at)
         /\ Place(B \cup T, f, l.at) # Place(B, f, l.at)
  BY DEF ConflictsIn
<1>2. \E o \in O : o.file = f /\ o.at = l.at
  BY <1>1 DEF Place
<1>3. \E t \in T : t.file = f /\ t.at = l.at
  BY <1>1 DEF Place
<1> QED
  BY <1>2, <1>3 DEF Apart

-----------------------------------------------------------------------------

(* A clone x that a command left of r: at a tip, with a working tree, and   *)
(* as it was otherwise.                                                     *)
Leaves(x, r, tip, work) ==
    /\ IsClone(x)
    /\ x.head = tip /\ x.work = work
    /\ x.base = r.base /\ x.up = r.up /\ x.ignored = r.ignored /\ x.stash = r.stash
    /\ x.unmerged = r.unmerged /\ x.branch = r.branch /\ x.others = r.others
    /\ x.tracks = r.tracks /\ x.default = r.default /\ x.remote = r.remote
    /\ x.fetched = r.fetched /\ x.initialised = r.initialised /\ x.ok = r.ok

(* Moving the tip and the working tree leaves the rest of a clone.          *)
LEMMA HeadSet ==
    ASSUME NEW r, IsClone(r), NEW tip, NEW work, NEW x, x = [r EXCEPT !.head = tip, !.work = work]
    PROVE  Leaves(x, r, tip, work)
BY DEF IsClone, Leaves

LEMMA FailedIs == ASSUME NEW r, IsClone(r)  PROVE IsClone(Failed(r)) /\ ~Fine(Failed(r))
<1>1. ASSUME NEW ok PROVE IsClone([r EXCEPT !.ok = ok]) /\ [r EXCEPT !.ok = ok].ok = ok
  BY DEF IsClone
<1>2. IsClone(Failed(r))
  BY <1>1 DEF Failed
<1>3. ~Fine(Failed(r))
  BY DEF Failed, IsClone, Fine
<1> QED
  BY <1>2, <1>3

(* A clean clone moves to another tip, and its working tree with it.        *)
LEMMA AdvanceIs ==
    ASSUME NEW r, NEW tip, IsClone(r), r.work = r.head.tree
    PROVE  Leaves(Advance(r, tip), r, tip, tip.tree)
<1>1. Merged(r.head.tree, r.work, tip.tree) = tip.tree
  BY DEF Merged
<1> QED
  BY <1>1, HeadSet DEF Advance

LEMMA CleanIs ==
    ASSUME NEW r, r.work = r.head.tree
    PROVE  /\ Untracked(r) = {} /\ Collisions(r) = {} /\ DirtyFiles(r) = {}
           /\ ~InTheWay(r) /\ ~Dirty(r)
<1>1. DirtyFiles(r) = {}
  BY ChangedIs DEF DirtyFiles
<1>2. Untracked(r) = {}
  BY DEF Untracked
<1> QED
  BY <1>1, <1>2 DEF Collisions, InTheWay, Dirty

(* Only upstream has commits: fast-forward and merge both end at its tip.   *)
LEMMA FastForwards ==
    ASSUME NEW r, IsClone(r), r.work = r.head.tree, r.unmerged = {}, ~TipContained(r),
           Behind(r) = 0
    PROVE  /\ Leaves(FastForward(r), r, r.up, r.up.tree)
           /\ Leaves(MergeUpstream(r), r, r.up, r.up.tree)
<1>1. ~(Behind(r) > 0)
  OBVIOUS
<1>2. FastForward(r) = Advance(r, r.up)
  BY <1>1, CleanIs DEF FastForward
<1>3. MergeUpstream(r) = FastForward(r)
  BY DEF MergeUpstream
<1> QED
  BY <1>2, <1>3, AdvanceIs

(* Both sides have commits: merge and rebase go through, fast-forward fails.*)
LEMMA BothSidesMerge ==
    ASSUME NEW r, IsClone(r), r.work = r.head.tree, r.unmerged = {}, ~TipContained(r),
           Behind(r) \in Nat, Behind(r) > 0, Conflicted(r.base, r.head.tree, r.up.tree) = {}
    PROVE  LET tree == Merged(r.base, r.head.tree, r.up.tree)
           IN  /\ Leaves(MergeUpstream(r), r,
                         Tip(r.head.commits \cup r.up.commits \cup {"merge"}, tree), tree)
               /\ Leaves(Rebase(r), r, Tip(r.up.commits \cup {"rebased"}, tree), tree)
               /\ FastForward(r) = Failed(r)
<1> DEFINE tree == Merged(r.base, r.head.tree, r.up.tree)
<1>1. Behind(r) # 0
  OBVIOUS
<1>2. MergeUpstream(r) = Advance(r, Tip(r.head.commits \cup r.up.commits \cup {"merge"}, tree))
  BY <1>1, CleanIs DEF MergeUpstream, Tip
<1>3. Rebase(r) = Advance(r, Tip(r.up.commits \cup {"rebased"}, tree))
  BY CleanIs DEF Rebase, Tip
<1>4. FastForward(r) = Failed(r)
  BY DEF FastForward
<1> QED
  BY <1>2, <1>3, <1>4, AdvanceIs, TipIs

(* A hard reset of a clean clone ends at upstream's tip.                    *)
LEMMA ResetSet ==
    ASSUME NEW r, IsClone(r), NEW tip, NEW work, NEW x,
           x = [r EXCEPT !.head = tip, !.unmerged = {}, !.work = work]
    PROVE  r.unmerged = {} => Leaves(x, r, tip, work)
BY DEF IsClone, Leaves

LEMMA ResetHardIs ==
    ASSUME NEW r, IsClone(r), r.work = r.head.tree, r.unmerged = {}
    PROVE  Leaves(ResetHard(r), r, r.up, r.up.tree)
<1> DEFINE kept == {l \in r.work : l.file \notin Files(r.head.tree) /\ l.file \notin Files(r.up.tree)}
<1>1. \A l \in r.work : l.file \in Files(r.head.tree)
  BY FilesIs
<1>2. kept = {}
  BY <1>1
<1>3. r.up.tree \cup kept = r.up.tree
  BY <1>2
<1> QED
  BY <1>3, ResetSet DEF ResetHard

-----------------------------------------------------------------------------
(* The lines and tips the injectors use.                                    *)

LEMMA BaseLines ==
    /\ \A l \in BaseTree : l.at = "body" /\ l.file \in {App, Readme}
    /\ Files(BaseTree) = {App, Readme}
    /\ TheirTop.file = App /\ TheirTop.at = "top"
    /\ OurNote.file = Readme /\ OurNote.at = "end"
    /\ App # Readme
    /\ TheirTop \notin BaseTree /\ OurNote \notin BaseTree /\ TheirTop # OurNote
<1> DEFINE a == Line(App, "body", "code", "")
           b == Line(Readme, "body", "text", "")
<1>1. App # Readme
  BY DEF App, Readme
<1>2. a.file = App /\ a.at = "body" /\ b.file = Readme /\ b.at = "body"
  BY DEF Line, App, Readme
<1>3. BaseTree = {a, b}
  BY DEF BaseTree
<1> HIDE DEF a, b
<1>4. \A l \in BaseTree : l.at = "body" /\ l.file \in {App, Readme}
  BY <1>2, <1>3
<1>5. Files(BaseTree) = {App, Readme}
  BY <1>2, <1>3 DEF Files
<1>6. TheirTop.file = App /\ TheirTop.at = "top" /\ OurNote.file = Readme /\ OurNote.at = "end"
  BY DEF TheirTop, OurNote, Line, App, Readme
<1> QED
  BY <1>1, <1>4, <1>5, <1>6

Ours == {"base", "ours"}
Theirs == {"base", "theirs"}

(* How far a clone at the base, or one with its own commit, is behind.      *)
LEMMA CommitsAre ==
    ASSUME NEW r, r.up.commits = Theirs
    PROVE  /\ r.head.commits = {"base"} => ~TipContained(r) /\ Behind(r) = 0 /\ Ahead(r) > 0
           /\ r.head.commits = Ours => /\ ~TipContained(r) /\ Ahead(r) > 0
                                        /\ Behind(r) \in Nat /\ Behind(r) > 0
<1>1. ASSUME r.head.commits = {"base"} PROVE ~TipContained(r) /\ Behind(r) = 0 /\ Ahead(r) > 0
  <2>1. r.up.commits \ r.head.commits = {"theirs"} /\ r.head.commits \ r.up.commits = {}
    BY <1>1 DEF Theirs
  <2>2. IsFiniteSet({"theirs"}) /\ IsFiniteSet({})
    BY FS_Singleton, FS_EmptySet
  <2> QED
    BY <2>1, <2>2, CountIs DEF TipContained, Behind, Ahead
<1>2. ASSUME r.head.commits = Ours
      PROVE  ~TipContained(r) /\ Ahead(r) > 0 /\ Behind(r) \in Nat /\ Behind(r) > 0
  <2>1. r.up.commits \ r.head.commits = {"theirs"} /\ r.head.commits \ r.up.commits = {"ours"}
    BY <1>2 DEF Theirs, Ours
  <2>2. IsFiniteSet({"theirs"}) /\ IsFiniteSet({"ours"})
    BY FS_Singleton
  <2> QED
    BY <2>1, <2>2, CountIs DEF TipContained, Behind, Ahead
<1> QED
  BY <1>1, <1>2

-----------------------------------------------------------------------------
(* branch_renamed.                                                          *)

Renamed(c, others) ==
    [c EXCEPT !.default = "trunk", !.remote = {"trunk"}, !.fetched = {"main", "trunk"},
              !.others = others]

(* upstream has renamed main to trunk (inject: git branch -m, fetch         *)
(* --prune).                                                                *)
LEMMA RenamedIs ==
    ASSUME NEW c, IsClone(c), NEW others, NEW x, x = Renamed(c, others)
    PROVE  /\ IsClone(x)
           /\ x.base = c.base /\ x.head = c.head /\ x.up = c.up /\ x.work = c.work
           /\ x.unmerged = c.unmerged /\ x.branch = c.branch /\ x.tracks = c.tracks
           /\ x.others = others /\ x.default = "trunk" /\ x.remote = {"trunk"}
           /\ x.fetched = {"main", "trunk"} /\ x.ok = c.ok
BY DEF IsClone, Renamed

(* The clone of a state of branch_renamed.                                   *)
BranchState(state, r) ==
    /\ IsClone(r)
    /\ r.base = BaseTree
    /\ r.head = IF state = "local_work" THEN Tip(Ours, BaseTree \cup {OurNote}) ELSE BaseTip
    /\ r.up = Tip(Theirs, BaseTree \cup {TheirTop})
    /\ r.work = r.head.tree
    /\ r.unmerged = {} /\ r.branch = "main" /\ r.tracks = "main"
    /\ r.others = IF state = "name_taken" THEN {"trunk"} ELSE {}
    /\ r.default = "trunk" /\ r.remote = {"trunk"} /\ r.fetched = {"main", "trunk"}

LEMMA BranchCloneIs ==
    ASSUME NEW state, NEW r, r = BranchClone(state)
    PROVE  BranchState(state, r)
<1> DEFINE ours == IF state = "local_work" THEN Tip(Ours, BaseTree \cup {OurNote}) ELSE BaseTip
           others == IF state = "name_taken" THEN {"trunk"} ELSE {}
           theirs == Tip(Theirs, BaseTree \cup {TheirTop})
           c == Clone(BaseTree, ours, theirs, {})
<1>1. r = Renamed(c, others)
  BY DEF BranchClone, Ours, Theirs, Renamed
<1> HIDE DEF ours, others, theirs
<1>4. /\ IsClone(c) /\ c.base = BaseTree /\ c.head = ours /\ c.up = theirs
      /\ c.work = ours.tree /\ c.unmerged = {} /\ c.branch = "main" /\ c.tracks = "main"
  BY CleanCloneIs
<1> HIDE DEF c
<1>6. /\ IsClone(r)
      /\ r.base = c.base /\ r.head = c.head /\ r.up = c.up /\ r.work = c.work
      /\ r.unmerged = c.unmerged /\ r.branch = c.branch /\ r.tracks = c.tracks
      /\ r.others = others /\ r.default = "trunk" /\ r.remote = {"trunk"}
      /\ r.fetched = {"main", "trunk"} /\ r.ok = c.ok
  BY <1>1, <1>4, RenamedIs
<1> QED
  BY <1>4, <1>6 DEF ours, others, theirs, BranchState

LEMMA BranchCloneIsFine ==
    ASSUME NEW state, NEW r, r = BranchClone(state)
    PROVE  Fine(r)
<1> DEFINE ours == IF state = "local_work" THEN Tip(Ours, BaseTree \cup {OurNote}) ELSE BaseTip
           others == IF state = "name_taken" THEN {"trunk"} ELSE {}
           theirs == Tip(Theirs, BaseTree \cup {TheirTop})
           c == Clone(BaseTree, ours, theirs, {})
<1>1. r = Renamed(c, others)
  BY DEF BranchClone, Ours, Theirs, Renamed
<1> HIDE DEF ours, others, theirs
<1>2. Fine(c)
  BY CloneIsFresh
<1>4. IsClone(c)
  BY CleanCloneIs
<1> HIDE DEF c
<1>6. r.ok = c.ok
  BY <1>1, <1>4, RenamedIs
<1> QED
  BY <1>2, <1>6, FineIs

(* The two commands of its bodies that look at names.                       *)
LEMMA SetUpstreamIs ==
    ASSUME NEW r, IsClone(r), r.default = "trunk", r.fetched = {"main", "trunk"},
           NEW x, x = SetUpstreamHere(r)
    PROVE  /\ IsClone(x)
           /\ x.base = r.base /\ x.head = r.head /\ x.up = r.up /\ x.work = r.work
           /\ x.unmerged = r.unmerged /\ x.others = r.others /\ x.tracks = "trunk"
           /\ x.default = r.default /\ x.remote = r.remote /\ x.fetched = r.fetched
           /\ x.ok = r.ok
<1>1. x = [r EXCEPT !.tracks = "trunk"]
  BY DEF SetUpstreamHere, SetUpstream, UpstreamBranch
<1> QED
  BY <1>1 DEF IsClone

LEMMA RenameHereIs ==
    ASSUME NEW r, IsClone(r), r.default = "trunk", NEW x, x = RenameHere(r)
    PROVE  /\ "trunk" \in r.others => ~Fine(x)
           /\ "trunk" \notin r.others =>
                  /\ IsClone(x)
                  /\ x.base = r.base /\ x.head = r.head /\ x.up = r.up /\ x.work = r.work
                  /\ x.unmerged = r.unmerged /\ x.others = r.others
                  /\ x.default = r.default /\ x.remote = r.remote /\ x.fetched = r.fetched
                  /\ x.ok = r.ok
<1>1. ASSUME "trunk" \in r.others PROVE ~Fine(x)
  <2>1. x = Failed(r)
    BY <1>1 DEF RenameHere, RenameBranch, UpstreamBranch
  <2> QED
    BY <2>1, FailedIs
<1>2. ASSUME "trunk" \notin r.others
      PROVE  /\ IsClone(x)
             /\ x.base = r.base /\ x.head = r.head /\ x.up = r.up /\ x.work = r.work
             /\ x.unmerged = r.unmerged /\ x.others = r.others
             /\ x.default = r.default /\ x.remote = r.remote /\ x.fetched = r.fetched
             /\ x.ok = r.ok
  <2>1. x = [r EXCEPT !.branch = "trunk"]
    BY <1>2 DEF RenameHere, RenameBranch, UpstreamBranch
  <2> QED
    BY <2>1 DEF IsClone
<1> QED
  BY <1>1, <1>2

(* Each body is its commands in order; a failed one ends it (set -e).       *)
LEMMA BranchBodies ==
    ASSUME NEW r, Fine(r)
    PROVE  /\ ~Fine(RenameHere(r)) => Body(BranchRenamed, "rename", r) = RenameHere(r)
           /\ Fine(RenameHere(r)) /\ Fine(SetUpstreamHere(RenameHere(r))) =>
                  Body(BranchRenamed, "rename", r)
                      = FastForward(SetUpstreamHere(RenameHere(r)))
           /\ Fine(SetUpstreamHere(r)) =>
                  /\ Body(BranchRenamed, "retrack", r) = FastForward(SetUpstreamHere(r))
                  /\ Body(BranchRenamed, "merge", r) = MergeUpstream(SetUpstreamHere(r))
<1>1. ASSUME ~Fine(RenameHere(r)) PROVE Body(BranchRenamed, "rename", r) = RenameHere(r)
  BY <1>1 DEF Fine, Body, Then, DirtyTree, BranchRenamed, ConfigRenamed, Diverged
<1>2. ASSUME Fine(RenameHere(r)), Fine(SetUpstreamHere(RenameHere(r)))
      PROVE  Body(BranchRenamed, "rename", r) = FastForward(SetUpstreamHere(RenameHere(r)))
  BY <1>2 DEF Fine, Body, Then, DirtyTree, BranchRenamed, ConfigRenamed, Diverged
<1>3. ASSUME Fine(SetUpstreamHere(r))
      PROVE  Body(BranchRenamed, "retrack", r) = FastForward(SetUpstreamHere(r))
  BY <1>3 DEF Fine, Body, Then, DirtyTree, BranchRenamed, ConfigRenamed, Diverged
<1>4. ASSUME Fine(SetUpstreamHere(r))
      PROVE  Body(BranchRenamed, "merge", r) = MergeUpstream(SetUpstreamHere(r))
  BY <1>4 DEF Fine, Body, Then, DirtyTree, BranchRenamed, ConfigRenamed, Diverged
<1> QED
  BY <1>1, <1>2, <1>3, <1>4

(* What the injector recorded, and what its check compares.                 *)
LEMMA BranchRecordIs ==
    ASSUME NEW state
    PROVE  /\ BranchRecord(state).kept = IF state = "local_work" THEN {OurNote} ELSE {}
           /\ BranchRecord(state).taken <=> state = "name_taken"
<1>1. BranchRecord(state).kept = IF state = "local_work" THEN {OurNote} ELSE {}
  BY DEF BranchRecord, Unrecorded
<1>2. BranchRecord(state).taken <=> state = "name_taken"
  BY DEF BranchRecord, Unrecorded
<1> QED
  BY <1>1, <1>2

(* The files each intent allows a resolution to change.                     *)
LEMMA SurfaceIs ==
    /\ change_surface[BranchRenamed] = {App, Readme}
    /\ change_surface[ConfigRenamed] = {Ignore, Table, Settings}
    /\ change_surface[DirtyTree] = {App, Readme, Scratch, ASIDE(Scratch)}
    /\ change_surface[Diverged] = {App, Readme}
    /\ change_surface[LockfileConflict] = {Lock}
    /\ change_surface[SubmoduleMoved] = {".gitmodules", Nested}
BY DEF change_surface, BranchRenamed, ConfigRenamed, DirtyTree, Diverged, LockfileConflict,
       SubmoduleMoved

(* The bodies' last command, with no local commit and with one.             *)
LEMMA SyncsAhead ==
    ASSUME NEW r, IsClone(r), r.head = BaseTip, r.up.commits = Theirs, r.work = r.head.tree,
           r.unmerged = {}
    PROVE  /\ Leaves(FastForward(r), r, r.up, r.up.tree)
           /\ Leaves(MergeUpstream(r), r, r.up, r.up.tree)
<1>1. r.head.commits = {"base"}
  BY TipIs DEF BaseTip
<1> QED
  BY <1>1, CommitsAre, FastForwards

LEMMA SyncsBoth ==
    ASSUME NEW r, NEW B, NEW O, NEW T, IsClone(r), r.base = B, r.head.tree = B \cup O,
           r.up.tree = B \cup T, r.work = r.head.tree, r.unmerged = {}, Apart(O, T),
           ~TipContained(r), Behind(r) \in Nat, Behind(r) > 0
    PROVE  /\ Leaves(MergeUpstream(r), r,
                     Tip(r.head.commits \cup r.up.commits \cup {"merge"}, B \cup O \cup T),
                     B \cup O \cup T)
           /\ Leaves(Rebase(r), r, Tip(r.up.commits \cup {"rebased"}, B \cup O \cup T),
                     B \cup O \cup T)
           /\ FastForward(r) = Failed(r)
<1>1. Conflicted(r.base, r.head.tree, r.up.tree) = {}
  BY ApartMerges
<1>2. Merged(r.base, r.head.tree, r.up.tree) = B \cup O \cup T
  BY DEF Merged
<1> QED
  BY <1>1, <1>2, BothSidesMerge

(* A clone with upstream's commits and the user's line passes.              *)
LEMMA BranchGrade ==
    ASSUME NEW state, NEW x, NEW T, x.remote = {"trunk"}, x.up.commits = Theirs,
           Theirs \subseteq x.head.commits, x.head.tree = BaseTree \cup T, x.work = x.head.tree,
           Files(T) \subseteq {App, Readme},
           x.others = IF state = "name_taken" THEN {"trunk"} ELSE {}, x.tracks = "trunk",
           state = "local_work" => OurNote \in T
    PROVE  /\ BranchCheck(x, BranchRecord(state))
           /\ recorded_state_intact(BranchRenamed, x)
<1>1. TipContained(x)
  BY DEF TipContained
<1>2. BranchRecord(state).kept \subseteq x.work
  BY BranchRecordIs
<1>3. BranchRecord(state).taken => "trunk" \in x.others
  BY BranchRecordIs
<1>4. x.tracks \in x.remote
  OBVIOUS
<1>5. Changed(BaseTree, x.head.tree) \subseteq {App, Readme}
  <2>1. Changed(BaseTree, x.head.tree) = Files(T \ BaseTree)
    BY ChangedIs
  <2>2. Files(T \ BaseTree) \subseteq Files(T)
    BY DEF Files
  <2> QED
    BY <2>1, <2>2
<1> QED
  BY <1>1, <1>2, <1>3, <1>4, <1>5, SurfaceIs DEF BranchCheck, recorded_state_intact

(* rename fails on a taken name or a local commit, retrack on a local       *)
(* commit.                                                                  *)
LEMMA BranchPassing ==
    ASSUME NEW state \in {"plain", "local_work", "name_taken"}, NEW r, r = BranchClone(state)
    PROVE  /\ Fine(Body(BranchRenamed, "rename", r)) <=> state = "plain"
           /\ Fine(Body(BranchRenamed, "retrack", r)) <=> state # "local_work"
           /\ Fine(Body(BranchRenamed, "merge", r))
           /\ \A v \in {"rename", "retrack", "merge"} :
                  LET x == Body(BranchRenamed, v, r)
                  IN  Fine(x) => /\ BranchCheck(x, BranchRecord(state))
                              /\ recorded_state_intact(BranchRenamed, x)
<1>0. BranchState(state, r)
  BY BranchCloneIs
<1>1. /\ IsClone(r)
      /\ r.base = BaseTree /\ r.up = Tip(Theirs, BaseTree \cup {TheirTop})
      /\ r.head = IF state = "local_work" THEN Tip(Ours, BaseTree \cup {OurNote}) ELSE BaseTip
      /\ r.work = r.head.tree /\ r.unmerged = {}
      /\ r.others = IF state = "name_taken" THEN {"trunk"} ELSE {}
      /\ r.default = "trunk" /\ r.remote = {"trunk"} /\ r.fetched = {"main", "trunk"}
  BY <1>0 DEF BranchState
<1>2. Fine(r)
  BY BranchCloneIsFine
<1> DEFINE Here(b) ==
        /\ IsClone(b)
        /\ b.base = BaseTree /\ b.head = r.head /\ b.up = r.up /\ b.work = r.work
        /\ b.unmerged = {} /\ b.others = r.others /\ b.tracks = "trunk"
        /\ b.remote = {"trunk"} /\ b.default = "trunk" /\ b.fetched = {"main", "trunk"}
<1>3. Here(SetUpstreamHere(r)) /\ Fine(SetUpstreamHere(r))
  BY <1>1, <1>2, SetUpstreamIs, FineIs
<1>4. ASSUME "trunk" \notin r.others
      PROVE  /\ Here(SetUpstreamHere(RenameHere(r)))
             /\ Fine(SetUpstreamHere(RenameHere(r)))
             /\ Fine(RenameHere(r))
  <2> DEFINE y == RenameHere(r)
  <2>1. /\ IsClone(y)
        /\ y.base = r.base /\ y.head = r.head /\ y.up = r.up /\ y.work = r.work
        /\ y.unmerged = r.unmerged /\ y.others = r.others
        /\ y.default = r.default /\ y.remote = r.remote /\ y.fetched = r.fetched
        /\ Fine(y)
    BY <1>1, <1>2, <1>4, RenameHereIs, FineIs
  <2> HIDE DEF y
  <2>2. Here(SetUpstreamHere(y)) /\ Fine(SetUpstreamHere(y))
    BY <2>1, <1>1, SetUpstreamIs, FineIs
  <2> QED
    BY <2>1, <2>2 DEF y
<1>5. ASSUME "trunk" \in r.others PROVE ~Fine(RenameHere(r))
  BY <1>1, <1>5, RenameHereIs
<1> DEFINE Good(x) == /\ BranchCheck(x, BranchRecord(state))
                      /\ recorded_state_intact(BranchRenamed, x)
<1>6. ASSUME NEW b, Here(b), NEW x, NEW T, Leaves(x, b, x.head, BaseTree \cup T),
             x.head.tree = BaseTree \cup T, Theirs \subseteq x.head.commits,
             Files(T) \subseteq {App, Readme}, state = "local_work" => OurNote \in T
      PROVE  Good(x)
  <2>1. x.up.commits = Theirs
    BY <1>1, <1>6, TipIs DEF Leaves
  <2>2. x.remote = {"trunk"} /\ x.tracks = "trunk" /\ x.work = x.head.tree
        /\ x.others = IF state = "name_taken" THEN {"trunk"} ELSE {}
    BY <1>1, <1>6 DEF Leaves
  <2> QED
    BY <1>6, <2>1, <2>2, BranchGrade
<1>7. ASSUME NEW b, Here(b), Fine(b), state # "local_work"
      PROVE  /\ Fine(FastForward(b)) /\ Good(FastForward(b))
             /\ Fine(MergeUpstream(b)) /\ Good(MergeUpstream(b))
  <2>1. Leaves(FastForward(b), b, b.up, b.up.tree) /\ Leaves(MergeUpstream(b), b, b.up, b.up.tree)
    BY <1>1, <1>7, SyncsAhead, TipIs
  <2>2. b.up.tree = BaseTree \cup {TheirTop} /\ b.up.commits = Theirs
    BY <1>1, <1>7, TipIs
  <2>3. Files({TheirTop}) \subseteq {App, Readme}
    BY FilesIs, BaseLines
  <2>4. Good(FastForward(b)) /\ Good(MergeUpstream(b))
    BY <1>6, <1>7, <2>1, <2>2, <2>3 DEF Leaves
  <2>6. Fine(FastForward(b)) /\ Fine(MergeUpstream(b))
    BY <2>1, <1>7, FineIs DEF Leaves
  <2> QED
    BY <2>4, <2>6
<1>8. ASSUME NEW b, Here(b), Fine(b), state = "local_work"
      PROVE  ~Fine(FastForward(b)) /\ Fine(MergeUpstream(b)) /\ Good(MergeUpstream(b))
  <2>1. b.head = Tip(Ours, BaseTree \cup {OurNote}) /\ b.up = Tip(Theirs, BaseTree \cup {TheirTop})
    BY <1>1, <1>8
  <2>2. b.head.commits = Ours /\ b.up.commits = Theirs
        /\ b.head.tree = BaseTree \cup {OurNote} /\ b.up.tree = BaseTree \cup {TheirTop}
    BY <2>1, TipIs
  <2>3. Apart({OurNote}, {TheirTop})
    BY BaseLines DEF Apart
  <2> DEFINE O == {OurNote}
             T == {TheirTop}
             all == BaseTree \cup O \cup T
             x == MergeUpstream(b)
  <2>4. /\ Leaves(x, b, Tip(b.head.commits \cup b.up.commits \cup {"merge"}, all), all)
        /\ FastForward(b) = Failed(b)
    <3>1. ~TipContained(b) /\ Behind(b) \in Nat /\ Behind(b) > 0
      BY <2>2, CommitsAre
    <3>2. b.head.tree = BaseTree \cup O /\ b.up.tree = BaseTree \cup T /\ Apart(O, T)
      BY <2>2, <2>3
    <3>3. IsClone(b) /\ b.base = BaseTree /\ b.work = b.head.tree /\ b.unmerged = {}
      BY <1>1, <1>8
    <3> HIDE DEF O, T
    <3> QED
      BY <3>1, <3>2, <3>3, SyncsBoth
  <2>5. ~Fine(FastForward(b))
    BY <2>4, <1>8, FailedIs
  <2>6. x.head.tree = all /\ x.head.commits = b.head.commits \cup b.up.commits \cup {"merge"}
        /\ x.work = all
    BY <2>4, TipIs DEF Leaves
  <2>7. all = BaseTree \cup {OurNote, TheirTop}
    OBVIOUS
  <2>8. Files({OurNote, TheirTop}) \subseteq {App, Readme}
    BY BaseLines DEF Files
  <2>9. Good(x)
    BY <1>6, <1>8, <2>2, <2>4, <2>6, <2>7, <2>8 DEF Leaves
  <2>10. Fine(x)
    BY <2>4, <1>8, FineIs DEF Leaves
  <2> QED
    BY <2>5, <2>9, <2>10
<1>9. "trunk" \in r.others <=> state = "name_taken"
  BY <1>1
<1> HIDE DEF Good
<1>10. /\ Body(BranchRenamed, "retrack", r) = FastForward(SetUpstreamHere(r))
       /\ Body(BranchRenamed, "merge", r) = MergeUpstream(SetUpstreamHere(r))
  BY <1>2, <1>3, BranchBodies
<1>11. ASSUME "trunk" \notin r.others
       PROVE  Body(BranchRenamed, "rename", r) = FastForward(SetUpstreamHere(RenameHere(r)))
  BY <1>2, <1>4, <1>11, BranchBodies
<1>12. ASSUME "trunk" \in r.others PROVE ~Fine(Body(BranchRenamed, "rename", r))
  BY <1>2, <1>5, <1>12, BranchBodies
<1> HIDE DEF Here
<1>13. CASE state = "local_work"
  <2>1. ~Fine(Body(BranchRenamed, "rename", r))
    BY <1>4, <1>8, <1>11, <1>12, <1>13
  <2> QED
    BY <1>3, <1>8, <1>10, <1>13, <2>1 DEF Good
<1>14. CASE state = "plain"
  <2>1. "trunk" \notin r.others
    BY <1>9, <1>14
  <2>2. Fine(Body(BranchRenamed, "rename", r)) /\ Good(Body(BranchRenamed, "rename", r))
    BY <2>1, <1>4, <1>7, <1>11, <1>14
  <2> QED
    BY <1>3, <1>7, <1>10, <1>14, <2>2 DEF Good
<1>15. CASE state = "name_taken"
  <2>1. ~Fine(Body(BranchRenamed, "rename", r))
    BY <1>9, <1>12, <1>15
  <2> QED
    BY <1>3, <1>7, <1>10, <1>15, <2>1 DEF Good
<1> QED
  BY <1>13, <1>14, <1>15

-----------------------------------------------------------------------------
(* diverged.                                                                *)

AppEnd == Line(App, "end", "ours", "")

(* What the local commit of a state adds, apart from upstream's line.       *)
LEMMA OurLines ==
    /\ AppEnd.file = App /\ AppEnd.at = "end"
    /\ AppEnd \notin BaseTree /\ AppEnd # TheirTop /\ AppEnd # OurNote
<1>1. AppEnd.file = App /\ AppEnd.at = "end"
  BY DEF AppEnd, Line, App
<1> QED
  BY <1>1, BaseLines

LEMMA DivergedLinesAre ==
    ASSUME NEW state \in {"empty_local_commits", "disjoint_files", "overlapping_files"},
           NEW O, O = DivergedLines(state)
    PROVE  /\ O \subseteq {OurNote, AppEnd}
           /\ state = "empty_local_commits" => O = {}
           /\ state = "disjoint_files" => O = {OurNote}
           /\ state = "overlapping_files" => O = {OurNote, AppEnd}
BY DEF DivergedLines, AppEnd

LEMMA OursApart ==
    ASSUME NEW O, O \subseteq {OurNote, AppEnd}
    PROVE  /\ Apart(O, {TheirTop})
           /\ O \cap (BaseTree \cup {TheirTop}) = {}
           /\ Files(O) \subseteq {App, Readme}
<1>1. Apart(O, {TheirTop})
  BY BaseLines, OurLines DEF Apart
<1>2. O \cap (BaseTree \cup {TheirTop}) = {}
  BY BaseLines, OurLines
<1>3. Files(O) \subseteq {App, Readme}
  BY BaseLines, OurLines DEF Files
<1> QED
  BY <1>1, <1>2, <1>3

(* The clone of a state of diverged, O the lines of its local commit.       *)
DivergedState(O, r) ==
    /\ IsClone(r)
    /\ r.base = BaseTree
    /\ r.head.commits = Ours /\ r.head.tree = BaseTree \cup O
    /\ r.up.commits = Theirs /\ r.up.tree = BaseTree \cup {TheirTop}
    /\ r.work = r.head.tree
    /\ r.unmerged = {} /\ r.branch = "main" /\ r.tracks = "main" /\ r.others = {}
    /\ r.default = NoDefault

(* The clone, its bodies, and what its check asks.                          *)
LEMMA DivergedCloneIs ==
    ASSUME NEW state, NEW r, r = DivergedClone(state)
    PROVE  DivergedState(DivergedLines(state), r) /\ Fine(r)
<1> DEFINE O == DivergedLines(state)
           ours == Tip(Ours, BaseTree \cup O)
           theirs == Tip(Theirs, BaseTree \cup {TheirTop})
<1>1. r = Clone(BaseTree, ours, theirs, {})
  BY DEF DivergedClone, Ours, Theirs
<1>2. /\ ours.commits = Ours /\ ours.tree = BaseTree \cup O
      /\ theirs.commits = Theirs /\ theirs.tree = BaseTree \cup {TheirTop}
  BY TipIs
<1> HIDE DEF O, ours, theirs
<1>3. /\ IsClone(r) /\ r.base = BaseTree /\ r.head = ours /\ r.up = theirs
      /\ r.work = ours.tree /\ r.unmerged = {} /\ r.branch = "main" /\ r.tracks = "main"
      /\ r.others = {}
  BY <1>1, CleanCloneIs
<1>4. r.default = NoDefault
  BY <1>1, CloneIsFresh
<1>5. Fine(r)
  BY <1>1, CloneIsFresh
<1>6. DivergedState(O, r)
  BY <1>2, <1>3, <1>4 DEF DivergedState
<1> QED
  BY <1>5, <1>6 DEF O

LEMMA DivergedBodies ==
    ASSUME NEW r
    PROVE  /\ Body(Diverged, "discard", r) = ResetHard(r)
           /\ Body(Diverged, "merge", r) = MergeUpstream(r)
           /\ Body(Diverged, "rebase", r) = Rebase(r)
BY DEF Body, BranchRenamed, ConfigRenamed, DirtyTree, Diverged

LEMMA DivergedGrade ==
    ASSUME NEW state, NEW O, O = DivergedLines(state), NEW x, NEW T,
           x.up.commits = Theirs, Theirs \subseteq x.head.commits,
           x.head.tree = BaseTree \cup T, x.work = x.head.tree, Files(T) \subseteq {App, Readme}
    PROVE  /\ DivergedCheck(x, DivergedRecord(state)) <=> O \subseteq BaseTree \cup T
           /\ recorded_state_intact(Diverged, x)
<1>1. TipContained(x)
  BY DEF TipContained
<1>2. DivergedRecord(state).kept = O
  BY DEF DivergedRecord, Unrecorded
<1>3. DivergedCheck(x, DivergedRecord(state)) <=> O \subseteq BaseTree \cup T
  BY <1>1, <1>2 DEF DivergedCheck
<1>5. Changed(BaseTree, x.head.tree) \subseteq {App, Readme}
  <2>1. Changed(BaseTree, x.head.tree) = Files(T \ BaseTree)
    BY ChangedIs
  <2>2. Files(T \ BaseTree) \subseteq Files(T)
    BY DEF Files
  <2> QED
    BY <2>1, <2>2
<1> QED
  BY <1>3, <1>5, SurfaceIs DEF recorded_state_intact

(* Every body ends; discarding passes only where nothing is lost.           *)
LEMMA DivergedPassing ==
    ASSUME NEW state \in {"empty_local_commits", "disjoint_files", "overlapping_files"},
           NEW r, r = DivergedClone(state)
    PROVE  \A v \in {"discard", "merge", "rebase"} :
               LET x == Body(Diverged, v, r)
               IN  /\ Fine(x)
                   /\ recorded_state_intact(Diverged, x)
                   /\ DivergedCheck(x, DivergedRecord(state))
                          <=> v # "discard" \/ state = "empty_local_commits"
<1> DEFINE O == DivergedLines(state)
           T == {TheirTop}
<1>1. DivergedState(O, r) /\ Fine(r)
  BY DivergedCloneIs
<1>2. O \subseteq {OurNote, AppEnd} /\ (O = {} <=> state = "empty_local_commits")
  BY DivergedLinesAre
<1>3. /\ Apart(O, T) /\ O \cap (BaseTree \cup T) = {} /\ Files(O) \subseteq {App, Readme}
      /\ Files(T) \subseteq {App, Readme} /\ Files(O \cup T) \subseteq {App, Readme}
  <2>1. Apart(O, T) /\ O \cap (BaseTree \cup T) = {} /\ Files(O) \subseteq {App, Readme}
    BY <1>2, OursApart
  <2>2. Files(T) \subseteq {App, Readme}
    BY BaseLines DEF Files
  <2> HIDE DEF O, T
  <2>3. Files(O \cup T) = Files(O) \cup Files(T)
    BY FilesIs
  <2> QED
    BY <2>1, <2>2, <2>3
<1> HIDE DEF O, T
<1>4. /\ IsClone(r) /\ r.base = BaseTree /\ r.work = r.head.tree /\ r.unmerged = {}
      /\ r.head.commits = Ours /\ r.head.tree = BaseTree \cup O
      /\ r.up.commits = Theirs /\ r.up.tree = BaseTree \cup T
  BY <1>1 DEF DivergedState, T
<1>5. ~TipContained(r) /\ Behind(r) \in Nat /\ Behind(r) > 0
  BY <1>4, CommitsAre
<1> DEFINE all == BaseTree \cup O \cup T
           mc == r.head.commits \cup r.up.commits \cup {"merge"}
           rc == r.up.commits \cup {"rebased"}
<1>6. Leaves(MergeUpstream(r), r, Tip(mc, all), all) /\ Leaves(Rebase(r), r, Tip(rc, all), all)
  BY <1>3, <1>4, <1>5, SyncsBoth
<1>7. Leaves(ResetHard(r), r, r.up, r.up.tree)
  BY <1>4, ResetHardIs
<1>8. Tip(mc, all).commits = mc /\ Tip(rc, all).commits = rc
      /\ Tip(mc, all).tree = all /\ Tip(rc, all).tree = all
  BY TipIs
<1>9. Theirs \subseteq mc /\ Theirs \subseteq rc /\ all = BaseTree \cup (O \cup T)
  BY <1>4
<1> HIDE DEF all, mc, rc
<1>10. ASSUME NEW x, NEW tip, NEW U, Leaves(x, r, tip, BaseTree \cup U), tip.tree = BaseTree \cup U,
              Theirs \subseteq tip.commits, Files(U) \subseteq {App, Readme}
       PROVE  /\ Fine(x) /\ recorded_state_intact(Diverged, x)
              /\ DivergedCheck(x, DivergedRecord(state)) <=> O \subseteq BaseTree \cup U
  <2>1. x.up.commits = Theirs /\ x.head = tip /\ x.work = BaseTree \cup U /\ x.ok = r.ok
    BY <1>4, <1>10 DEF Leaves
  <2>2. Fine(x)
    BY <1>1, <2>1, FineIs
  <2>3. x.up.commits = Theirs /\ Theirs \subseteq x.head.commits
        /\ x.head.tree = BaseTree \cup U /\ x.work = x.head.tree
    BY <1>10, <2>1
  <2>4. /\ DivergedCheck(x, DivergedRecord(state)) <=> O \subseteq BaseTree \cup U
        /\ recorded_state_intact(Diverged, x)
    BY <1>10, <2>3, DivergedGrade DEF O
  <2> QED
    BY <2>2, <2>4
<1> DEFINE Good(x) == /\ Fine(x) /\ recorded_state_intact(Diverged, x)
                      /\ DivergedCheck(x, DivergedRecord(state))
<1>11. Good(MergeUpstream(r))
  BY <1>3, <1>6, <1>8, <1>9, <1>10
<1>12. Good(Rebase(r))
  BY <1>3, <1>6, <1>8, <1>9, <1>10
<1>13. LET x == ResetHard(r)
       IN  /\ Fine(x) /\ recorded_state_intact(Diverged, x)
           /\ DivergedCheck(x, DivergedRecord(state)) <=> state = "empty_local_commits"
  <2>1. Theirs \subseteq r.up.commits
    BY <1>4
  <2>2. LET x == ResetHard(r)
        IN  /\ Fine(x) /\ recorded_state_intact(Diverged, x)
            /\ DivergedCheck(x, DivergedRecord(state)) <=> O \subseteq BaseTree \cup T
    BY <1>3, <1>4, <1>7, <1>10, <2>1
  <2> QED
    BY <1>2, <1>3, <2>2
<1> QED
  BY <1>11, <1>12, <1>13, DivergedBodies

-----------------------------------------------------------------------------
(* dirty_tree.                                                              *)

LEMMA DirtyBodies ==
    ASSUME NEW r, Fine(r)
    PROVE  /\ Fine(Stash(r)) /\ Fine(FastForward(Stash(r))) =>
                  Body(DirtyTree, "stash", r) = Pop(FastForward(Stash(r)))
           /\ Fine(CommitAll(r)) =>
                  Body(DirtyTree, "commit", r) = MergeUpstream(CommitAll(r))
           /\ LET m == MoveCollisionsAside(r)
              IN  Fine(m) /\ Fine(Stash(m)) /\ Fine(FastForward(Stash(m))) =>
                      Body(DirtyTree, "aside", r) = Pop(FastForward(Stash(m)))
<1>1. ASSUME Fine(Stash(r)), Fine(FastForward(Stash(r)))
      PROVE  Body(DirtyTree, "stash", r) = Pop(FastForward(Stash(r)))
  BY <1>1 DEF Fine, Body, Then, DirtyTree, BranchRenamed, ConfigRenamed, Diverged
<1>2. ASSUME Fine(CommitAll(r))
      PROVE  Body(DirtyTree, "commit", r) = MergeUpstream(CommitAll(r))
  BY <1>2 DEF Fine, Body, Then, DirtyTree, BranchRenamed, ConfigRenamed, Diverged
<1>3. ASSUME NEW m, m = MoveCollisionsAside(r), Fine(m), Fine(Stash(m)),
             Fine(FastForward(Stash(m)))
      PROVE  Body(DirtyTree, "aside", r) = Pop(FastForward(Stash(m)))
  BY <1>3 DEF Fine, Body, Then, DirtyTree, BranchRenamed, ConfigRenamed, Diverged
<1> QED
  BY <1>1, <1>2, <1>3

LEMMA OneStash == ASSUME NEW s PROVE <<s>> \o <<>> # <<>> /\ Head(<<s>> \o <<>>) = s
OBVIOUS

Stashed(r, all, stash) == [r EXCEPT !.stash = all, !.work = stash]

(* git stash -u of uncommitted work, and git stash pop.                     *)
LEMMA StashedIs ==
    ASSUME NEW r, IsClone(r), NEW all, NEW work, NEW x, x = Stashed(r, all, work)
    PROVE  /\ IsClone(x)
           /\ x.base = r.base /\ x.head = r.head /\ x.up = r.up /\ x.work = work
           /\ x.ignored = r.ignored /\ x.unmerged = r.unmerged /\ x.ok = r.ok
           /\ x.stash = all
BY DEF IsClone, Stashed

LEMMA StashIs ==
    ASSUME NEW r, IsClone(r), r.unmerged = {}, Dirty(r), r.ignored = {}, r.stash = <<>>,
           NEW x, x = Stash(r)
    PROVE  /\ IsClone(x)
           /\ x.base = r.base /\ x.head = r.head /\ x.up = r.up /\ x.work = r.head.tree
           /\ x.ignored = {} /\ x.unmerged = {} /\ x.ok = r.ok
           /\ x.stash # <<>>
           /\ Head(x.stash).from = r.head.tree /\ Head(x.stash).work = r.work
<1> DEFINE s == [from |-> r.head.tree, work |-> r.work]
           all == <<s>> \o <<>>
           kept == {l \in r.work : l.file \notin r.ignored}
           stays == r.head.tree \cup {l \in r.work : l.file \in r.ignored}
<1>1. kept = r.work /\ stays = r.head.tree
  OBVIOUS
<1>2. x = Stashed(r, <<[from |-> r.head.tree, work |-> kept]>> \o r.stash, stays)
  BY DEF Stash, Stashed
<1>3. x = Stashed(r, all, r.head.tree)
  <2> HIDE DEF kept, stays
  <2> QED
    BY <1>1, <1>2
<1>4. s.from = r.head.tree /\ s.work = r.work
  OBVIOUS
<1> HIDE DEF s
<1>5. all # <<>> /\ Head(all) = s
  BY OneStash
<1> HIDE DEF all
<1>6. /\ IsClone(x)
      /\ x.base = r.base /\ x.head = r.head /\ x.up = r.up /\ x.work = r.head.tree
      /\ x.ignored = r.ignored /\ x.unmerged = r.unmerged /\ x.ok = r.ok
      /\ x.stash = all
  BY <1>3, StashedIs
<1> QED
  BY <1>4, <1>5, <1>6

LEMMA PopIs ==
    ASSUME NEW r, IsClone(r), r.stash # <<>>, NEW s, s = Head(r.stash)
    PROVE  /\ (Files(s.work) \ Files(s.from)) \cap Files(r.work) # {} => ~Fine(Pop(r))
           /\ (Files(s.work) \ Files(s.from)) \cap Files(r.work) = {}
                  /\ Conflicted(s.from, r.work, s.work) = {} =>
                      LET x == Pop(r)
                      IN  /\ x.work = Merged(s.from, r.work, s.work)
                          /\ x.head = r.head /\ x.up = r.up /\ x.ok = r.ok
<1>1. ASSUME (Files(s.work) \ Files(s.from)) \cap Files(r.work) # {} PROVE ~Fine(Pop(r))
  <2>1. Pop(r) = Failed(r)
    BY <1>1 DEF Pop
  <2> QED
    BY <2>1, FailedIs
<1>2. ASSUME (Files(s.work) \ Files(s.from)) \cap Files(r.work) = {},
             Conflicted(s.from, r.work, s.work) = {},
             NEW x, x = Pop(r)
      PROVE  /\ x.work = Merged(s.from, r.work, s.work)
             /\ x.head = r.head /\ x.up = r.up /\ x.ok = r.ok
  <2>1. x = Stashed(r, Tail(r.stash), Merged(s.from, r.work, s.work))
    BY <1>2 DEF Pop, Stashed
  <2> QED
    BY <2>1, StashedIs
<1> QED
  BY <1>1, <1>2

LEMMA ApartSym == ASSUME NEW O, NEW T, Apart(O, T) PROVE Apart(T, O)
BY DEF Apart

(* Uncommitted lines X beside upstream's T: what git reads of them.         *)
LEMMA UncommittedIs ==
    ASSUME NEW r, NEW X, r.head.tree = BaseTree, r.work = BaseTree \cup X, r.ignored = {},
           X \cap BaseTree = {}
    PROVE  /\ Untracked(r) = Files(X) \ {App, Readme}
           /\ DirtyFiles(r) = Files(X) \cap {App, Readme}
           /\ X # {} => Dirty(r)
<1>1. Files(BaseTree) = {App, Readme}
  BY BaseLines
<1>2. Files(BaseTree \cup X) = {App, Readme} \cup Files(X)
  BY <1>1, FilesIs
<1>3. Untracked(r) = Files(X) \ {App, Readme}
  BY <1>1, <1>2 DEF Untracked
<1>4. Changed(BaseTree, BaseTree \cup X) = Files(X)
  <2>1. X \ BaseTree = X
    OBVIOUS
  <2>2. Changed(BaseTree, BaseTree \cup X) = Files(X \ BaseTree)
    BY ChangedIs
  <2> QED
    BY <2>1, <2>2
<1>5. DirtyFiles(r) = Files(X) \cap {App, Readme}
  BY <1>1, <1>4 DEF DirtyFiles
<1>6. X # {} => Files(X) # {}
  BY DEF Files
<1> QED
  BY <1>3, <1>5, <1>6 DEF Dirty

(* The work stashed, upstream taken and the work put back, if no untracked  *)
(* file of it is one of upstream's.                                         *)
LEMMA StashedAndBack ==
    ASSUME NEW r, NEW X, NEW T, IsClone(r), Fine(r), r.head = BaseTip, r.up.commits = Theirs,
           r.up.tree = BaseTree \cup T, r.work = BaseTree \cup X, X \cap BaseTree = {}, X # {},
           r.ignored = {}, r.stash = <<>>, r.unmerged = {}
    PROVE  LET x == Pop(FastForward(Stash(r)))
               clear == (Files(X) \ {App, Readme}) \cap Files(T) = {}
           IN  /\ Fine(Stash(r)) /\ Fine(FastForward(Stash(r)))
               /\ ~clear => ~Fine(x)
               /\ clear /\ Apart(X, T) =>
                      /\ Fine(x) /\ x.work = BaseTree \cup T \cup X
                      /\ x.head = r.up /\ x.up = r.up
<1> DEFINE a == Stash(r)
           b == FastForward(a)
           x == Pop(b)
           s == Head(b.stash)
           clear == (Files(X) \ {App, Readme}) \cap Files(T) = {}
<1>1. r.head.commits = {"base"} /\ r.head.tree = BaseTree
  BY TipIs DEF BaseTip
<1>2. Dirty(r)
  BY <1>1, UncommittedIs
<1>3. /\ IsClone(a)
      /\ a.base = r.base /\ a.head = r.head /\ a.up = r.up /\ a.work = r.head.tree
      /\ a.ignored = {} /\ a.unmerged = {} /\ a.ok = r.ok
      /\ a.stash # <<>>
      /\ Head(a.stash).from = r.head.tree /\ Head(a.stash).work = r.work
  BY <1>2, StashIs
<1> HIDE DEF a
<1>4. Leaves(b, a, r.up, r.up.tree)
  <2>1. a.head = BaseTip /\ a.up.commits = Theirs /\ a.work = a.head.tree
    BY <1>3
  <2>2. Leaves(b, a, a.up, a.up.tree)
    BY <1>3, <2>1, SyncsAhead
  <2> QED
    BY <1>3, <2>2
<1> HIDE DEF b
<1>5. Fine(a) /\ Fine(b)
  BY <1>3, <1>4, FineIs DEF Leaves
<1>6. /\ IsClone(b) /\ b.stash # <<>> /\ s.from = BaseTree /\ s.work = BaseTree \cup X
      /\ b.work = BaseTree \cup T /\ b.head = r.up /\ b.up = r.up
  BY <1>1, <1>3, <1>4 DEF Leaves
<1> HIDE DEF s
<1>7. (Files(s.work) \ Files(s.from)) \cap Files(b.work) = {} <=> clear
  <2>1. Files(s.from) = {App, Readme}
    BY <1>6, BaseLines
  <2>2. Files(s.work) = {App, Readme} \cup Files(X)
    BY <1>6, BaseLines, FilesIs
  <2>3. Files(b.work) = {App, Readme} \cup Files(T)
    BY <1>6, BaseLines, FilesIs
  <2> QED
    BY <2>1, <2>2, <2>3
<1>8. ASSUME ~clear PROVE ~Fine(x)
  BY <1>6, <1>7, <1>8, PopIs DEF s
<1>9. ASSUME clear, Apart(X, T)
      PROVE  Fine(x) /\ x.work = BaseTree \cup T \cup X /\ x.head = r.up /\ x.up = r.up
  <2>1. Conflicted(s.from, b.work, s.work) = {}
    BY <1>6, <1>9, ApartSym, ApartMerges
  <2>2. Merged(s.from, b.work, s.work) = BaseTree \cup T \cup X
    BY <1>6 DEF Merged
  <2>3. x.work = Merged(s.from, b.work, s.work) /\ x.head = b.head /\ x.up = b.up /\ x.ok = b.ok
    BY <1>6, <1>7, <1>9, <2>1, PopIs DEF s
  <2>4. Fine(x)
    BY <1>5, <2>3, FineIs
  <2> QED
    BY <1>6, <2>2, <2>3, <2>4
<1> QED
  BY <1>5, <1>8, <1>9 DEF a, b

Committed(r, tip) == [r EXCEPT !.unmerged = {}, !.head = tip]

(* git add -A and git commit of the work.                                   *)
LEMMA CommittedIs ==
    ASSUME NEW r, IsClone(r), NEW tip, NEW x, x = Committed(r, tip)
    PROVE  /\ IsClone(x)
           /\ x.base = r.base /\ x.head = tip /\ x.up = r.up /\ x.work = r.work
           /\ x.ignored = r.ignored /\ x.unmerged = {} /\ x.ok = r.ok
           /\ x.initialised = r.initialised
BY DEF IsClone, Committed

(* The work committed, and upstream merged into it.                         *)
LEMMA CommitAllIs ==
    ASSUME NEW r, IsClone(r), r.ignored = {}, r.unmerged = {}, r.work # r.head.tree,
           NEW x, x = CommitAll(r)
    PROVE  /\ IsClone(x)
           /\ x.base = r.base /\ x.up = r.up /\ x.work = r.work
           /\ x.head.commits = r.head.commits \cup {"work"} /\ x.head.tree = r.work
           /\ x.ignored = r.ignored /\ x.unmerged = {} /\ x.ok = r.ok
           /\ x.initialised = r.initialised
<1> DEFINE tree == {l \in r.work : l.file \in Files(r.head.tree) \/ l.file \notin r.ignored}
           more == IF r.unmerged # {} THEN r.up.commits \cup {"merge"} ELSE {}
           tip == [commits |-> r.head.commits \cup {"work"} \cup more, tree |-> tree]
<1>1. tree = r.work
  OBVIOUS
<1>2. r.head.commits \cup {"work"} \cup more = r.head.commits \cup {"work"}
  OBVIOUS
<1>3. ~(tree = r.head.tree /\ r.unmerged = {})
  BY <1>1
<1>4. x = Committed(r, tip)
  BY <1>3 DEF CommitAll, Committed
<1>5. tip.commits = r.head.commits \cup {"work"} \cup more /\ tip.tree = tree
  OBVIOUS
<1> HIDE DEF tip
<1>6. /\ IsClone(x)
      /\ x.base = r.base /\ x.head = tip /\ x.up = r.up /\ x.work = r.work
      /\ x.ignored = r.ignored /\ x.unmerged = {} /\ x.ok = r.ok
      /\ x.initialised = r.initialised
  BY <1>4, CommittedIs
<1> HIDE DEF tree, more
<1> QED
  BY <1>1, <1>2, <1>5, <1>6

NoteTheirs == Line(Scratch, "body", "note", "theirs")

(* The untracked notes of both sides, and the user's uncommitted lines.     *)
LEMMA NotesAre ==
    /\ Scratch \notin {App, Readme}
    /\ ASIDE(Scratch) \notin {App, Readme, Scratch}
    /\ Note(Scratch).file = Scratch /\ Note(Scratch).at = "body"
    /\ NoteTheirs.file = Scratch /\ NoteTheirs.at = "body"
    /\ Note(Scratch) # NoteTheirs
    /\ Note(ASIDE(Scratch)).file = ASIDE(Scratch)
    /\ [Note(Scratch) EXCEPT !.file = ASIDE(Scratch)] = Note(ASIDE(Scratch))
<1>1. Scratch \notin {App, Readme} /\ ASIDE(Scratch) \notin {App, Readme, Scratch}
  BY DEF Scratch, App, Readme, ASIDE
<1>2. Note(Scratch).file = Scratch /\ Note(Scratch).at = "body"
  BY DEF Note, Line
<1>3. NoteTheirs.file = Scratch /\ NoteTheirs.at = "body"
  BY DEF NoteTheirs, Line
<1>4. Note(ASIDE(Scratch)).file = ASIDE(Scratch)
  BY DEF Note, Line
<1>5. Note(Scratch) # NoteTheirs
  <2>1. Note(Scratch).value = "ours" /\ NoteTheirs.value = "theirs"
    BY DEF Note, NoteTheirs, Line
  <2> QED
    BY <2>1
<1>6. [Note(Scratch) EXCEPT !.file = ASIDE(Scratch)] = Note(ASIDE(Scratch))
  BY DEF Note, Line
<1> QED
  BY <1>1, <1>2, <1>3, <1>4, <1>5, <1>6

DirtyStates == {"disjoint", "same_file", "collision"}

LEMMA WorkIs ==
    ASSUME NEW state \in DirtyStates
    PROVE  /\ state = "same_file" => Work(state) = AppEnd
           /\ state # "same_file" => Work(state) = OurNote
           /\ Work(state).at = "end" /\ Work(state).file \in {App, Readme}
           /\ Work(state) \notin BaseTree /\ Work(state) # TheirTop
<1>1. /\ state = "same_file" => Work(state) = AppEnd
      /\ state # "same_file" => Work(state) = OurNote
  BY DEF Work, AppEnd
<1> QED
  BY <1>1, BaseLines, OurLines

(* A state of dirty_tree: X the uncommitted lines, T what upstream added.   *)
DirtyState(r, X, T) ==
    /\ IsClone(r)
    /\ r.base = BaseTree /\ r.head = BaseTip
    /\ r.up.commits = Theirs /\ r.up.tree = BaseTree \cup T
    /\ r.work = BaseTree \cup X
    /\ r.ignored = {} /\ r.stash = <<>> /\ r.unmerged = {} /\ r.branch = "main"
    /\ r.others = {} /\ r.tracks = "main" /\ r.default = NoDefault

Uncommitted(state, other) ==
    {Work(state)} \cup (IF HasUntracked(state, other) THEN {Note(Scratch)} ELSE {})

Upstreams(state) == {TheirTop} \cup (IF state = "collision" THEN {NoteTheirs} ELSE {})

(* The clone and the record of a state, and what its check asks.            *)
LEMMA DirtyCloneIs ==
    ASSUME NEW state, NEW other, NEW r, r = DirtyClone(state, other)
    PROVE  DirtyState(r, Uncommitted(state, other), Upstreams(state)) /\ Fine(r)
<1> DEFINE X == Uncommitted(state, other)
           T == Upstreams(state)
           C == IF state = "collision" THEN {Line(Scratch, "body", "note", "theirs")} ELSE {}
           theirs == Tip(Theirs, BaseTree \cup {TheirTop} \cup C)
<1>1. r = Clone(BaseTree, BaseTip, theirs, X)
  BY DEF DirtyClone, Theirs, Uncommitted
<1>2. BaseTree \cup {TheirTop} \cup C = BaseTree \cup T
  BY DEF Upstreams, NoteTheirs
<1>3. theirs.commits = Theirs /\ theirs.tree = BaseTree \cup T
  BY <1>2, TipIs
<1> HIDE DEF X, T, C, theirs
<1>4. BaseTip.tree = BaseTree
  BY TipIs DEF BaseTip
<1>5. /\ IsClone(r)
      /\ r.base = BaseTree /\ r.head = BaseTip /\ r.up = theirs /\ r.work = BaseTree \cup X
      /\ r.ignored = {} /\ r.stash = <<>> /\ r.unmerged = {} /\ r.branch = "main"
      /\ r.others = {} /\ r.tracks = "main"
  <2>1. r.work = BaseTip.tree \cup X
    BY <1>1, CloneWorks
  <2>2. /\ IsClone(r)
        /\ r.base = BaseTree /\ r.head = BaseTip /\ r.up = theirs
        /\ r.ignored = {} /\ r.stash = <<>> /\ r.unmerged = {} /\ r.branch = "main"
        /\ r.others = {} /\ r.tracks = "main"
    BY <1>1, CloneIs
  <2> QED
    BY <1>4, <2>1, <2>2
<1>6. r.default = NoDefault
  BY <1>1, CloneIsFresh
<1>7. Fine(r)
  BY <1>1, CloneIsFresh
<1>8. DirtyState(r, X, T)
  BY <1>3, <1>5, <1>6 DEF DirtyState
<1> QED
  BY <1>7, <1>8 DEF X, T

LEMMA DirtyLinesAre ==
    ASSUME NEW state \in DirtyStates, NEW other,
           NEW X, X = Uncommitted(state, other), NEW T, T = Upstreams(state)
    PROVE  /\ X \cap BaseTree = {} /\ X # {} /\ Work(state) \in X
           /\ \A l \in X : l = Work(state) \/ l = Note(Scratch)
           /\ \A l \in T : l = TheirTop \/ (state = "collision" /\ l = NoteTheirs)
           /\ TheirTop \in T /\ (state = "collision" <=> NoteTheirs \in T)
           /\ state = "collision" => Note(Scratch) \in X
<1>1. Note(Scratch) \notin BaseTree
  BY NotesAre, BaseLines
<1>2. Work(state) \notin BaseTree
  BY WorkIs
<1>3. NoteTheirs # TheirTop
  BY NotesAre, BaseLines
<1> QED
  BY <1>1, <1>2, <1>3 DEF Uncommitted, Upstreams, HasUntracked

LEMMA DirtyRecordIs ==
    ASSUME NEW state, NEW other, NEW d, d = DirtyRecord(state, other)
    PROVE  /\ d.kept = {Work(state)}
           /\ d.untracked = IF HasUntracked(state, other) THEN {Note(Scratch)} ELSE {}
           /\ d.collision <=> state = "collision"
<1>1. d.kept = {Work(state)}
  BY DEF DirtyRecord, Unrecorded
<1>2. d.untracked = IF HasUntracked(state, other) THEN {Note(Scratch)} ELSE {}
  BY DEF DirtyRecord, Unrecorded
<1>3. d.collision <=> state = "collision"
  BY DEF DirtyRecord, Unrecorded
<1> QED
  BY <1>1, <1>2, <1>3

LEMMA DirtyGrade ==
    ASSUME NEW state, NEW other, NEW x, NEW H,
           x.up.commits = Theirs, Theirs \subseteq x.head.commits, x.head.tree = BaseTree \cup H,
           Files(H) \subseteq {App, Readme, Scratch, ASIDE(Scratch)}, Work(state) \in x.work,
           \/ Part(x.work, Scratch) = DirtyRecord(state, other).untracked
           \/ state = "collision" /\ Part(x.work, ASIDE(Scratch)) = {Note(ASIDE(Scratch))}
    PROVE  DirtyCheck(x, DirtyRecord(state, other)) /\ recorded_state_intact(DirtyTree, x)
<1> DEFINE d == DirtyRecord(state, other)
<1>1. d.kept = {Work(state)} /\ (d.collision <=> state = "collision")
  BY DirtyRecordIs
<1>2. TipContained(x)
  BY DEF TipContained
<1>3. \/ Part(x.work, Scratch) = d.untracked
      \/ d.collision /\ Part(x.work, ASIDE(Scratch)) = {Note(ASIDE(Scratch))}
  BY <1>1
<1> HIDE DEF d
<1>4. DirtyCheck(x, d)
  BY <1>1, <1>2, <1>3 DEF DirtyCheck
<1>5. Changed(BaseTree, x.head.tree) \subseteq {App, Readme, Scratch, ASIDE(Scratch)}
  <2>1. Changed(BaseTree, x.head.tree) = Files(H \ BaseTree)
    BY ChangedIs
  <2>2. Files(H \ BaseTree) \subseteq Files(H)
    BY DEF Files
  <2> QED
    BY <2>1, <2>2
<1>6. recorded_state_intact(DirtyTree, x)
  BY <1>5, SurfaceIs DEF recorded_state_intact
<1> QED
  BY <1>4, <1>6 DEF d

(* Which of a state's lines could meet.                                     *)
LEMMA DirtyPartsAre ==
    ASSUME NEW state \in DirtyStates, NEW other,
           NEW X, X = Uncommitted(state, other), NEW T, T = Upstreams(state)
    PROVE  /\ Files(X) \subseteq {App, Readme, Scratch} /\ Files(T) \subseteq {App, Scratch}
           /\ Files(X) \cap {App, Readme} = {Work(state).file}
           /\ Files(X) \ {App, Readme} = IF HasUntracked(state, other) THEN {Scratch} ELSE {}
           /\ Scratch \in Files(T) <=> state = "collision"
           /\ state # "collision" => Apart(X, T)
           /\ state # "collision" =>
                  Part(BaseTree \cup X \cup T, Scratch) = DirtyRecord(state, other).untracked
<1>1. /\ X \cap BaseTree = {} /\ X # {} /\ Work(state) \in X
      /\ \A l \in X : l = Work(state) \/ l = Note(Scratch)
      /\ \A l \in T : l = TheirTop \/ (state = "collision" /\ l = NoteTheirs)
      /\ TheirTop \in T /\ (state = "collision" <=> NoteTheirs \in T)
  BY DirtyLinesAre
<1>2. Note(Scratch) \in X <=> HasUntracked(state, other)
  <2>1. Note(Scratch) # Work(state)
    BY NotesAre, WorkIs
  <2> QED
    BY <2>1 DEF Uncommitted
<1>3. /\ Note(Scratch).file = Scratch /\ NoteTheirs.file = Scratch /\ TheirTop.file = App
      /\ TheirTop.at = "top" /\ Note(Scratch).at = "body"
      /\ Work(state).file \in {App, Readme} /\ Work(state).at = "end"
      /\ Scratch \notin {App, Readme}
  BY NotesAre, WorkIs, BaseLines
<1>4. Files(X) \subseteq {App, Readme, Scratch} /\ Files(T) \subseteq {App, Scratch}
  BY <1>1, <1>3 DEF Files
<1>5. Files(X) \cap {App, Readme} = {Work(state).file}
  BY <1>1, <1>3 DEF Files
<1>6. Files(X) \ {App, Readme} = IF HasUntracked(state, other) THEN {Scratch} ELSE {}
  <2>1. Scratch \in Files(X) <=> HasUntracked(state, other)
    BY <1>1, <1>2, <1>3 DEF Files
  <2> QED
    BY <1>3, <1>4, <2>1
<1>7. Scratch \in Files(T) <=> state = "collision"
  BY <1>1, <1>3 DEF Files
<1>8. state # "collision" => Apart(X, T)
  BY <1>1, <1>3 DEF Apart
<1>9. ASSUME state # "collision"
      PROVE  Part(BaseTree \cup X \cup T, Scratch) = DirtyRecord(state, other).untracked
  <2>1. DirtyRecord(state, other).untracked
            = IF HasUntracked(state, other) THEN {Note(Scratch)} ELSE {}
    BY DirtyRecordIs
  <2>2. \A l \in BaseTree : l.file # Scratch
    BY <1>3, BaseLines
  <2>3. \A l \in BaseTree \cup X \cup T : l.file = Scratch <=> l = Note(Scratch)
    BY <1>1, <1>3, <1>9, <2>2
  <2> DEFINE all == BaseTree \cup X \cup T
  <2>4. Note(Scratch) \in all <=> HasUntracked(state, other)
    BY <1>1, <1>2, <1>3, <1>9, <2>2
  <2> HIDE DEF all
  <2>5. Part(all, Scratch) = IF HasUntracked(state, other) THEN {Note(Scratch)} ELSE {}
    BY <2>3, <2>4 DEF Part, all
  <2> QED
    BY <2>1, <2>5 DEF all
<1> QED
  BY <1>4, <1>5, <1>6, <1>7, <1>8, <1>9

(* Stashing fails exactly where an untracked file is also upstream's.       *)
LEMMA DirtyStashPasses ==
    ASSUME NEW state \in DirtyStates, NEW other,
           NEW r, r = DirtyClone(state, other), NEW x, x = Body(DirtyTree, "stash", r)
    PROVE  /\ Fine(x) <=> state # "collision"
           /\ Fine(x) => /\ DirtyCheck(x, DirtyRecord(state, other))
                         /\ recorded_state_intact(DirtyTree, x)
<1> DEFINE X == Uncommitted(state, other)
           T == Upstreams(state)
<1>1. DirtyState(r, X, T) /\ Fine(r)
  BY DirtyCloneIs
<1>2. X \cap BaseTree = {} /\ X # {} /\ Work(state) \in X
  BY DirtyLinesAre
<1>3. /\ Files(T) \subseteq {App, Scratch}
      /\ Files(X) \ {App, Readme} = IF HasUntracked(state, other) THEN {Scratch} ELSE {}
      /\ Scratch \in Files(T) <=> state = "collision"
      /\ state # "collision" => Apart(X, T)
  BY DirtyPartsAre
<1>4. state # "collision" =>
          Part(BaseTree \cup X \cup T, Scratch) = DirtyRecord(state, other).untracked
  BY DirtyPartsAre
<1> HIDE DEF X, T
<1>5. (Files(X) \ {App, Readme}) \cap Files(T) = {} <=> state # "collision"
  BY <1>3, NotesAre DEF HasUntracked
<1>6. /\ IsClone(r) /\ Fine(r) /\ r.head = BaseTip /\ r.up.commits = Theirs
      /\ r.up.tree = BaseTree \cup T /\ r.work = BaseTree \cup X /\ r.ignored = {}
      /\ r.stash = <<>> /\ r.unmerged = {}
  BY <1>1 DEF DirtyState
<1> DEFINE y == Pop(FastForward(Stash(r)))
<1>7. /\ Fine(Stash(r)) /\ Fine(FastForward(Stash(r)))
      /\ state = "collision" => ~Fine(y)
      /\ state # "collision" =>
             /\ Fine(y) /\ y.work = BaseTree \cup T \cup X /\ y.head = r.up /\ y.up = r.up
  BY <1>2, <1>3, <1>5, <1>6, StashedAndBack
<1>8. x = y
  BY <1>6, <1>7, DirtyBodies
<1> HIDE DEF y
<1>9. ASSUME state # "collision"
      PROVE  DirtyCheck(x, DirtyRecord(state, other)) /\ recorded_state_intact(DirtyTree, x)
  <2>1. /\ x.up.commits = Theirs /\ Theirs \subseteq x.head.commits
        /\ x.head.tree = BaseTree \cup T /\ Work(state) \in x.work
    BY <1>2, <1>6, <1>7, <1>8, <1>9
  <2>2. BaseTree \cup T \cup X = BaseTree \cup X \cup T
    OBVIOUS
  <2>3. Part(x.work, Scratch) = DirtyRecord(state, other).untracked
    BY <1>4, <1>7, <1>8, <1>9, <2>2
  <2>4. Files(T) \subseteq {App, Readme, Scratch, ASIDE(Scratch)}
    BY <1>3
  <2> QED
    BY <2>1, <2>3, <2>4, DirtyGrade
<1> QED
  BY <1>7, <1>8, <1>9

(* Committed, the work is a commit upstream does not have.                  *)
LEMMA WorkCommitted ==
    ASSUME NEW r, r.up.commits = Theirs, r.head.commits = {"base"} \cup {"work"}
    PROVE  ~TipContained(r) /\ Behind(r) \in Nat /\ Behind(r) > 0
<1>1. r.head.commits \ r.up.commits = {"work"} /\ "theirs" \in r.up.commits \ r.head.commits
  BY DEF Theirs
<1>2. IsFiniteSet({"work"})
  BY FS_Singleton
<1> QED
  BY <1>1, <1>2, CountIs DEF TipContained, Behind

MergeStopped(r, stopped, work) == [r EXCEPT !.ok = FALSE, !.unmerged = stopped, !.work = work]

(* A merge that conflicts stops.                                            *)
LEMMA ConflictStops ==
    ASSUME NEW r, IsClone(r), ~TipContained(r), Behind(r) \in Nat, Behind(r) > 0,
           Conflicted(r.base, r.head.tree, r.up.tree) # {}
    PROVE  ~Fine(MergeUpstream(r))
<1>1. \A stopped, work : ~Fine(MergeStopped(r, stopped, work))
  BY DEF IsClone, MergeStopped, Fine
<1>2. ~Fine(Failed(r))
  BY FailedIs
<1>3. Behind(r) # 0
  OBVIOUS
<1>4. \/ MergeUpstream(r) = Failed(r)
      \/ \E stopped, work : MergeUpstream(r) = MergeStopped(r, stopped, work)
  BY <1>3 DEF MergeUpstream, MergeStopped
<1> QED
  BY <1>1, <1>2, <1>4

(* Committing fails exactly where both sides added the same file.           *)
LEMMA DirtyCommitPasses ==
    ASSUME NEW state \in DirtyStates, NEW other,
           NEW r, r = DirtyClone(state, other), NEW x, x = Body(DirtyTree, "commit", r)
    PROVE  /\ Fine(x) <=> state # "collision"
           /\ Fine(x) => /\ DirtyCheck(x, DirtyRecord(state, other))
                         /\ recorded_state_intact(DirtyTree, x)
<1> DEFINE X == Uncommitted(state, other)
           T == Upstreams(state)
           c == CommitAll(r)
           y == MergeUpstream(c)
<1>1. DirtyState(r, X, T) /\ Fine(r)
  BY DirtyCloneIs
<1>2. /\ X \cap BaseTree = {} /\ X # {} /\ Work(state) \in X
      /\ \A l \in X : l = Work(state) \/ l = Note(Scratch)
      /\ (state = "collision" => NoteTheirs \in T /\ Note(Scratch) \in X)
  BY DirtyLinesAre
<1>3. /\ Files(X) \subseteq {App, Readme, Scratch}
      /\ Files(T) \subseteq {App, Scratch}
      /\ state # "collision" => Apart(X, T)
  BY DirtyPartsAre
<1>31. \A l \in T : l = TheirTop \/ (state = "collision" /\ l = NoteTheirs)
  BY DirtyLinesAre
<1>4. state # "collision" =>
          Part(BaseTree \cup X \cup T, Scratch) = DirtyRecord(state, other).untracked
  BY DirtyPartsAre
<1> HIDE DEF X, T
<1>5. r.head.commits = {"base"} /\ r.head.tree = BaseTree
  BY <1>1, TipIs DEF BaseTip, DirtyState
<1>6. /\ IsClone(r) /\ r.base = BaseTree /\ r.up.commits = Theirs
      /\ r.up.tree = BaseTree \cup T /\ r.work = BaseTree \cup X /\ r.ignored = {}
      /\ r.unmerged = {} /\ r.work # r.head.tree
  BY <1>1, <1>2, <1>5 DEF DirtyState
<1>7. /\ IsClone(c)
      /\ c.base = BaseTree /\ c.up = r.up /\ c.work = BaseTree \cup X
      /\ c.head.commits = {"base"} \cup {"work"} /\ c.head.tree = BaseTree \cup X
      /\ c.unmerged = {} /\ c.ok = r.ok
  BY <1>5, <1>6, CommitAllIs
<1> HIDE DEF c
<1>8. Fine(c)
  BY <1>1, <1>7, FineIs
<1>9. x = y
  BY <1>1, <1>8, DirtyBodies DEF c
<1>10. ~TipContained(c) /\ Behind(c) \in Nat /\ Behind(c) > 0
  BY <1>6, <1>7, WorkCommitted
<1>11. ASSUME state = "collision" PROVE ~Fine(y)
  <2>1. \A l \in BaseTree : l.file # Scratch
    BY NotesAre, BaseLines
  <2>2. Place(BaseTree, Scratch, "body") = {}
    BY <2>1 DEF Place
  <2>3. Note(Scratch) \in Place(BaseTree \cup X, Scratch, "body")
    BY <1>2, <1>11, NotesAre DEF Place
  <2>4. NoteTheirs \in Place(BaseTree \cup T, Scratch, "body")
    BY <1>2, <1>11, NotesAre DEF Place
  <2>5. NoteTheirs \notin X
    BY <1>2, NotesAre, WorkIs
  <2>6. NoteTheirs \notin Place(BaseTree \cup X, Scratch, "body")
    BY <2>1, <2>5, NotesAre DEF Place
  <2>7. ConflictsIn(BaseTree, BaseTree \cup X, BaseTree \cup T, Scratch)
    <3>1. Note(Scratch) \in BaseTree \cup (BaseTree \cup X) \cup (BaseTree \cup T)
      BY <1>2, <1>11
    <3> QED
      BY <3>1, <2>2, <2>3, <2>4, <2>6, NotesAre DEF ConflictsIn
  <2>8. Scratch \in Files(BaseTree \cup (BaseTree \cup X) \cup (BaseTree \cup T))
    BY <1>2, <1>11, NotesAre DEF Files
  <2>9. Scratch \in Conflicted(BaseTree, BaseTree \cup X, BaseTree \cup T)
    BY <2>7, <2>8 DEF Conflicted
  <2>10. Conflicted(c.base, c.head.tree, c.up.tree) # {}
    BY <1>6, <1>7, <2>9
  <2> QED
    BY <1>7, <1>10, <2>10, ConflictStops
<1>12. ASSUME state # "collision"
       PROVE  /\ Fine(x) /\ DirtyCheck(x, DirtyRecord(state, other))
              /\ recorded_state_intact(DirtyTree, x)
  <2> DEFINE all == BaseTree \cup X \cup T
             mc == c.head.commits \cup c.up.commits \cup {"merge"}
  <2>1. c.base = BaseTree /\ c.head.tree = BaseTree \cup X /\ c.up.tree = BaseTree \cup T
        /\ c.work = c.head.tree /\ c.unmerged = {} /\ Apart(X, T) /\ IsClone(c)
    BY <1>3, <1>6, <1>7, <1>12
  <2>2. Leaves(y, c, Tip(mc, all), all)
    BY <1>10, <2>1, SyncsBoth
  <2>3. Tip(mc, all).commits = mc /\ Tip(mc, all).tree = all
    BY TipIs
  <2>4. Fine(y)
    BY <1>8, <2>2, FineIs DEF Leaves
  <2>5. Theirs \subseteq mc
    BY <1>6, <1>7
  <2> HIDE DEF mc
  <2>6. /\ y.up.commits = Theirs /\ Theirs \subseteq y.head.commits /\ y.head.tree = all
        /\ y.work = all
    BY <1>6, <1>7, <2>2, <2>3, <2>5 DEF Leaves
  <2>7. all = BaseTree \cup (X \cup T) /\ Work(state) \in all
    BY <1>2
  <2>8. Files(X \cup T) \subseteq {App, Readme, Scratch, ASIDE(Scratch)}
    BY <1>3, FilesIs
  <2>9. Part(all, Scratch) = DirtyRecord(state, other).untracked
    BY <1>4, <1>12
  <2> HIDE DEF all, y
  <2>10. DirtyCheck(y, DirtyRecord(state, other)) /\ recorded_state_intact(DirtyTree, y)
    BY <2>6, <2>7, <2>8, <2>9, DirtyGrade
  <2> QED
    BY <1>9, <2>4, <2>10
<1> QED
  BY <1>9, <1>11, <1>12

WorksOn(r, work) == [r EXCEPT !.work = work]

(* A clone with another working tree is otherwise the same.                 *)
LEMMA WorksOnIs ==
    ASSUME NEW r, IsClone(r), NEW work, NEW x, x = WorksOn(r, work)
    PROVE  /\ IsClone(x)
           /\ x.base = r.base /\ x.head = r.head /\ x.up = r.up /\ x.work = work
           /\ x.ignored = r.ignored /\ x.stash = r.stash /\ x.unmerged = r.unmerged
           /\ x.ok = r.ok /\ x.initialised = r.initialised
BY DEF IsClone, WorksOn

(* Moving collisions aside passes in every state.                           *)
LEMMA DirtyAsidePasses ==
    ASSUME NEW state \in DirtyStates, NEW other,
           NEW r, r = DirtyClone(state, other), NEW x, x = Body(DirtyTree, "aside", r)
    PROVE  /\ Fine(x)
           /\ DirtyCheck(x, DirtyRecord(state, other))
           /\ recorded_state_intact(DirtyTree, x)
<1> DEFINE X == Uncommitted(state, other)
           T == Upstreams(state)
           m == MoveCollisionsAside(r)
           Y == IF state = "collision" THEN {Work(state), Note(ASIDE(Scratch))} ELSE X
<1>1. DirtyState(r, X, T) /\ Fine(r)
  BY DirtyCloneIs
<1>2. /\ X \cap BaseTree = {} /\ X # {} /\ Work(state) \in X
      /\ \A l \in X : l = Work(state) \/ l = Note(Scratch)
      /\ (state = "collision" => NoteTheirs \in T /\ Note(Scratch) \in X)
  BY DirtyLinesAre
<1>3. /\ Files(X) \subseteq {App, Readme, Scratch}
      /\ Files(T) \subseteq {App, Scratch}
      /\ Files(X) \ {App, Readme} = IF HasUntracked(state, other) THEN {Scratch} ELSE {}
      /\ Scratch \in Files(T) <=> state = "collision"
      /\ state # "collision" => Apart(X, T)
  BY DirtyPartsAre
<1>31. \A l \in T : l = TheirTop \/ (state = "collision" /\ l = NoteTheirs)
  BY DirtyLinesAre
<1>4. state # "collision" =>
          Part(BaseTree \cup X \cup T, Scratch) = DirtyRecord(state, other).untracked
  BY DirtyPartsAre
<1> HIDE DEF X, T
<1>5. r.head.commits = {"base"} /\ r.head.tree = BaseTree
  BY <1>1, TipIs DEF BaseTip, DirtyState
<1>6. /\ IsClone(r) /\ r.base = BaseTree /\ r.head = BaseTip /\ r.up.commits = Theirs
      /\ r.up.tree = BaseTree \cup T /\ r.work = BaseTree \cup X /\ r.ignored = {}
      /\ r.stash = <<>> /\ r.unmerged = {}
  BY <1>1 DEF DirtyState
<1>7. Collisions(r) = IF state = "collision" THEN {Scratch} ELSE {}
  <2>1. Untracked(r) = Files(X) \ {App, Readme}
    BY <1>2, <1>5, <1>6, UncommittedIs
  <2>2. Files(r.up.tree) = {App, Readme} \cup Files(T)
    BY <1>6, FilesIs, BaseLines
  <2> QED
    BY <1>3, <2>1, <2>2, NotesAre DEF Collisions, HasUntracked
<1> DEFINE stays == {l \in r.work : l.file \notin Collisions(r)}
           moved == {[l EXCEPT !.file = ASIDE(@)] : l \in {k \in r.work : k.file \in Collisions(r)}}
<1>8. m = WorksOn(r, stays \cup moved)
  BY DEF MoveCollisionsAside, MoveAside, WorksOn
<1>9. stays \cup moved = BaseTree \cup Y
  <2>1. CASE state # "collision"
    <3>1. stays = r.work /\ moved = {}
      BY <1>7, <2>1
    <3> QED
      BY <1>6, <2>1, <3>1
  <2>2. CASE state = "collision"
    <3>1. \A l \in BaseTree : l.file # Scratch
      BY NotesAre, BaseLines
    <3>2. Note(Scratch) \in r.work /\ Note(Scratch).file = Scratch /\ Work(state).file # Scratch
      BY <1>2, <1>6, <2>2, NotesAre, WorkIs
    <3>3. \A k \in r.work : k.file = Scratch <=> k = Note(Scratch)
      BY <1>2, <1>6, <3>1, <3>2
    <3>4. {k \in r.work : k.file \in Collisions(r)} = {Note(Scratch)}
      BY <1>7, <2>2, <3>2, <3>3
    <3>5. moved = {[Note(Scratch) EXCEPT !.file = ASIDE(@)]}
      BY <3>4
    <3>6. moved = {Note(ASIDE(Scratch))}
      BY <3>5, NotesAre
    <3>7. stays = BaseTree \cup {Work(state)}
      BY <1>2, <1>6, <1>7, <2>2, <3>1, <3>2, <3>3
    <3> QED
      BY <2>2, <3>6, <3>7
  <2> QED
    BY <2>1, <2>2
<1> HIDE DEF stays, moved, m
<1>10. /\ IsClone(m)
       /\ m.base = r.base /\ m.head = r.head /\ m.up = r.up /\ m.work = stays \cup moved
       /\ m.ignored = r.ignored /\ m.stash = r.stash /\ m.unmerged = r.unmerged
       /\ m.ok = r.ok
  BY <1>6, <1>8, WorksOnIs
<1>11. Fine(m)
  BY <1>1, <1>10, FineIs
<1>12. /\ Y \cap BaseTree = {} /\ Y # {} /\ Work(state) \in Y
  BY <1>2, NotesAre, BaseLines
<1>13. Apart(Y, T)
  <2>1. CASE state # "collision"
    BY <1>3, <2>1
  <2>2. CASE state = "collision"
    <3>1. Note(ASIDE(Scratch)).file = ASIDE(Scratch) /\ ASIDE(Scratch) \notin {App, Scratch}
      BY NotesAre
    <3>2. \A y \in Y : y = Work(state) \/ y = Note(ASIDE(Scratch))
      BY <2>2
    <3>3. Work(state).at = "end" /\ NoteTheirs.at = "body" /\ TheirTop.at = "top"
          /\ NoteTheirs.file = Scratch /\ TheirTop.file = App
      BY WorkIs, NotesAre, BaseLines
    <3> HIDE DEF Y
    <3> QED
      BY <1>31, <3>1, <3>2, <3>3 DEF Apart
  <2> QED
    BY <2>1, <2>2
<1>14. (Files(Y) \ {App, Readme}) \cap Files(T) = {}
  <2>1. CASE state # "collision"
    BY <1>3, <2>1, NotesAre DEF HasUntracked
  <2>2. CASE state = "collision"
    <3>1. Files(Y) \subseteq {App, Readme, ASIDE(Scratch)}
      BY <2>2, NotesAre, WorkIs DEF Files
    <3> QED
      BY <1>3, <3>1, NotesAre
  <2> QED
    BY <2>1, <2>2
<1> DEFINE y == Pop(FastForward(Stash(m)))
<1> HIDE DEF Y
<1>15. /\ IsClone(m) /\ Fine(m) /\ m.head = BaseTip /\ m.up.commits = Theirs
       /\ m.up.tree = BaseTree \cup T /\ m.work = BaseTree \cup Y /\ m.ignored = {}
       /\ m.stash = <<>> /\ m.unmerged = {}
  BY <1>6, <1>9, <1>10, <1>11
<1>16. /\ Fine(Stash(m)) /\ Fine(FastForward(Stash(m)))
       /\ Fine(y) /\ y.work = BaseTree \cup T \cup Y /\ y.head = m.up /\ y.up = m.up
  BY <1>12, <1>13, <1>14, <1>15, StashedAndBack
<1>17. x = y
  BY <1>1, <1>11, <1>16, DirtyBodies DEF m
<1> HIDE DEF y
<1>18. /\ x.up.commits = Theirs /\ Theirs \subseteq x.head.commits
       /\ x.head.tree = BaseTree \cup T /\ Work(state) \in x.work
       /\ Files(T) \subseteq {App, Readme, Scratch, ASIDE(Scratch)}
  BY <1>3, <1>12, <1>15, <1>16, <1>17
<1>19. \/ Part(x.work, Scratch) = DirtyRecord(state, other).untracked
       \/ state = "collision" /\ Part(x.work, ASIDE(Scratch)) = {Note(ASIDE(Scratch))}
  <2>1. CASE state # "collision"
    <3>1. BaseTree \cup T \cup Y = BaseTree \cup X \cup T
      BY <2>1 DEF Y
    <3> QED
      BY <1>4, <1>16, <1>17, <2>1, <3>1
  <2>2. CASE state = "collision"
    <3>1. \A l \in BaseTree : l.file # ASIDE(Scratch)
      BY NotesAre, BaseLines
    <3>2. \A l \in T : l.file # ASIDE(Scratch)
      BY <1>31, NotesAre, BaseLines
    <3>3. \A l \in Y : l.file = ASIDE(Scratch) <=> l = Note(ASIDE(Scratch))
      BY <2>2, NotesAre, WorkIs DEF Y
    <3>4. Note(ASIDE(Scratch)) \in Y
      BY <2>2 DEF Y
    <3>5. Part(BaseTree \cup T \cup Y, ASIDE(Scratch)) = {Note(ASIDE(Scratch))}
      BY <3>1, <3>2, <3>3, <3>4, NotesAre DEF Part
    <3> QED
      BY <1>16, <1>17, <2>2, <3>5
  <2> QED
    BY <2>1, <2>2
<1>20. DirtyCheck(x, DirtyRecord(state, other)) /\ recorded_state_intact(DirtyTree, x)
  BY <1>18, <1>19, DirtyGrade
<1> QED
  BY <1>16, <1>17, <1>20

-----------------------------------------------------------------------------
(* submodule_moved.                                                         *)

(* The submodule has a checkout.                                            *)
Started(r) == r.initialised

LEMMA StartedIs ==
    ASSUME NEW r, NEW q, q.initialised = r.initialised  PROVE Started(q) <=> Started(r)
BY Zenon DEF Started

Initial == Gitlink("initial")
Grown == Gitlink("grown")
Modules == ".gitmodules"

(* Upstream's submodule: its declaration and its pin, on either side.       *)
LEMMA NestedLinesAre ==
    /\ Initial.file = Nested /\ Grown.file = Nested /\ Initial # Grown
    /\ Initial.at = "gitlink" /\ Grown.at = "gitlink"
    /\ Declaration.file = Modules
    /\ Declaration # Initial /\ Declaration # Grown
    /\ Nested \notin {App, Readme, Modules} /\ Modules \notin {App, Readme}
    /\ \A l \in BaseTree : l.file # Nested /\ l # Declaration /\ l.at # "gitlink"
<1>1. Nested \notin {App, Readme, Modules} /\ Modules \notin {App, Readme}
  BY DEF Nested, App, Readme, Modules
<1>2. Initial.file = Nested /\ Grown.file = Nested /\ Initial.at = "gitlink" /\ Grown.at = "gitlink"
  BY DEF Initial, Grown, Gitlink, Line
<1>3. Initial # Grown
  <2>1. Initial.value = "initial" /\ Grown.value = "grown"
    BY DEF Initial, Grown, Gitlink, Line
  <2> QED
    BY <2>1
<1>4. Declaration.file = Modules
  BY DEF Declaration, Line, Modules
<1> QED
  BY <1>1, <1>2, <1>3, <1>4, BaseLines

SubmoduleStates == {"init", "repin", "remove"}

PinnedTree == BaseTree \cup {Initial, Declaration}

UpstreamPinned(state) ==
    CASE state = "init" -> PinnedTree
      [] state = "repin" -> BaseTree \cup {Grown, Declaration}
      [] OTHER -> BaseTree

LEMMA NestedPartsAre ==
    /\ Part(PinnedTree, Nested) = {Initial}
    /\ Part(BaseTree \cup {Grown, Declaration}, Nested) = {Grown}
    /\ Part(BaseTree, Nested) = {}
<1>1. \A l \in PinnedTree : l.file = Nested <=> l = Initial
  BY NestedLinesAre DEF PinnedTree
<1>2. \A l \in BaseTree \cup {Grown, Declaration} : l.file = Nested <=> l = Grown
  BY NestedLinesAre
<1>3. Part(PinnedTree, Nested) = {Initial}
  BY <1>1 DEF Part, PinnedTree
<1>4. Part(BaseTree \cup {Grown, Declaration}, Nested) = {Grown}
  BY <1>2 DEF Part
<1>5. Part(BaseTree, Nested) = {}
  BY NestedLinesAre DEF Part
<1> QED
  BY <1>3, <1>4, <1>5

SubmoduleState(state, r) ==
    /\ IsClone(r)
    /\ r.base = PinnedTree /\ r.head.tree = PinnedTree /\ r.work = PinnedTree
    /\ r.head.commits = {"base", "nested"}
    /\ r.up.commits = IF state = "init" THEN {"base", "nested"} ELSE {"base", "nested", "theirs"}
    /\ r.up.tree = UpstreamPinned(state)
    /\ r.ignored = {} /\ r.unmerged = {} /\ r.branch = "main" /\ r.tracks = "main"
    /\ r.others = {} /\ r.default = NoDefault

WithCheckout(c, initialised) == [c EXCEPT !.initialised = initialised]

LEMMA WithCheckoutIs ==
    ASSUME NEW c, IsClone(c), NEW i, NEW x, x = WithCheckout(c, i)
    PROVE  /\ IsClone(x)
           /\ x.base = c.base /\ x.head = c.head /\ x.up = c.up /\ x.work = c.work
           /\ x.ignored = c.ignored /\ x.unmerged = c.unmerged /\ x.branch = c.branch
           /\ x.tracks = c.tracks /\ x.others = c.others /\ x.default = c.default /\ x.ok = c.ok
           /\ x.initialised = i
BY DEF IsClone, WithCheckout

(* The clone, its bodies, and what its check asks.                          *)
LEMMA SubmoduleCloneIs ==
    ASSUME NEW state \in SubmoduleStates, NEW r, r = SubmoduleClone(state)
    PROVE  SubmoduleState(state, r) /\ Fine(r) /\ (Started(r) <=> state # "init")
<1> DEFINE pinned == Tip({"base", "nested"}, PinnedTree)
           ups == IF state = "init" THEN {"base", "nested"} ELSE {"base", "nested", "theirs"}
           up == Tip(ups, UpstreamPinned(state))
           c == Clone(PinnedTree, pinned, up, {})
           i == (state # "init")
<1>1. pinned.commits = {"base", "nested"} /\ pinned.tree = PinnedTree
      /\ up.commits = ups /\ up.tree = UpstreamPinned(state)
  BY TipIs
<1>2. r = WithCheckout(c, i)
  <2>1. pinned = Tip({"base", "nested"}, BaseTree \cup {Gitlink("initial"), Declaration})
    BY DEF PinnedTree, Initial
  <2>2. CASE state = "init"
    <3>1. up = pinned
      BY <2>2 DEF UpstreamPinned
    <3> QED
      BY <1>1, <2>1, <2>2, <3>1 DEF SubmoduleClone, WithCheckout
  <2>3. CASE state = "repin"
    <3>1. up = Tip({"base", "nested", "theirs"}, BaseTree \cup {Gitlink("grown"), Declaration})
      BY <2>3 DEF UpstreamPinned, Grown
    <3> QED
      BY <1>1, <2>1, <2>3, <3>1 DEF SubmoduleClone, WithCheckout
  <2>4. CASE state = "remove"
    <3>1. up = Tip({"base", "nested", "theirs"}, BaseTree)
      BY <2>4 DEF UpstreamPinned
    <3> QED
      BY <1>1, <2>1, <2>4, <3>1 DEF SubmoduleClone, WithCheckout
  <2> QED
    BY <2>2, <2>3, <2>4 DEF SubmoduleStates
<1> HIDE DEF pinned, up, i
<1>3. /\ IsClone(c)
      /\ c.base = PinnedTree /\ c.head = pinned /\ c.up = up /\ c.work = pinned.tree
      /\ c.ignored = {} /\ c.unmerged = {} /\ c.branch = "main"
      /\ c.others = {} /\ c.tracks = "main"
  BY CleanCloneIs
<1>4. c.default = NoDefault
  BY CloneIsFresh
<1>5. Fine(c)
  BY CloneIsFresh
<1> HIDE DEF c
<1>6. /\ IsClone(r)
      /\ r.base = c.base /\ r.head = c.head /\ r.up = c.up /\ r.work = c.work
      /\ r.ignored = c.ignored /\ r.unmerged = c.unmerged /\ r.branch = c.branch
      /\ r.tracks = c.tracks /\ r.others = c.others /\ r.default = c.default /\ r.ok = c.ok
      /\ r.initialised = i
  BY <1>2, <1>3, WithCheckoutIs
<1>7. Fine(r)
  BY <1>5, <1>6, FineIs
<1>8. Started(r) <=> i
  BY <1>6, Zenon DEF Started
<1>9. SubmoduleState(state, r)
  BY <1>1, <1>3, <1>4, <1>6 DEF SubmoduleState
<1> QED
  BY <1>7, <1>8, <1>9 DEF i

LEMMA SubmoduleBodies ==
    ASSUME NEW r, Fine(r)
    PROVE  /\ Body(SubmoduleMoved, "init", r) = UpdateSubmodule(r)
           /\ ~Fine(CheckoutUpstreamPath(r)) =>
                  Body(SubmoduleMoved, "repin", r) = CheckoutUpstreamPath(r)
           /\ Fine(CheckoutUpstreamPath(r)) =>
                  Body(SubmoduleMoved, "repin", r) = CommitAll(CheckoutUpstreamPath(r))
           /\ Fine(RemoveSubmodule(r)) =>
                  Body(SubmoduleMoved, "remove", r) = CommitAll(RemoveSubmodule(r))
<1>1. Body(SubmoduleMoved, "init", r) = UpdateSubmodule(r)
  BY DEF Body, SubmoduleMoved, DirtyTree, BranchRenamed, ConfigRenamed, Diverged
<1>2. ASSUME ~Fine(CheckoutUpstreamPath(r))
      PROVE  Body(SubmoduleMoved, "repin", r) = CheckoutUpstreamPath(r)
  BY <1>2 DEF Fine, Body, Then, SubmoduleMoved, DirtyTree, BranchRenamed, ConfigRenamed, Diverged
<1>3. ASSUME Fine(CheckoutUpstreamPath(r))
      PROVE  Body(SubmoduleMoved, "repin", r) = CommitAll(CheckoutUpstreamPath(r))
  BY <1>3 DEF Fine, Body, Then, SubmoduleMoved, DirtyTree, BranchRenamed, ConfigRenamed, Diverged
<1>4. ASSUME Fine(RemoveSubmodule(r))
      PROVE  Body(SubmoduleMoved, "remove", r) = CommitAll(RemoveSubmodule(r))
  BY <1>4 DEF Fine, Body, Then, SubmoduleMoved, DirtyTree, BranchRenamed, ConfigRenamed, Diverged
<1> QED
  BY <1>1, <1>2, <1>3, <1>4

LEMMA SubmoduleCheckIs ==
    ASSUME NEW state, NEW x, NEW d, d = SubmoduleRecord(state)
    PROVE  /\ state = "init" =>
                  (SubmoduleCheck(x, d) <=> Started(x) /\ Part(x.work, Nested) # {})
           /\ state = "repin" =>
                  (SubmoduleCheck(x, d) <=> /\ Part(x.up.tree, Nested) # {}
                                            /\ Part(x.head.tree, Nested) = Part(x.up.tree, Nested))
           /\ state = "remove" =>
                  (SubmoduleCheck(x, d) <=> /\ Part(x.head.tree, Nested) = {}
                                            /\ Declaration \notin x.work)
<1>1. d.state = state
  BY DEF SubmoduleRecord, Unrecorded
<1>2. ASSUME state = "init"
      PROVE  SubmoduleCheck(x, d) <=> Started(x) /\ Part(x.work, Nested) # {}
  BY <1>1, <1>2 DEF SubmoduleCheck, Started
<1>3. ASSUME state = "repin"
      PROVE  SubmoduleCheck(x, d) <=> /\ Part(x.up.tree, Nested) # {}
                                      /\ Part(x.head.tree, Nested) = Part(x.up.tree, Nested)
  BY <1>1, <1>3 DEF SubmoduleCheck
<1>4. ASSUME state = "remove"
      PROVE  SubmoduleCheck(x, d) <=> Part(x.head.tree, Nested) = {} /\ Declaration \notin x.work
  BY <1>1, <1>4 DEF SubmoduleCheck
<1> QED
  BY <1>2, <1>3, <1>4

LEMMA SubmoduleIntact ==
    ASSUME NEW x, x.head.tree \in {PinnedTree, BaseTree, BaseTree \cup {Grown, Declaration}}
    PROVE  recorded_state_intact(SubmoduleMoved, x)
<1>1. ASSUME NEW S, S \subseteq {Initial, Grown, Declaration}
      PROVE  Changed(BaseTree, BaseTree \cup S) \subseteq {".gitmodules", Nested}
  <2>1. Changed(BaseTree, BaseTree \cup S) = Files(S \ BaseTree)
    BY ChangedIs
  <2>2. \A l \in S \ BaseTree : l.file \in {Modules, Nested}
    BY <1>1, NestedLinesAre
  <2>3. Files(S \ BaseTree) \subseteq {Modules, Nested}
    BY <2>2 DEF Files
  <2> QED
    BY <2>1, <2>3 DEF Modules
<1>2. Changed(BaseTree, BaseTree) = {}
  BY ChangedIs
<1>3. Changed(BaseTree, x.head.tree) \subseteq {".gitmodules", Nested}
  BY <1>1, <1>2 DEF PinnedTree
<1> QED
  BY <1>3, SurfaceIs DEF recorded_state_intact

(* Each state is resolved by the body of its name only.                     *)
LEMMA SubmodulePassing ==
    ASSUME NEW state \in SubmoduleStates, NEW r, r = SubmoduleClone(state)
    PROVE  \A v \in SubmoduleStates :
               LET x == Body(SubmoduleMoved, v, r)
               IN  Fine(x) /\ SubmoduleCheck(x, SubmoduleRecord(state))
                       /\ recorded_state_intact(SubmoduleMoved, x) <=> v = state
<1> DEFINE Good(x) == /\ Fine(x) /\ SubmoduleCheck(x, SubmoduleRecord(state))
                      /\ recorded_state_intact(SubmoduleMoved, x)
<1>1. SubmoduleState(state, r) /\ Fine(r)
  BY SubmoduleCloneIs
<1>2. /\ IsClone(r)
      /\ r.head.tree = PinnedTree /\ r.work = PinnedTree
      /\ r.up.tree = UpstreamPinned(state)
      /\ r.ignored = {} /\ r.unmerged = {}
  BY <1>1 DEF SubmoduleState
<1>3. Part(PinnedTree, Nested) = {Initial} /\ Part(BaseTree, Nested) = {}
      /\ Part(BaseTree \cup {Grown, Declaration}, Nested) = {Grown}
  BY NestedPartsAre
<1>4. Declaration \in PinnedTree /\ Declaration \notin BaseTree /\ Initial # Grown
  BY NestedLinesAre DEF PinnedTree
<1>5. Good(Body(SubmoduleMoved, "init", r)) <=> state = "init"
  <2> DEFINE x == UpdateSubmodule(r)
             i == TRUE
  <2>1. x = WithCheckout(r, i)
    BY <1>2, <1>3 DEF UpdateSubmodule, WithCheckout
  <2> HIDE DEF i
  <2>2. /\ x.head = r.head /\ x.up = r.up /\ x.work = r.work /\ x.ok = r.ok
        /\ x.initialised = i
    BY <1>2, <2>1, WithCheckoutIs
  <2>3. Fine(x)
    BY <1>1, <2>2, FineIs
  <2>4. Started(x)
    BY <2>2, Zenon DEF Started, i
  <2>5. x.work = PinnedTree /\ x.head.tree = PinnedTree /\ x.up.tree = UpstreamPinned(state)
    BY <1>2, <2>2
  <2> HIDE DEF x
  <2>6. recorded_state_intact(SubmoduleMoved, x)
    BY <2>5, SubmoduleIntact
  <2>7. CASE state = "init"
    BY <1>3, <2>3, <2>4, <2>5, <2>6, <2>7, <1>1, SubmoduleBodies, SubmoduleCheckIs DEF x
  <2>8. CASE state = "repin"
    <3>1. UpstreamPinned(state) = BaseTree \cup {Grown, Declaration}
      BY <2>8 DEF UpstreamPinned
    <3>2. Part(x.head.tree, Nested) # Part(x.up.tree, Nested)
      BY <1>3, <1>4, <2>5, <3>1
    <3>3. ~SubmoduleCheck(x, SubmoduleRecord(state))
      BY <2>8, <3>2, SubmoduleCheckIs
    <3> QED
      BY <1>1, <2>8, <3>3, SubmoduleBodies DEF x
  <2>9. CASE state = "remove"
    <3>1. Part(x.head.tree, Nested) # {}
      BY <1>3, <2>5
    <3>2. ~SubmoduleCheck(x, SubmoduleRecord(state))
      BY <2>9, <3>1, SubmoduleCheckIs
    <3> QED
      BY <1>1, <2>9, <3>2, SubmoduleBodies DEF x
  <2> QED
    BY <2>7, <2>8, <2>9 DEF SubmoduleStates
<1>6. Good(Body(SubmoduleMoved, "repin", r)) <=> state = "repin"
  <2> DEFINE y == CheckoutUpstreamPath(r)
             x == CommitAll(y)
  <2>1. CASE state = "remove"
    <3>1. Part(r.up.tree, Nested) = {}
      BY <1>2, <1>3, <2>1 DEF UpstreamPinned
    <3>2. y = Failed(r)
      BY <3>1 DEF CheckoutUpstreamPath
    <3>3. ~Fine(y)
      BY <1>2, <3>2, FailedIs
    <3>4. ~Fine(Body(SubmoduleMoved, "repin", r))
      BY <1>1, <3>3, SubmoduleBodies
    <3> QED
      BY <2>1, <3>4
  <2>2. ASSUME NEW l, l.file = Nested, Part(r.up.tree, Nested) = {l}
        PROVE  /\ IsClone(y) /\ Fine(y)
               /\ y.work = BaseTree \cup {l, Declaration} /\ y.head = r.head /\ y.up = r.up
               /\ y.ignored = {} /\ y.unmerged = {}
    <3>1. Without(r.work, Nested) = BaseTree \cup {Declaration}
      <4>1. PinnedTree \ {Initial} = BaseTree \cup {Declaration}
        BY NestedLinesAre DEF PinnedTree
      <4> QED
        BY <1>2, <1>3, <4>1 DEF Without
    <3>2. y = WorksOn(r, Without(r.work, Nested) \cup {l})
      BY <2>2 DEF CheckoutUpstreamPath, Replace, WorksOn
    <3>3. Without(r.work, Nested) \cup {l} = BaseTree \cup {l, Declaration}
      BY <3>1
    <3> DEFINE w == Without(r.work, Nested) \cup {l}
    <3> HIDE DEF w, y
    <3>4. /\ IsClone(y)
          /\ y.base = r.base /\ y.head = r.head /\ y.up = r.up /\ y.work = w
          /\ y.ignored = r.ignored /\ y.unmerged = r.unmerged /\ y.ok = r.ok
      BY <1>2, <3>2, WorksOnIs DEF w
    <3>5. Fine(y)
      BY <1>1, <3>4, FineIs
    <3>6. y.work = BaseTree \cup {l, Declaration}
      BY <3>3, <3>4 DEF w
    <3> QED
      BY <1>2, <3>4, <3>5, <3>6
  <2>3. CASE state = "init"
    <3>1. Part(r.up.tree, Nested) = {Initial}
      BY <1>2, <1>3, <2>3 DEF UpstreamPinned
    <3>2. /\ IsClone(y) /\ Fine(y)
          /\ y.work = PinnedTree /\ y.head = r.head
          /\ y.ignored = {} /\ y.unmerged = {}
      BY <2>2, <3>1, NestedLinesAre DEF PinnedTree
    <3> HIDE DEF y
    <3>3. x = Failed(y)
      <4>1. {l \in y.work : l.file \in Files(y.head.tree) \/ l.file \notin y.ignored} = y.work
        BY <3>2
      <4>2. y.work = y.head.tree
        BY <1>2, <3>2
      <4> QED
        BY <3>2, <4>1, <4>2 DEF CommitAll
    <3>4. ~Fine(x)
      BY <3>2, <3>3, FailedIs
    <3>5. ~Fine(Body(SubmoduleMoved, "repin", r))
      BY <1>1, <3>2, <3>4, SubmoduleBodies DEF y
    <3> QED
      BY <2>3, <3>5
  <2>4. CASE state = "repin"
    <3>1. r.up.tree = BaseTree \cup {Grown, Declaration}
      BY <1>2, <2>4 DEF UpstreamPinned
    <3>2. Part(r.up.tree, Nested) = {Grown}
      BY <1>3, <3>1
    <3>3. /\ IsClone(y) /\ Fine(y)
          /\ y.work = BaseTree \cup {Grown, Declaration} /\ y.head = r.head /\ y.up = r.up
          /\ y.ignored = {} /\ y.unmerged = {}
      BY <2>2, <3>2, NestedLinesAre
    <3>4. y.work # y.head.tree
      BY <1>2, <3>3, NestedLinesAre DEF PinnedTree
    <3> HIDE DEF y
    <3>5. x.head.tree = y.work /\ x.up = y.up /\ x.ok = y.ok
      BY <3>3, <3>4, CommitAllIs
    <3>6. Fine(x)
      BY <3>3, <3>5, FineIs
    <3>7. x.head.tree = BaseTree \cup {Grown, Declaration}
          /\ x.up.tree = BaseTree \cup {Grown, Declaration}
      BY <3>1, <3>3, <3>5
    <3> HIDE DEF x
    <3>8. recorded_state_intact(SubmoduleMoved, x)
      BY <3>7, SubmoduleIntact
    <3>9. Part(x.head.tree, Nested) = {Grown} /\ Part(x.up.tree, Nested) = {Grown}
      BY <1>3, <3>7
    <3>10. SubmoduleCheck(x, SubmoduleRecord(state))
      BY <2>4, <3>9, SubmoduleCheckIs
    <3>11. Body(SubmoduleMoved, "repin", r) = x
      BY <1>1, <3>3, SubmoduleBodies DEF x, y
    <3> QED
      BY <2>4, <3>6, <3>8, <3>10, <3>11
  <2> QED
    BY <2>1, <2>3, <2>4 DEF SubmoduleStates
<1>7. Good(Body(SubmoduleMoved, "remove", r)) <=> state = "remove"
  <2> DEFINE y == RemoveSubmodule(r)
             x == CommitAll(y)
             left == {l \in r.work : l.file # Nested /\ l # Declaration}
  <2>1. left = BaseTree
    <3>1. \A l \in PinnedTree : l \in BaseTree <=> l.file # Nested /\ l # Declaration
      BY NestedLinesAre DEF PinnedTree
    <3> QED
      BY <1>2, <3>1 DEF PinnedTree
  <2>2. y = WorksOn(r, left)
    BY <1>2, <1>4 DEF RemoveSubmodule, WorksOn
  <2> HIDE DEF y, left
  <2>3. /\ IsClone(y)
        /\ y.base = r.base /\ y.head = r.head /\ y.up = r.up /\ y.work = left
        /\ y.ignored = r.ignored /\ y.unmerged = r.unmerged /\ y.ok = r.ok
    BY <1>2, <2>2, WorksOnIs
  <2>4. Fine(y)
    BY <1>1, <2>3, FineIs
  <2>5. y.work = BaseTree /\ y.work # y.head.tree
    BY <1>2, <1>4, <2>1, <2>3
  <2>6. x.head.tree = y.work /\ x.work = y.work /\ x.up = y.up /\ x.ok = y.ok
    BY <1>2, <2>3, <2>5, CommitAllIs
  <2>7. Fine(x)
    BY <2>4, <2>6, FineIs
  <2>8. Body(SubmoduleMoved, "remove", r) = x
    BY <1>1, <2>4, SubmoduleBodies DEF x, y
  <2>9. x.head.tree = BaseTree /\ x.work = BaseTree /\ x.up.tree = UpstreamPinned(state)
    BY <1>2, <2>3, <2>5, <2>6
  <2> HIDE DEF x
  <2>10. recorded_state_intact(SubmoduleMoved, x)
    BY <2>9, SubmoduleIntact
  <2>11. CASE state = "init"
    <3>1. ~SubmoduleCheck(x, SubmoduleRecord(state))
      BY <1>3, <2>9, <2>11, SubmoduleCheckIs
    <3> QED
      BY <2>8, <2>11, <3>1
  <2>12. CASE state = "repin"
    <3>1. UpstreamPinned(state) = BaseTree \cup {Grown, Declaration}
      BY <2>12 DEF UpstreamPinned
    <3>2. Part(x.head.tree, Nested) # Part(x.up.tree, Nested)
      BY <1>3, <2>9, <3>1
    <3>3. ~SubmoduleCheck(x, SubmoduleRecord(state))
      BY <2>12, <3>2, SubmoduleCheckIs
    <3> QED
      BY <2>8, <2>12, <3>3
  <2>13. CASE state = "remove"
    <3>1. SubmoduleCheck(x, SubmoduleRecord(state))
      BY <1>3, <1>4, <2>9, <2>13, SubmoduleCheckIs
    <3> QED
      BY <2>7, <2>8, <2>10, <2>13, <3>1
  <2> QED
    BY <2>11, <2>12, <2>13 DEF SubmoduleStates
<1> HIDE DEF Good
<1>8. ASSUME NEW v \in SubmoduleStates
      PROVE  Good(Body(SubmoduleMoved, v, r)) <=> v = state
  BY <1>5, <1>6, <1>7 DEF SubmoduleStates
<1> QED
  BY <1>8 DEF Good

-----------------------------------------------------------------------------
(* lockfile_conflict.                                                       *)

LEMMA LockLineIs ==
    ASSUME NEW k, NEW v, NEW l, l = LockLine(k, v)
    PROVE  l.file = Lock /\ l.at = "packages" /\ l.key = k /\ l.value = v
BY DEF LockLine, Line

LEMMA PackagesDiffer ==
    ASSUME NEW m, NEW n, m # n
    PROVE  Package(m) # Package(n) /\ Version(m) # Version(n) /\ Package(m) # Version(n)
<1> DEFINE a == Package(m)
           b == Package(n)
           c == Version(m)
           d == Version(n)
<1>1. a.value = m /\ a.key = "package"
  BY DEF Package, LockLine, Line
<1>2. b.value = n /\ b.key = "package"
  BY DEF Package, LockLine, Line
<1>3. c.value = m /\ c.key = "version"
  BY DEF Version, LockLine, Line
<1>4. d.value = n /\ d.key = "version"
  BY DEF Version, LockLine, Line
<1> HIDE DEF a, b, c, d
<1>5. a # b /\ c # d /\ a # d
  BY <1>1, <1>2, <1>3, <1>4
<1> QED
  BY <1>5 DEF a, b, c, d

Packages == {Package("core"), Package("zlib"), Package("birch"), Package("elder")}
Versions == {Version("base"), Version("ours"), Version("theirs")}

LEMMA LockLinesAre ==
    /\ \A l \in Packages : l.key = "package"
    /\ \A l \in Versions : l.key = "version"
    /\ Shape.key = "packages"
    /\ \A l \in Packages \cup Versions \cup {Shape} : l.file = Lock /\ l.at = "packages"
<1>1. \A n : Package(n).key = "package" /\ Package(n).file = Lock /\ Package(n).at = "packages"
  BY DEF Package, LockLine, Line
<1>2. \A n : Version(n).key = "version" /\ Version(n).file = Lock /\ Version(n).at = "packages"
  BY DEF Version, LockLine, Line
<1>3. Shape.key = "packages" /\ Shape.file = Lock /\ Shape.at = "packages"
  BY DEF Shape, LockLine, Line
<1> QED
  BY <1>1, <1>2, <1>3 DEF Packages, Versions

LEMMA LockDistinct ==
    /\ Version("base") # Version("ours") /\ Version("base") # Version("theirs")
    /\ Version("ours") # Version("theirs")
    /\ Package("zlib") # Package("core") /\ Package("zlib") # Package("birch")
    /\ Package("zlib") # Package("elder") /\ Package("core") # Package("birch")
    /\ Package("core") # Package("elder") /\ Package("birch") # Package("elder")
    /\ Lock \notin {App, Readme}
<1>1. Lock \notin {App, Readme}
  BY DEF Lock, App, Readme
<1>2. /\ Version("base") # Version("ours") /\ Version("base") # Version("theirs")
      /\ Version("ours") # Version("theirs")
  BY PackagesDiffer
<1>3. /\ Package("zlib") # Package("core") /\ Package("zlib") # Package("birch")
      /\ Package("zlib") # Package("elder") /\ Package("core") # Package("birch")
      /\ Package("core") # Package("elder") /\ Package("birch") # Package("elder")
  BY PackagesDiffer
<1> QED
  BY <1>1, <1>2, <1>3

OurLock(state) == LockEdited(state, "local_removed", "ours", "birch")
TheirLock(state) == LockEdited(state, "upstream_removed", "theirs", "elder")

OurLockCommits == {"base", "lock", "ours"}
TheirLockCommits == {"base", "lock", "theirs"}

LockState(state, r) ==
    /\ IsClone(r)
    /\ r.base = BaseTree \cup LockBase
    /\ r.head.commits = OurLockCommits /\ r.head.tree = BaseTree \cup OurLock(state)
    /\ r.up.commits = TheirLockCommits /\ r.up.tree = BaseTree \cup TheirLock(state)
    /\ r.work = r.head.tree
    /\ r.ignored = {} /\ r.unmerged = {} /\ r.branch = "main" /\ r.tracks = "main"
    /\ r.others = {} /\ r.default = NoDefault

(* The clone of a state: each side rewrote the one lock file.               *)
LEMMA LockCloneIs ==
    ASSUME NEW state, NEW r, r = LockClone(state)
    PROVE  LockState(state, r) /\ Fine(r)
<1> DEFINE ours == Tip(OurLockCommits, BaseTree \cup OurLock(state))
           theirs == Tip(TheirLockCommits, BaseTree \cup TheirLock(state))
           base == BaseTree \cup LockBase
<1>1. r = Clone(base, ours, theirs, {})
  BY DEF LockClone, OurLock, TheirLock, OurLockCommits, TheirLockCommits
<1>2. /\ ours.commits = OurLockCommits /\ ours.tree = BaseTree \cup OurLock(state)
      /\ theirs.commits = TheirLockCommits /\ theirs.tree = BaseTree \cup TheirLock(state)
  BY TipIs
<1> HIDE DEF ours, theirs, base
<1>3. /\ IsClone(r)
      /\ r.base = base /\ r.head = ours /\ r.up = theirs /\ r.work = ours.tree
      /\ r.ignored = {} /\ r.unmerged = {} /\ r.branch = "main"
      /\ r.others = {} /\ r.tracks = "main"
  BY <1>1, CleanCloneIs
<1>4. r.default = NoDefault
  BY <1>1, CloneIsFresh
<1>5. Fine(r)
  BY <1>1, CloneIsFresh
<1>6. LockState(state, r)
  BY <1>2, <1>3, <1>4 DEF LockState, base
<1> QED
  BY <1>5, <1>6

LockStates == {"additions_only", "upstream_removed", "local_removed"}

LEMMA LockSidesAre ==
    ASSUME NEW state \in LockStates
    PROVE  /\ LockBase = {Shape, Version("base"), Package("core"), Package("zlib")}
           /\ OurLock(state) = {Shape, Version("ours"), Package("birch"), Package("core")}
                  \cup (IF state = "local_removed" THEN {} ELSE {Package("zlib")})
           /\ TheirLock(state) = {Shape, Version("theirs"), Package("elder"), Package("core")}
                  \cup (IF state = "upstream_removed" THEN {} ELSE {Package("zlib")})
           /\ LockBase \cup OurLock(state) \cup TheirLock(state)
                  \subseteq Packages \cup Versions \cup {Shape}
<1>1. LockBase = {Shape, Version("base"), Package("core"), Package("zlib")}
  BY DEF LockBase
<1>2. OurLock(state) = {Shape, Version("ours"), Package("birch"), Package("core")}
                  \cup (IF state = "local_removed" THEN {} ELSE {Package("zlib")})
  BY DEF OurLock, LockEdited
<1>3. TheirLock(state) = {Shape, Version("theirs"), Package("elder"), Package("core")}
                  \cup (IF state = "upstream_removed" THEN {} ELSE {Package("zlib")})
  BY DEF TheirLock, LockEdited
<1> QED
  BY <1>1, <1>2, <1>3 DEF Packages, Versions

LEMMA LockNotBase == \A l \in Packages \cup Versions \cup {Shape} : l \notin BaseTree
BY LockLinesAre, BaseLines, LockDistinct

(* Each side's lock file as git sees it: all at one place, changed by both. *)
LEMMA LockConflicts ==
    ASSUME NEW state \in LockStates, NEW B, B = BaseTree \cup LockBase,
           NEW O, O = BaseTree \cup OurLock(state), NEW T, T = BaseTree \cup TheirLock(state)
    PROVE  Conflicted(B, O, T) = {Lock}
<1>1. /\ \A l \in LockBase \cup OurLock(state) \cup TheirLock(state) :
             l.file = Lock /\ l.at = "packages"
      /\ \A l \in BaseTree : l.file # Lock
  BY LockSidesAre, LockLinesAre, LockDistinct, BaseLines
<1>2. /\ Version("ours") \in OurLock(state) /\ Version("theirs") \in TheirLock(state)
      /\ Version("base") \in LockBase
      /\ Version("ours") \notin LockBase \cup TheirLock(state)
      /\ Version("theirs") \notin LockBase
  <2>1. \A n, m : Version(n) # Package(m) /\ Version(n) # Shape
    <3>1. \A n : Version(n).key = "version" /\ Package(n).key = "package"
      BY DEF Version, Package, LockLine, Line
    <3> QED
      BY <3>1, LockLinesAre
  <2> QED
    BY <2>1, LockSidesAre, LockDistinct
<1>3. /\ Place(B, Lock, "packages") = LockBase
      /\ Place(O, Lock, "packages") = OurLock(state)
      /\ Place(T, Lock, "packages") = TheirLock(state)
  BY <1>1 DEF Place
<1>4. ConflictsIn(B, O, T, Lock)
  <2>1. Version("base") \in B /\ Version("base").file = Lock /\ Version("base").at = "packages"
    BY <1>1, <1>2
  <2> QED
    BY <1>2, <1>3, <2>1 DEF ConflictsIn
<1>5. Lock \in Files(B \cup O \cup T)
  BY <1>1, <1>2 DEF Files
<1>6. ASSUME NEW f, f # Lock PROVE ~ConflictsIn(B, O, T, f)
  <2>1. \A at : Place(B, f, at) = Place(BaseTree, f, at) /\ Place(O, f, at) = Place(BaseTree, f, at)
    BY <1>1, <1>6 DEF Place
  <2> QED
    BY <2>1 DEF ConflictsIn
<1> QED
  BY <1>4, <1>5, <1>6 DEF Conflicted

LEMMA LockCommitsAre ==
    ASSUME NEW r, r.head.commits = OurLockCommits, r.up.commits = TheirLockCommits
    PROVE  /\ ~TipContained(r) /\ Behind(r) \in Nat /\ Behind(r) > 0 /\ Behind(r) # 0
           /\ Ahead(r) \in Nat /\ Ahead(r) > 0
<1>1. r.up.commits \ r.head.commits = {"theirs"} /\ r.head.commits \ r.up.commits = {"ours"}
  BY DEF OurLockCommits, TheirLockCommits
<1>2. IsFiniteSet({"theirs"}) /\ IsFiniteSet({"ours"})
  BY FS_Singleton
<1> QED
  BY <1>1, <1>2, CountIs DEF TipContained, Behind, Ahead

(* A merge stopped, a file of it replaced, and its markers taken out.       *)
LEMMA MergeStoppedIs ==
    ASSUME NEW r, IsClone(r), NEW stopped, NEW work, NEW x, x = MergeStopped(r, stopped, work)
    PROVE  /\ IsClone(x)
           /\ x.base = r.base /\ x.head = r.head /\ x.up = r.up /\ x.work = work
           /\ x.ignored = r.ignored /\ x.unmerged = stopped
BY DEF IsClone, MergeStopped

Resumed(r, ok, work) == [r EXCEPT !.ok = ok, !.work = work]

(* The merge is concluded once no file is unmerged.                         *)
LEMMA ResumedIs ==
    ASSUME NEW r, IsClone(r), NEW ok, NEW work, NEW x, x = Resumed(r, ok, work)
    PROVE  /\ IsClone(x)
           /\ x.base = r.base /\ x.head = r.head /\ x.up = r.up /\ x.work = work
           /\ x.ignored = r.ignored /\ x.unmerged = r.unmerged /\ x.ok = ok
BY DEF IsClone, Resumed

Resume(r, lines) ==
    [Replace([r EXCEPT !.ok = TRUE], Lock, lines) EXCEPT !.work = @ \ Markers({Lock})]

Resumption(r, lines) == (Without(r.work, Lock) \cup lines) \ Markers({Lock})

LEMMA ResumeIs ==
    ASSUME NEW r, IsClone(r), NEW lines, NEW x, x = Resume(r, lines)
    PROVE  /\ IsClone(x) /\ Fine(x)
           /\ x.base = r.base /\ x.head = r.head /\ x.up = r.up
           /\ x.work = Resumption(r, lines)
           /\ x.ignored = r.ignored /\ x.unmerged = r.unmerged
<1> DEFINE yes == TRUE
           a == Resumed(r, yes, r.work)
           b == WorksOn(a, Without(a.work, Lock) \cup lines)
           c == WorksOn(b, b.work \ Markers({Lock}))
<1>1. a = [r EXCEPT !.ok = TRUE]
  BY DEF Resumed, IsClone
<1>2. b = Replace(a, Lock, lines)
  BY DEF Replace, WorksOn
<1>3. c = x
  BY <1>1, <1>2 DEF Resume, WorksOn
<1> HIDE DEF yes
<1>4. /\ IsClone(a)
      /\ a.base = r.base /\ a.head = r.head /\ a.up = r.up /\ a.work = r.work
      /\ a.ignored = r.ignored /\ a.unmerged = r.unmerged /\ a.ok = yes
  BY ResumedIs
<1> DEFINE bw == Without(a.work, Lock) \cup lines
           cw == b.work \ Markers({Lock})
<1> HIDE DEF a, bw
<1>5. b = WorksOn(a, bw)
  BY DEF bw
<1> HIDE DEF b, cw
<1>6. /\ IsClone(b)
      /\ b.base = a.base /\ b.head = a.head /\ b.up = a.up /\ b.work = bw
      /\ b.ignored = a.ignored /\ b.unmerged = a.unmerged /\ b.ok = a.ok
  BY <1>4, <1>5, WorksOnIs
<1>7. c = WorksOn(b, cw)
  BY DEF cw
<1> HIDE DEF c
<1>8. /\ IsClone(c)
      /\ c.base = b.base /\ c.head = b.head /\ c.up = b.up /\ c.work = cw
      /\ c.ignored = b.ignored /\ c.unmerged = b.unmerged /\ c.ok = b.ok
  BY <1>6, <1>7, WorksOnIs
<1>9. x.ok = yes
  BY <1>3, <1>4, <1>6, <1>8
<1>10. Fine(x)
  BY <1>9, Zenon DEF Fine, yes
<1>11. c.work = Resumption(r, lines)
  BY <1>4, <1>6, <1>8 DEF bw, cw, Resumption
<1> QED
  BY <1>3, <1>4, <1>6, <1>8, <1>10, <1>11

LEMMA ConcludedIs ==
    ASSUME NEW r, IsClone(r), r.ignored = {}, r.unmerged # {}, NEW x, x = CommitAll(r)
    PROVE  /\ IsClone(x)
           /\ x.base = r.base /\ x.up = r.up /\ x.work = r.work
           /\ x.head.commits = r.head.commits \cup {"work"} \cup (r.up.commits \cup {"merge"})
           /\ x.head.tree = r.work /\ x.ok = r.ok
<1> DEFINE tree == {l \in r.work : l.file \in Files(r.head.tree) \/ l.file \notin r.ignored}
           more == IF r.unmerged # {} THEN r.up.commits \cup {"merge"} ELSE {}
           tip == [commits |-> r.head.commits \cup {"work"} \cup more, tree |-> tree]
<1>1. tree = r.work
  OBVIOUS
<1>2. more = r.up.commits \cup {"merge"}
  OBVIOUS
<1>3. x = Committed(r, tip)
  BY DEF CommitAll, Committed
<1>4. tip.commits = r.head.commits \cup {"work"} \cup more /\ tip.tree = tree
  OBVIOUS
<1> HIDE DEF tip
<1>5. /\ IsClone(x)
      /\ x.base = r.base /\ x.head = tip /\ x.up = r.up /\ x.work = r.work /\ x.ok = r.ok
  BY <1>3, CommittedIs
<1> HIDE DEF tree, more
<1> QED
  BY <1>1, <1>2, <1>4, <1>5

LEMMA MarkersAre == \A l \in Markers({Lock}) : l.file = Lock /\ l.at = "conflict"
<1> DEFINE k == Line(Lock, "conflict", "<<<<<<<", "")
<1>1. k.file = Lock /\ k.at = "conflict"
  BY DEF Line
<1>2. Markers({Lock}) = {k}
  BY DEF Markers
<1> HIDE DEF k
<1> QED
  BY <1>1, <1>2

Added(additions) ==
    {l \in additions \ (BaseTree \cup LockBase) : l.file = Lock /\ l.key = "package"}

Onto(side, added) == BaseTree \cup side \cup added

(* The lock rebuilt from one side: that side's lines and what is added.     *)
Based(side, S) == side = BaseTree \cup S

OfTheLock(S, A) == S \cup A \subseteq Packages \cup Versions \cup {Shape}

Rebuilt(x, S, A) ==
    /\ Fine(x)
    /\ x.up.commits = TheirLockCommits /\ TheirLockCommits \subseteq x.head.commits
    /\ x.head.tree = Onto(S, A) /\ x.work = x.head.tree

LEMMA RebuildIs ==
    ASSUME NEW state \in LockStates, NEW r, LockState(state, r), Fine(r),
           NEW side, NEW additions, NEW S, NEW A, Based(side, S), OfTheLock(S, A),
           A = Added(additions), NEW x, x = Rebuild(r, side, additions)
    PROVE  Rebuilt(x, S, A)
<1>0. side = BaseTree \cup S /\ S \cup A \subseteq Packages \cup Versions \cup {Shape}
  BY DEF Based, OfTheLock
<1> DEFINE m == MergeUpstream(r)
           all == Merged(r.base, r.head.tree, r.up.tree)
           marked == Merged(r.head.tree, r.work, all) \cup Markers({Lock})
<1>1. /\ IsClone(r)
      /\ r.base = BaseTree \cup LockBase
      /\ r.head.commits = OurLockCommits /\ r.head.tree = BaseTree \cup OurLock(state)
      /\ r.up.commits = TheirLockCommits /\ r.up.tree = BaseTree \cup TheirLock(state)
      /\ r.work = r.head.tree
      /\ r.ignored = {} /\ r.unmerged = {}
  BY DEF LockState
<1>2. ~TipContained(r) /\ Behind(r) \in Nat /\ Behind(r) > 0 /\ Behind(r) # 0
  BY <1>1, LockCommitsAre
<1>3. Conflicted(r.base, r.head.tree, r.up.tree) = {Lock}
  BY <1>1, LockConflicts
<1>4. MergeBase(r) = r.base
  BY <1>2 DEF MergeBase
<1>5. Collisions(r) = {} /\ DirtyFiles(r) = {}
  BY <1>1, CleanIs
<1>6. m = MergeStopped(r, {Lock}, marked)
  BY <1>1, <1>2, <1>3, <1>5 DEF MergeUpstream, MergeStopped
<1> HIDE DEF m, marked
<1>7. /\ IsClone(m)
      /\ m.base = r.base /\ m.head = r.head /\ m.up = r.up /\ m.work = marked
      /\ m.ignored = r.ignored /\ m.unmerged = {Lock}
  BY <1>1, <1>6, MergeStoppedIs
<1>8. Lock \in ConflictFiles(r) /\ m.unmerged # {}
  BY <1>3, <1>4, <1>7 DEF ConflictFiles
<1> DEFINE lines == Part(side, Lock) \cup A
           y == Resume(m, lines)
<1>9. A = {l \in additions \ MergeBase(r) : l.file = Lock /\ l.key = "package"}
  BY <1>1, <1>4 DEF Added
<1>12. x = CommitAll(y)
  BY <1>8, <1>9 DEF Rebuild, Resume, m
<1>13. Resumption(m, lines) = Onto(S, A)
  <2>1. \A l \in S \cup A : l.file = Lock /\ l.at = "packages"
    BY <1>0, LockLinesAre
  <2>2. \A l \in BaseTree : l.file # Lock
    BY BaseLines, LockDistinct
  <2>3. \A l \in LockBase \cup OurLock(state) \cup TheirLock(state) : l.file = Lock
    BY LockSidesAre, LockLinesAre
  <2>4. \A l \in Markers({Lock}) : l.file = Lock /\ l.at = "conflict"
    BY MarkersAre
  <2>5. Part(side, Lock) = S
    BY <1>0, <2>1, <2>2 DEF Part
  <2>6. \A l \in all : l \in BaseTree \/ l.file = Lock
    BY <1>1, <2>3 DEF Merged
  <2>7. BaseTree \subseteq all
    BY <1>1 DEF Merged
  <2>8. \A l : l \in marked <=> l \in all \/ l \in Markers({Lock})
    BY <1>1 DEF Merged, marked
  <2> HIDE DEF all
  <2>9. Without(m.work, Lock) = BaseTree
    BY <1>7, <2>2, <2>4, <2>6, <2>7, <2>8 DEF Without, Part
  <2>10. Markers({Lock}) \cap (BaseTree \cup S \cup A) = {}
    BY <2>1, <2>2, <2>4
  <2> QED
    BY <2>5, <2>9, <2>10 DEF Resumption, Onto
<1> HIDE DEF lines, y
<1>14. y = Resume(m, lines)
  BY DEF y
<1>15. /\ IsClone(y) /\ Fine(y)
       /\ y.base = m.base /\ y.head = m.head /\ y.up = m.up
       /\ y.work = Resumption(m, lines)
       /\ y.ignored = m.ignored /\ y.unmerged = m.unmerged
  BY <1>7, <1>14, ResumeIs
<1>16. /\ x.up = y.up /\ x.work = y.work
       /\ x.head.commits = y.head.commits \cup {"work"} \cup (y.up.commits \cup {"merge"})
       /\ x.head.tree = y.work /\ x.ok = y.ok
  BY <1>1, <1>7, <1>8, <1>12, <1>15, ConcludedIs
<1>17. Fine(x)
  BY <1>15, <1>16, FineIs
<1> QED
  BY <1>1, <1>7, <1>13, <1>15, <1>16, <1>17 DEF Rebuilt

(* The bodies, the record and what its check asks.                          *)
LEMMA LockBodies ==
    ASSUME NEW r
    PROVE  /\ Body(LockfileConflict, "take_upstream", r) = Rebuild(r, r.up.tree, r.head.tree)
           /\ Body(LockfileConflict, "keep_local", r) = Rebuild(r, r.head.tree, r.up.tree)
BY DEF Body, BranchRenamed, ConfigRenamed, DirtyTree, Diverged, LockfileConflict

LEMMA LockRecordIs ==
    ASSUME NEW state, NEW d, d = LockRecord(state)
    PROVE  /\ d.added = {Package("birch"), Package("elder")}
           /\ d.removed = IF state = "additions_only" THEN {} ELSE {Package("zlib")}
<1>1. d.added = {Package("birch"), Package("elder")}
  BY DEF LockRecord, Unrecorded
<1>2. d.removed = IF state = "additions_only" THEN {} ELSE {Package("zlib")}
  BY DEF LockRecord, Unrecorded
<1> QED
  BY <1>1, <1>2

LEMMA LockGrade ==
    ASSUME NEW state, NEW x, NEW F, NEW n, F \subseteq Packages \cup {Version(n)} \cup {Shape},
           Version(n) \in Versions, Version(n) \in F,
           Package("birch") \in F, Package("elder") \in F,
           x.up.commits = TheirLockCommits, TheirLockCommits \subseteq x.head.commits,
           x.head.tree = BaseTree \cup F, x.work = x.head.tree
    PROVE  /\ recorded_state_intact(LockfileConflict, x)
           /\ LockCheck(x, LockRecord(state))
                  <=> state = "additions_only" \/ Package("zlib") \notin F
<1> DEFINE d == LockRecord(state)
<1>1. TipContained(x)
  BY DEF TipContained
<1>2. d.added = {Package("birch"), Package("elder")}
      /\ d.removed = IF state = "additions_only" THEN {} ELSE {Package("zlib")}
  BY LockRecordIs
<1> HIDE DEF d
<1>3. \A l \in F : l.file = Lock /\ l.at = "packages" /\ (l.key = "version" <=> l = Version(n))
  BY LockLinesAre
<1>4. \A l \in BaseTree : l.at = "body" /\ l.file # Lock
  BY BaseLines, LockDistinct
<1>5. \A l \in x.work : l.at # "conflict"
  BY <1>3, <1>4
<1>6. {l \in Part(x.work, Lock) : l.key = "version"} = {Version(n)}
  BY <1>3, <1>4 DEF Part
<1>7. Cardinality({l \in Part(x.work, Lock) : l.key = "version"}) = 1
  BY <1>6, FS_Singleton
<1>8. d.added \subseteq x.work
  BY <1>2
<1>9. d.removed \cap x.work = {} <=> state = "additions_only" \/ Package("zlib") \notin F
  <2>1. Package("zlib") \notin BaseTree
    BY LockNotBase DEF Packages
  <2> QED
    BY <1>2, <2>1
<1>10. LockCheck(x, d) <=> state = "additions_only" \/ Package("zlib") \notin F
  BY <1>1, <1>5, <1>7, <1>8, <1>9 DEF LockCheck
<1>11. Changed(BaseTree, x.head.tree) \subseteq {Lock}
  <2>1. Changed(BaseTree, x.head.tree) = Files(F \ BaseTree)
    BY ChangedIs
  <2>2. Files(F \ BaseTree) \subseteq {Lock}
    BY <1>3 DEF Files
  <2> QED
    BY <2>1, <2>2
<1>12. recorded_state_intact(LockfileConflict, x)
  BY <1>11, SurfaceIs DEF recorded_state_intact
<1> QED
  BY <1>10, <1>12 DEF d

(* What each side has beyond the common lock.                               *)
LEMMA LockAdditions ==
    ASSUME NEW state \in LockStates
    PROVE  /\ Added(BaseTree \cup OurLock(state)) = {Package("birch")}
           /\ Added(BaseTree \cup TheirLock(state)) = {Package("elder")}
<1>1. /\ \A n \in {"core", "zlib", "birch", "elder"} : Package(n).key = "package" /\ Package(n).file = Lock
      /\ \A n \in {"base", "ours", "theirs"} : Version(n).key = "version"
      /\ Shape.key = "packages"
  BY LockLinesAre DEF Packages, Versions
<1>2. Package("birch") \notin BaseTree /\ Package("elder") \notin BaseTree
  BY LockNotBase DEF Packages
<1>3. Package("birch") \notin LockBase /\ Package("elder") \notin LockBase
  BY <1>1, LockSidesAre, LockDistinct
<1>4. \A l \in (BaseTree \cup OurLock(state)) \ (BaseTree \cup LockBase) :
          l.key = "package" => l = Package("birch")
  BY <1>1, LockSidesAre
<1>5. \A l \in (BaseTree \cup TheirLock(state)) \ (BaseTree \cup LockBase) :
          l.key = "package" => l = Package("elder")
  BY <1>1, LockSidesAre
<1>6. Package("birch") \in OurLock(state) /\ Package("elder") \in TheirLock(state)
  BY LockSidesAre
<1> DEFINE O == BaseTree \cup OurLock(state)
           T == BaseTree \cup TheirLock(state)
           B == BaseTree \cup LockBase
<1>7. \A l : l \in O \ B /\ l.file = Lock /\ l.key = "package" <=> l = Package("birch")
  BY <1>1, <1>2, <1>3, <1>4, <1>6
<1>8. \A l : l \in T \ B /\ l.file = Lock /\ l.key = "package" <=> l = Package("elder")
  BY <1>1, <1>2, <1>3, <1>5, <1>6
<1> HIDE DEF O, T, B
<1>9. {l \in O \ B : l.file = Lock /\ l.key = "package"} = {Package("birch")}
  BY <1>7
<1>10. {l \in T \ B : l.file = Lock /\ l.key = "package"} = {Package("elder")}
  BY <1>8
<1> QED
  BY <1>9, <1>10 DEF O, T, B, Added

(* Either side passes, unless one removed lines: then only that side.       *)
LEMMA LockPassing ==
    ASSUME NEW state \in LockStates, NEW r, r = LockClone(state)
    PROVE  \A v \in {"take_upstream", "keep_local"} :
               LET x == Body(LockfileConflict, v, r)
               IN  Fine(x) /\ LockCheck(x, LockRecord(state))
                       /\ recorded_state_intact(LockfileConflict, x)
                   <=> \/ state = "additions_only"
                       \/ v = "take_upstream" /\ state = "upstream_removed"
                       \/ v = "keep_local" /\ state = "local_removed"
<1> DEFINE O == OurLock(state)
           T == TheirLock(state)
           u == Body(LockfileConflict, "take_upstream", r)
           k == Body(LockfileConflict, "keep_local", r)
<1>1. LockState(state, r) /\ Fine(r)
  BY LockCloneIs
<1>2. r.head.tree = BaseTree \cup O /\ r.up.tree = BaseTree \cup T
  BY <1>1 DEF LockState
<1>3. /\ O = {Shape, Version("ours"), Package("birch"), Package("core")}
                  \cup (IF state = "local_removed" THEN {} ELSE {Package("zlib")})
      /\ T = {Shape, Version("theirs"), Package("elder"), Package("core")}
                  \cup (IF state = "upstream_removed" THEN {} ELSE {Package("zlib")})
  BY LockSidesAre
<1>4. O \subseteq Packages \cup {Version("ours")} \cup {Shape}
      /\ T \subseteq Packages \cup {Version("theirs")} \cup {Shape}
      /\ Version("ours") \in Versions /\ Version("theirs") \in Versions
      /\ {Package("birch"), Package("elder")} \subseteq Packages
  BY <1>3 DEF Packages, Versions
<1>5. Package("zlib") \in O <=> state # "local_removed"
  <2>1. Package("zlib") # Version("ours") /\ Package("zlib") # Shape
    <3>1. Package("zlib").key = "package" /\ Version("ours").key = "version" /\ Shape.key = "packages"
      BY LockLinesAre DEF Packages, Versions
    <3> QED
      BY <3>1
  <2> QED
    BY <1>3, <2>1, LockDistinct
<1>6. Package("zlib") \in T <=> state # "upstream_removed"
  <2>1. Package("zlib") # Version("theirs") /\ Package("zlib") # Shape
    <3>1. Package("zlib").key = "package" /\ Version("theirs").key = "version" /\ Shape.key = "packages"
      BY LockLinesAre DEF Packages, Versions
    <3> QED
      BY <3>1
  <2> QED
    BY <1>3, <2>1, LockDistinct
<1>7. /\ Version("theirs") \in T /\ Package("elder") \in T
      /\ Version("ours") \in O /\ Package("birch") \in O
  BY <1>3
<1>8. u = Rebuild(r, r.up.tree, r.head.tree) /\ k = Rebuild(r, r.head.tree, r.up.tree)
  BY LockBodies
<1> DEFINE A == {Package("birch")}
           E == {Package("elder")}
<1>9. A = Added(r.head.tree) /\ E = Added(r.up.tree)
  BY <1>2, LockAdditions
<1>91. A \subseteq Packages /\ E \subseteq Packages /\ Package("birch") \in A
       /\ Package("elder") \in E
       /\ (Package("zlib") \notin A) /\ (Package("zlib") \notin E)
  BY <1>4, LockDistinct
<1> HIDE DEF O, T, u, k, A, E
<1>10. /\ Fine(u)
       /\ u.up.commits = TheirLockCommits /\ TheirLockCommits \subseteq u.head.commits
       /\ u.head.tree = Onto(T, A) /\ u.work = u.head.tree
  <2>1. OfTheLock(T, A)
    BY <1>4, <1>91 DEF OfTheLock
  <2>2. Based(r.up.tree, T)
    BY <1>2 DEF Based
  <2>3. Rebuilt(u, T, A)
    BY <1>1, <1>8, <1>9, <2>1, <2>2, RebuildIs
  <2> QED
    BY <2>3 DEF Rebuilt
<1>11. /\ Fine(k)
       /\ k.up.commits = TheirLockCommits /\ TheirLockCommits \subseteq k.head.commits
       /\ k.head.tree = Onto(O, E) /\ k.work = k.head.tree
  <2>1. OfTheLock(O, E)
    BY <1>4, <1>91 DEF OfTheLock
  <2>2. Based(r.head.tree, O)
    BY <1>2 DEF Based
  <2>3. Rebuilt(k, O, E)
    BY <1>1, <1>8, <1>9, <2>1, <2>2, RebuildIs
  <2> QED
    BY <2>3 DEF Rebuilt
<1>12. /\ recorded_state_intact(LockfileConflict, u)
       /\ LockCheck(u, LockRecord(state)) <=> state = "additions_only" \/ Package("zlib") \notin T
  <2> DEFINE F == T \cup A
  <2>1. /\ F \subseteq Packages \cup {Version("theirs")} \cup {Shape} /\ Version("theirs") \in F
        /\ Package("birch") \in F /\ Package("elder") \in F
        /\ (Package("zlib") \in F <=> Package("zlib") \in T)
    BY <1>4, <1>7, <1>91
  <2>2. u.head.tree = BaseTree \cup F
    BY <1>10 DEF Onto
  <2> HIDE DEF F
  <2>3. /\ recorded_state_intact(LockfileConflict, u)
        /\ LockCheck(u, LockRecord(state)) <=> state = "additions_only" \/ Package("zlib") \notin F
    BY <1>4, <1>10, <2>1, <2>2, LockGrade
  <2> QED
    BY <2>1, <2>3
<1>13. /\ recorded_state_intact(LockfileConflict, k)
       /\ LockCheck(k, LockRecord(state)) <=> state = "additions_only" \/ Package("zlib") \notin O
  <2> DEFINE F == O \cup E
  <2>1. /\ F \subseteq Packages \cup {Version("ours")} \cup {Shape} /\ Version("ours") \in F
        /\ Package("birch") \in F /\ Package("elder") \in F
        /\ (Package("zlib") \in F <=> Package("zlib") \in O)
    BY <1>4, <1>7, <1>91
  <2>2. k.head.tree = BaseTree \cup F
    BY <1>11 DEF Onto
  <2> HIDE DEF F
  <2>3. /\ recorded_state_intact(LockfileConflict, k)
        /\ LockCheck(k, LockRecord(state)) <=> state = "additions_only" \/ Package("zlib") \notin F
    BY <1>4, <1>11, <2>1, <2>2, LockGrade
  <2> QED
    BY <2>1, <2>3
<1>14. Fine(u) /\ LockCheck(u, LockRecord(state)) /\ recorded_state_intact(LockfileConflict, u)
           <=> state \in {"additions_only", "upstream_removed"}
  BY <1>6, <1>10, <1>12 DEF LockStates
<1>15. Fine(k) /\ LockCheck(k, LockRecord(state)) /\ recorded_state_intact(LockfileConflict, k)
           <=> state \in {"additions_only", "local_removed"}
  BY <1>5, <1>11, <1>13 DEF LockStates
<1>16. ASSUME NEW v \in {"take_upstream", "keep_local"}, NEW x, x = Body(LockfileConflict, v, r)
       PROVE  Fine(x) /\ LockCheck(x, LockRecord(state))
                       /\ recorded_state_intact(LockfileConflict, x)
                   <=> \/ state = "additions_only"
                       \/ v = "take_upstream" /\ state = "upstream_removed"
                       \/ v = "keep_local" /\ state = "local_removed"
  <2>1. CASE v = "take_upstream"
    <3>1. x = u
      BY <1>16, <2>1 DEF u
    <3> QED
      BY <1>14, <2>1, <3>1
  <2>2. CASE v = "keep_local"
    <3>1. x = k
      BY <1>16, <2>2 DEF k
    <3> QED
      BY <1>15, <2>2, <3>1
  <2> QED
    BY <1>16, <2>1, <2>2
<1> QED
  BY <1>16

-----------------------------------------------------------------------------
(* config_renamed.                                                          *)

LEMMA SetsIs ==
    ASSUME NEW f, NEW k, NEW v
    PROVE  Sets(f, k, v).file = f /\ Sets(f, k, v).key = k /\ Sets(f, k, v).value = v
BY DEF Sets, Line

LEMMA SetsDiffer ==
    ASSUME NEW f, NEW k, NEW v, NEW g, NEW j, NEW w, f # g \/ k # j \/ v # w
    PROVE  Sets(f, k, v) # Sets(g, j, w)
<1> DEFINE a == Sets(f, k, v)
           b == Sets(g, j, w)
<1>1. a.file = f /\ a.key = k /\ a.value = v
  BY SetsIs
<1>2. b.file = g /\ b.key = j /\ b.value = w
  BY SetsIs
<1> HIDE DEF a, b
<1>3. a # b
  BY <1>1, <1>2
<1> QED
  BY <1>3 DEF a, b

NewValue == "new value"
OldValue == "old value"

(* p is the pair the seed drew, and q the other.                            *)
Pairs(p, q) ==
    /\ RENAMES = {p, q}
    /\ OldNames = {p.old, q.old}
    /\ p.old # q.old /\ p.new # q.new
    /\ p.new \notin {p.old, q.old} /\ q.new \notin {p.old, q.old}
    /\ "local_note" \notin {p.old, q.old}
    /\ Migrated = {Sets(Settings, p.new, NewValue), Sets(Settings, q.new, NewValue)}

LEMMA PairDrawn == ASSUME NEW other \in BOOLEAN PROVE \E q : Pairs(Pair(other), q)
<1> DEFINE t == [old |-> "timeout", new |-> "timeout_s"]
           c == [old |-> "cache", new |-> "cache_dir"]
<1>1. t.old = "timeout" /\ t.new = "timeout_s" /\ c.old = "cache" /\ c.new = "cache_dir"
  OBVIOUS
<1>2. RENAMES = {t, c}
  BY DEF RENAMES
<1> HIDE DEF t, c
<1>3. OldNames = {t.old, c.old}
  BY <1>2 DEF OldNames
<1>4. Migrated = {Sets(Settings, t.new, NewValue), Sets(Settings, c.new, NewValue)}
  BY <1>2 DEF Migrated, NewValue
<1>5. Pairs(t, c)
  BY <1>1, <1>2, <1>3, <1>4 DEF Pairs
<1>6. Pairs(c, t)
  BY <1>1, <1>2, <1>3, <1>4 DEF Pairs
<1>7. Pair(other) = IF other THEN c ELSE t
  <2>1. \A pair \in RENAMES : (pair.old = "cache") <=> pair = c
    BY <1>1, <1>2
  <2>2. CASE other
    <3>1. Pair(other) = CHOOSE pair \in RENAMES : pair = c
      BY <2>1, <2>2 DEF Pair
    <3> QED
      BY <1>2, <2>2, <3>1
  <2>3. CASE ~other
    <3>1. Pair(other) \in RENAMES /\ ((Pair(other).old = "cache") <=> other)
      <4>1. t \in RENAMES /\ ((t.old = "cache") <=> other)
        BY <1>1, <1>2, <2>3
      <4> QED
        BY <4>1 DEF Pair
    <3> QED
      BY <1>2, <2>1, <2>3, <3>1
  <2> QED
    BY <2>2, <2>3
<1> QED
  BY <1>5, <1>6, <1>7

Fixed == BaseTree \cup TableLines \cup IgnoreLines

(* What the clone holds where its settings and override file say S and L.   *)
Configured(S, L) == Fixed \cup S \cup L

In(lines, file) == \A l \in lines : l.file = file

(* The files of config_renamed, and the body that renames in one.           *)
LEMMA ConfigFilesDiffer ==
    /\ Settings # Local /\ Table # Ignore
    /\ {Settings, Local} \cap {App, Readme, Table, Ignore} = {}
    /\ {Table, Ignore} \cap {App, Readme} = {}
BY DEF Settings, Local, App, Readme, Table, Ignore

LEMMA FixedIs ==
    /\ Part(Fixed, Table) = TableLines /\ Part(Fixed, Ignore) = IgnoreLines
    /\ \A l \in Fixed : l.file \in {App, Readme, Table, Ignore}
<1>1. In(TableLines, Table)
  <2>1. \A pair \in RENAMES : Sets(Table, pair.old, pair.new).file = Table
    BY SetsIs
  <2> QED
    BY <2>1 DEF TableLines, In
<1>2. In(IgnoreLines, Ignore)
  <2> DEFINE l == Line(Ignore, "body", Local, "")
  <2>1. l.file = Ignore
    BY DEF Line
  <2>2. IgnoreLines = {l}
    BY DEF IgnoreLines
  <2> HIDE DEF l
  <2> QED
    BY <2>1, <2>2 DEF In
<1>3. \A l \in BaseTree : l.file \in {App, Readme}
  BY BaseLines
<1>4. Part(Fixed, Table) = TableLines
  BY <1>1, <1>2, <1>3, ConfigFilesDiffer DEF Part, Fixed, In
<1>5. Part(Fixed, Ignore) = IgnoreLines
  BY <1>1, <1>2, <1>3, ConfigFilesDiffer DEF Part, Fixed, In
<1>6. \A l \in Fixed : l.file \in {App, Readme, Table, Ignore}
  BY <1>1, <1>2, <1>3 DEF Fixed, In
<1> QED
  BY <1>4, <1>5, <1>6

LEMMA ConfiguredIs ==
    ASSUME NEW S, NEW L, In(S, Settings), In(L, Local), NEW w, w = Configured(S, L)
    PROVE  /\ Part(w, Table) = TableLines /\ Part(w, Ignore) = IgnoreLines
           /\ Part(w, Settings) = S /\ Part(w, Local) = L
           /\ \A N : Without(w, Settings) \cup N = Configured(N, L)
           /\ \A N : Without(w, Local) \cup N = Configured(S, N)
<1> USE DEF In
<1>1. \A l \in Fixed : l.file # Settings /\ l.file # Local
  BY FixedIs, ConfigFilesDiffer
<1>2. Part(w, Settings) = S
  BY <1>1, ConfigFilesDiffer DEF Part, Configured
<1>3. Part(w, Local) = L
  BY <1>1, ConfigFilesDiffer DEF Part, Configured
<1>4. Part(w, Table) = Part(Fixed, Table)
  BY ConfigFilesDiffer DEF Part, Configured
<1>5. Part(w, Ignore) = Part(Fixed, Ignore)
  BY ConfigFilesDiffer DEF Part, Configured
<1>6. ASSUME NEW N PROVE Without(w, Settings) \cup N = Configured(N, L)
  <2>1. Without(w, Settings) = Fixed \cup L
    BY <1>1, <1>2, ConfigFilesDiffer DEF Without, Configured
  <2> QED
    BY <2>1 DEF Configured
<1>7. ASSUME NEW N PROVE Without(w, Local) \cup N = Configured(S, N)
  <2>1. Without(w, Local) = Fixed \cup S
    BY <1>1, <1>3, ConfigFilesDiffer DEF Without, Configured
  <2> QED
    BY <2>1 DEF Configured
<1> QED
  BY <1>2, <1>3, <1>4, <1>5, <1>6, <1>7, FixedIs

ConfigStates == {"stale_key", "both_keys", "local_override"}

(* Settings and override file of a state, and its clone.                    *)
LEMMA ConfigLinesAre ==
    ASSUME NEW state \in ConfigStates, NEW p, NEW q, Pairs(p, q)
    PROVE  /\ state = "stale_key" =>
                  SettingsLines(state, p) = {Sets(Settings, q.new, NewValue), Sets(Settings, p.old, NewValue)}
           /\ state = "both_keys" =>
                  SettingsLines(state, p) = Migrated \cup {Sets(Settings, p.old, OldValue)}
           /\ state = "local_override" => SettingsLines(state, p) = Migrated
           /\ LocalLines(state, p) =
                  IF state = "local_override" THEN {Sets(Local, p.old, OldValue), LocalNote} ELSE {}
           /\ In(SettingsLines(state, p), Settings) /\ In(LocalLines(state, p), Local)
           /\ In(Migrated, Settings)
<1> DEFINE a == Sets(Settings, p.new, NewValue)
           b == Sets(Settings, q.new, NewValue)
<1>1. Migrated = {a, b}
  BY DEF Pairs
<1>2. a # b
  BY SetsDiffer DEF Pairs
<1>3. a.file = Settings /\ b.file = Settings
  BY SetsIs
<1>4. Sets(Settings, p.old, NewValue).file = Settings /\ Sets(Settings, p.old, OldValue).file = Settings
  BY SetsIs
<1>50. LocalNote.file = Local
  BY DEF LocalNote, Sets, Line
<1>5. Sets(Local, p.old, OldValue).file = Local /\ LocalNote.file = Local
  BY <1>50, SetsIs
<1>6. state = "stale_key" => SettingsLines(state, p) = (Migrated \ {a}) \cup {Sets(Settings, p.old, NewValue)}
  BY DEF SettingsLines, NewValue
<1>7. state = "both_keys" => SettingsLines(state, p) = Migrated \cup {Sets(Settings, p.old, OldValue)}
  BY DEF SettingsLines, OldValue
<1>8. state = "local_override" => SettingsLines(state, p) = Migrated
  BY DEF SettingsLines
<1>9. LocalLines(state, p) =
                  IF state = "local_override" THEN {Sets(Local, p.old, OldValue), LocalNote} ELSE {}
  BY DEF LocalLines, OldValue
<1> HIDE DEF a, b
<1>10. state = "stale_key" => SettingsLines(state, p) = {b, Sets(Settings, p.old, NewValue)}
  BY <1>1, <1>2, <1>6
<1>11. In(Migrated, Settings)
  BY <1>1, <1>3 DEF In
<1>12. In(SettingsLines(state, p), Settings)
  BY <1>3, <1>4, <1>7, <1>8, <1>10, <1>11 DEF In, ConfigStates
<1>13. In(LocalLines(state, p), Local)
  BY <1>5, <1>9 DEF In
<1> QED
  BY <1>7, <1>8, <1>9, <1>10, <1>11, <1>12, <1>13 DEF b

(* A state of config_renamed: S and L what the settings and the override    *)
(* file hold.                                                               *)
ConfigState(r, S, L) ==
    /\ IsClone(r)
    /\ r.base = Configured(S, {}) /\ r.head = Tip({"base", "config"}, Configured(S, {}))
    /\ r.up = r.head /\ r.work = Configured(S, L)
    /\ r.ignored = {Local} /\ r.unmerged = {} /\ r.branch = "main"
    /\ r.others = {} /\ r.tracks = "main" /\ r.default = NoDefault

Ignoring(c, files) == [c EXCEPT !.ignored = files]

LEMMA IgnoringIs ==
    ASSUME NEW c, IsClone(c), NEW files, NEW x, x = Ignoring(c, files)
    PROVE  /\ IsClone(x)
           /\ x.base = c.base /\ x.head = c.head /\ x.up = c.up /\ x.work = c.work
           /\ x.ignored = files /\ x.unmerged = c.unmerged /\ x.branch = c.branch
           /\ x.tracks = c.tracks /\ x.others = c.others /\ x.default = c.default /\ x.ok = c.ok
           /\ x.initialised = c.initialised
BY DEF IsClone, Ignoring

LEMMA ConfigCloneIs ==
    ASSUME NEW state, NEW p, NEW r, r = ConfigClone(state, p)
    PROVE  ConfigState(r, SettingsLines(state, p), LocalLines(state, p)) /\ Fine(r)
           /\ ~Started(r)
<1> DEFINE S == SettingsLines(state, p)
           L == LocalLines(state, p)
           tree == BaseTree \cup TableLines \cup IgnoreLines \cup S
           tip == Tip({"base", "config"}, tree)
           c == Clone(tree, tip, tip, L)
<1>1. r = Ignoring(c, {Local})
  BY DEF ConfigClone, Ignoring
<1>2. tree = Configured(S, {})
  BY DEF Configured, Fixed
<1>3. tip.tree = tree
  BY TipIs
<1>4. tree \cup L = Configured(S, L)
  BY DEF Configured, Fixed
<1> HIDE DEF S, L, tree, tip
<1>5. /\ IsClone(c)
      /\ c.base = tree /\ c.head = tip /\ c.up = tip
      /\ c.unmerged = {} /\ c.branch = "main" /\ c.others = {} /\ c.tracks = "main"
  BY CloneIs
<1>6. c.work = tip.tree \cup L
  BY CloneWorks
<1>7. c.default = NoDefault
  BY CloneIsFresh
<1>8. Fine(c)
  BY CloneIsFresh
<1>81. ~Started(c)
  BY CloneIsFresh DEF Started
<1> HIDE DEF c
<1>9. /\ IsClone(r)
      /\ r.base = c.base /\ r.head = c.head /\ r.up = c.up /\ r.work = c.work
      /\ r.ignored = {Local} /\ r.unmerged = c.unmerged /\ r.branch = c.branch
      /\ r.tracks = c.tracks /\ r.others = c.others /\ r.default = c.default /\ r.ok = c.ok
      /\ r.initialised = c.initialised
  BY <1>1, <1>5, IgnoringIs
<1>10. Fine(r)
  BY <1>8, <1>9, FineIs
<1>101. ~Started(r)
  BY <1>81, <1>9, StartedIs
<1>11. ConfigState(r, S, L)
  BY <1>2, <1>3, <1>4, <1>5, <1>6, <1>7, <1>9 DEF ConfigState, tip
<1> QED
  BY <1>10, <1>101, <1>11 DEF S, L

(* What the injector recorded, and what its check asks.                     *)
LEMMA ConfigRecordIs ==
    ASSUME NEW state, NEW p, NEW d, d = ConfigRecord(state, p)
    PROVE  /\ d.state = state /\ d.settings = SettingsLines(state, p)
           /\ d.target = IF state = "local_override" THEN Local ELSE Settings
           /\ d.expected = IF state = "local_override"
                           THEN {Sets(Local, p.new, OldValue), LocalNote} ELSE Migrated
<1> USE DEF ConfigRecord, Unrecorded
<1>1. d.state = state
  OBVIOUS
<1>2. d.settings = SettingsLines(state, p)
  OBVIOUS
<1>3. d.target = IF state = "local_override" THEN Local ELSE Settings
  OBVIOUS
<1>4. d.expected = IF state = "local_override"
                           THEN {Sets(Local, p.new, OldValue), LocalNote} ELSE Migrated
  BY DEF OldValue
<1> QED
  BY <1>1, <1>2, <1>3, <1>4

ConfigSettled(state, p, S, N, M) ==
    /\ \A l \in N \cup M : l.key \notin OldNames
    /\ IF state = "local_override"
       THEN M = {Sets(Local, p.new, OldValue), LocalNote} /\ N = S
       ELSE N = Migrated

LEMMA ConfigGrade ==
    ASSUME NEW state, NEW p, NEW S, S = SettingsLines(state, p), In(S, Settings),
           NEW N, NEW M, In(N, Settings), In(M, Local), NEW x,
           x.work = Configured(N, M), x.head.tree = Configured(S, {})
    PROVE  /\ ConfigCheck(x, ConfigRecord(state, p)) <=> ConfigSettled(state, p, S, N, M)
           /\ recorded_state_intact(ConfigRenamed, x)
<1> DEFINE d == ConfigRecord(state, p)
<1>1. /\ d.state = state /\ d.settings = S
      /\ d.target = IF state = "local_override" THEN Local ELSE Settings
      /\ d.expected = IF state = "local_override"
                           THEN {Sets(Local, p.new, OldValue), LocalNote} ELSE Migrated
  BY ConfigRecordIs
<1> HIDE DEF d
<1>2. /\ Part(x.work, Table) = TableLines /\ Part(x.work, Ignore) = IgnoreLines
      /\ Part(x.work, Settings) = N /\ Part(x.work, Local) = M
  BY ConfiguredIs
<1>3. (\A l \in x.work : l.file \in ConfigFiles => l.key \notin OldNames)
          <=> \A l \in N \cup M : l.key \notin OldNames
  <2>1. \A l \in Fixed : l.file \notin ConfigFiles
    BY FixedIs, ConfigFilesDiffer DEF ConfigFiles
  <2>2. \A l \in N \cup M : l.file \in ConfigFiles
    BY DEF In, ConfigFiles
  <2> QED
    BY <2>1, <2>2 DEF Configured
<1>4. Local \notin Files(x.head.tree)
  <2>1. \A l \in Configured(S, {}) : l.file # Local
    BY FixedIs, ConfigFilesDiffer DEF Configured, In
  <2> QED
    BY <2>1 DEF Files
<1>5. ConfigCheck(x, d) <=> ConfigSettled(state, p, S, N, M)
  <2>1. CASE state = "local_override"
    <3>1. d.target = Local /\ d.expected = {Sets(Local, p.new, OldValue), LocalNote}
          /\ d.state = "local_override"
      BY <1>1, <2>1
    <3> QED
      BY <1>1, <1>2, <1>3, <1>4, <2>1, <3>1 DEF ConfigCheck, ConfigSettled
  <2>2. CASE state # "local_override"
    <3>1. d.target = Settings /\ d.expected = Migrated /\ d.state # "local_override"
      BY <1>1, <2>2
    <3> QED
      BY <1>2, <1>3, <2>2, <3>1 DEF ConfigCheck, ConfigSettled
  <2> QED
    BY <2>1, <2>2
<1>6. Changed(BaseTree, x.head.tree) \subseteq {Ignore, Table, Settings}
  <2> DEFINE more == TableLines \cup IgnoreLines \cup S
  <2>1. x.head.tree = BaseTree \cup more
    BY DEF Configured, Fixed
  <2>2. Changed(BaseTree, BaseTree \cup more) = Files(more \ BaseTree)
    BY ChangedIs
  <2>3. \A l \in more : l.file \in {Ignore, Table, Settings}
    <3>1. \A l \in TableLines : l.file = Table
      BY FixedIs DEF Part
    <3>2. \A l \in IgnoreLines : l.file = Ignore
      BY FixedIs DEF Part
    <3> QED
      BY <3>1, <3>2 DEF In
  <2> HIDE DEF more
  <2>4. Files(more \ BaseTree) \subseteq {Ignore, Table, Settings}
    BY <2>3 DEF Files
  <2> QED
    BY <2>1, <2>2, <2>4
<1>7. recorded_state_intact(ConfigRenamed, x)
  BY <1>6, SurfaceIs DEF recorded_state_intact
<1> QED
  BY <1>5, <1>7 DEF d

RenamedKey(l) ==
    IF \E pair \in RENAMES : pair.old = l.key
    THEN [l EXCEPT !.key = (CHOOSE pair \in RENAMES : pair.old = @).new] ELSE l

RenamedLines(lines) == {RenamedKey(l) : l \in lines}

(* The sed and the deletion, on one line and on a file's lines.             *)
LEMMA RenamedKeyIs ==
    ASSUME NEW p, NEW q, Pairs(p, q)
    PROVE  /\ \A f, v : RenamedKey(Sets(f, p.old, v)) = Sets(f, p.new, v)
           /\ \A l : l.key \notin OldNames => RenamedKey(l) = l
<1>1. ASSUME NEW f, NEW v PROVE RenamedKey(Sets(f, p.old, v)) = Sets(f, p.new, v)
  <2> DEFINE l == Sets(f, p.old, v)
  <2>1. l.key = p.old
    BY SetsIs
  <2>2. (CHOOSE pair \in RENAMES : pair.old = l.key) = p
    <3>1. \A pair \in RENAMES : pair.old = l.key <=> pair = p
      BY <2>1 DEF Pairs
    <3>2. p \in RENAMES
      BY DEF Pairs
    <3> HIDE DEF l
    <3> QED
      BY <3>1, <3>2
  <2>3. \E pair \in RENAMES : pair.old = l.key
    BY <2>1 DEF Pairs
  <2>4. RenamedKey(l) = [l EXCEPT !.key = (CHOOSE pair \in RENAMES : pair.old = l.key).new]
    <3> HIDE DEF l
    <3> QED
      BY <2>3 DEF RenamedKey
  <2>5. RenamedKey(l) = [l EXCEPT !.key = p.new]
    BY <2>2, <2>4
  <2> QED
    BY <2>5 DEF Sets, Line
<1>2. ASSUME NEW l, l.key \notin OldNames PROVE RenamedKey(l) = l
  <2>1. ~\E pair \in RENAMES : pair.old = l.key
    BY <1>2 DEF Pairs
  <2> QED
    BY <2>1 DEF RenamedKey
<1> QED
  BY <1>1, <1>2

(* Each body, and the lines it leaves.                                      *)
LEMMA ConfigBodies ==
    ASSUME NEW r
    PROVE  /\ Body(ConfigRenamed, "rename", r) = RenameKeys(r, Settings)
           /\ Body(ConfigRenamed, "drop_old", r) = DropOldKeys(r)
           /\ Body(ConfigRenamed, "migrate_local", r) = RenameKeys(r, Local)
BY DEF Body, BranchRenamed, ConfigRenamed

Dropping(r) ==
    {l \in Part(r.work, Settings) :
        ~\E pair \in RENAMES :
            /\ l.key = pair.old
            /\ \E k \in r.work : k.file = Settings /\ k.key = pair.new}

(* What each body makes of the settings S and the override file L.          *)
LEMMA ConfigLeaves ==
    ASSUME NEW r, NEW S, NEW L, ConfigState(r, S, L), Fine(r), In(S, Settings), In(L, Local),
           NEW N, NEW M, NEW v, NEW x, x = Body(ConfigRenamed, v, r),
           \/ v = "rename" /\ N = RenamedLines(S) /\ M = L
           \/ v = "drop_old" /\ N = Dropping(r) /\ M = L
           \/ v = "migrate_local" /\ N = S /\ M = RenamedLines(L)
    PROVE  Fine(x) /\ x.work = Configured(N, M) /\ x.head.tree = Configured(S, {})
<1>1. IsClone(r) /\ r.head = Tip({"base", "config"}, Configured(S, {})) /\ r.work = Configured(S, L)
  BY DEF ConfigState
<1>2. r.head.tree = Configured(S, {})
  BY <1>1, TipIs
<1>3. /\ Part(r.work, Settings) = S /\ Part(r.work, Local) = L
      /\ \A K : Without(r.work, Settings) \cup K = Configured(K, L)
      /\ \A K : Without(r.work, Local) \cup K = Configured(S, K)
  BY <1>1, ConfiguredIs
<1>4. x = WorksOn(r, Configured(N, M))
  <2>1. CASE v = "rename"
    <3>1. RenameKeys(r, Settings) = WorksOn(r, Without(r.work, Settings) \cup RenamedLines(S))
      BY <1>3 DEF RenameKeys, Replace, WorksOn, RenamedLines, RenamedKey
    <3>2. Without(r.work, Settings) \cup RenamedLines(S) = Configured(RenamedLines(S), L)
      BY <1>3
    <3> QED
      BY <2>1, <3>1, <3>2, ConfigBodies
  <2>2. CASE v = "drop_old"
    <3>1. DropOldKeys(r) = WorksOn(r, Without(r.work, Settings) \cup Dropping(r))
      BY DEF DropOldKeys, Replace, WorksOn, Dropping
    <3>2. Without(r.work, Settings) \cup Dropping(r) = Configured(Dropping(r), L)
      BY <1>3
    <3> QED
      BY <2>2, <3>1, <3>2, ConfigBodies
  <2>3. CASE v = "migrate_local"
    <3>1. RenameKeys(r, Local) = WorksOn(r, Without(r.work, Local) \cup RenamedLines(L))
      BY <1>3 DEF RenameKeys, Replace, WorksOn, RenamedLines, RenamedKey
    <3>2. Without(r.work, Local) \cup RenamedLines(L) = Configured(S, RenamedLines(L))
      BY <1>3
    <3> QED
      BY <2>3, <3>1, <3>2, ConfigBodies
  <2> QED
    BY <2>1, <2>2, <2>3
<1> DEFINE w == Configured(N, M)
<1> HIDE DEF w
<1>5. x = WorksOn(r, w)
  BY <1>4 DEF w
<1>6. x.head = r.head /\ x.work = w /\ x.ok = r.ok
  BY <1>1, <1>5, WorksOnIs
<1>7. Fine(x)
  BY <1>6, FineIs
<1> QED
  BY <1>2, <1>6, <1>7 DEF w

LEMMA LinesRenamed ==
    ASSUME NEW state \in ConfigStates, NEW p, NEW q, Pairs(p, q),
           NEW S, S = SettingsLines(state, p), NEW L, L = LocalLines(state, p)
    PROVE  /\ state # "both_keys" => RenamedLines(S) = Migrated
           /\ state = "both_keys" => Sets(Settings, p.new, OldValue) \in RenamedLines(S)
           /\ state = "local_override" =>
                  RenamedLines(L) = {Sets(Local, p.new, OldValue), LocalNote}
           /\ In(RenamedLines(S), Settings)
           /\ In(RenamedLines(L), Local)
           /\ \A l \in Migrated : l.key \notin OldNames
           /\ LocalNote.key \notin OldNames
<1> DEFINE a == Sets(Settings, p.new, NewValue)
           b == Sets(Settings, q.new, NewValue)
           c == Sets(Settings, p.old, NewValue)
           d == Sets(Settings, p.old, OldValue)
           e == Sets(Settings, p.new, OldValue)
           f == Sets(Local, p.old, OldValue)
           g == Sets(Local, p.new, OldValue)
<1>1. /\ a.key = p.new /\ b.key = q.new /\ a.file = Settings /\ b.file = Settings
      /\ e.file = Settings /\ g.file = Local
  BY SetsIs
<1>2. LocalNote.key = "local_note" /\ LocalNote.file = Local
  BY DEF LocalNote, Sets, Line
<1>3. /\ Migrated = {a, b} /\ OldNames = {p.old, q.old}
      /\ p.new \notin OldNames /\ q.new \notin OldNames /\ "local_note" \notin OldNames
  BY DEF Pairs
<1>4. RenamedKey(c) = a /\ RenamedKey(d) = e /\ RenamedKey(f) = g
  BY RenamedKeyIs
<1>5. /\ state = "stale_key" => S = {b, c}
      /\ state = "both_keys" => S = Migrated \cup {d}
      /\ state = "local_override" => S = Migrated
      /\ L = IF state = "local_override" THEN {f, LocalNote} ELSE {}
  BY ConfigLinesAre
<1> HIDE DEF a, b, c, d, e, f, g
<1>6. RenamedKey(a) = a /\ RenamedKey(b) = b /\ RenamedKey(LocalNote) = LocalNote
  BY <1>1, <1>2, <1>3, RenamedKeyIs
<1>7. state # "both_keys" => RenamedLines(S) = Migrated
  BY <1>3, <1>4, <1>5, <1>6 DEF RenamedLines, ConfigStates
<1>8. state = "both_keys" => RenamedLines(S) = {a, b, e}
  BY <1>3, <1>4, <1>5, <1>6 DEF RenamedLines
<1>9. state = "local_override" => RenamedLines(L) = {g, LocalNote}
  BY <1>4, <1>5, <1>6 DEF RenamedLines
<1>10. state # "local_override" => RenamedLines(L) = {}
  BY <1>5 DEF RenamedLines
<1>11. In(RenamedLines(S), Settings)
  BY <1>1, <1>3, <1>7, <1>8 DEF In
<1>12. In(RenamedLines(L), Local)
  BY <1>1, <1>2, <1>9, <1>10 DEF In
<1>13. \A l \in Migrated : l.key \notin OldNames
  BY <1>1, <1>3
<1> QED
  BY <1>2, <1>3, <1>7, <1>8, <1>9, <1>11, <1>12, <1>13 DEF e, g

LEMMA LinesDropped ==
    ASSUME NEW state \in ConfigStates, NEW p, NEW q, Pairs(p, q),
           NEW S, S = SettingsLines(state, p), NEW L, L = LocalLines(state, p),
           NEW r, ConfigState(r, S, L)
    PROVE  /\ state # "stale_key" => Dropping(r) = Migrated
           /\ state = "stale_key" => Sets(Settings, p.old, NewValue) \in Dropping(r)
           /\ In(Dropping(r), Settings)
<1> DEFINE a == Sets(Settings, p.new, NewValue)
           b == Sets(Settings, q.new, NewValue)
           c == Sets(Settings, p.old, NewValue)
           d == Sets(Settings, p.old, OldValue)
<1>1. /\ a.key = p.new /\ b.key = q.new /\ c.key = p.old /\ d.key = p.old
      /\ a.file = Settings
  BY SetsIs
<1>2. /\ Migrated = {a, b} /\ OldNames = {p.old, q.old}
      /\ p.new \notin OldNames /\ q.new \notin OldNames /\ RENAMES = {p, q} /\ p.old # q.old
      /\ p.new # q.new
  BY DEF Pairs
<1>3. /\ state = "stale_key" => S = {b, c}
      /\ state = "both_keys" => S = Migrated \cup {d}
      /\ state = "local_override" => S = Migrated
      /\ In(S, Settings) /\ In(L, Local)
  BY ConfigLinesAre
<1>4. r.work = Configured(S, L)
  BY DEF ConfigState
<1>5. Part(r.work, Settings) = S
  BY <1>3, <1>4, ConfiguredIs
<1>6. \A k : k \in r.work /\ k.file = Settings <=> k \in S
  BY <1>5, <1>3 DEF Part, In
<1> HIDE DEF a, b, c, d
<1> DEFINE Doomed(l) == \E pair \in RENAMES : /\ l.key = pair.old
                                              /\ \E k \in S : k.key = pair.new
<1>7. Dropping(r) = {l \in S : ~Doomed(l)}
  BY <1>5, <1>6 DEF Dropping
<1>8. ~Doomed(a) /\ ~Doomed(b)
  BY <1>1, <1>2
<1>9. state = "both_keys" => Doomed(d)
  BY <1>1, <1>2, <1>3
<1>10. state = "stale_key" => ~Doomed(c)
  BY <1>1, <1>2, <1>3
<1> HIDE DEF Doomed
<1>11. state = "both_keys" => Dropping(r) = Migrated
  BY <1>2, <1>3, <1>7, <1>8, <1>9
<1>12. state = "local_override" => Dropping(r) = Migrated
  BY <1>2, <1>3, <1>7, <1>8
<1>13. state = "stale_key" => c \in Dropping(r)
  BY <1>3, <1>7, <1>10
<1>14. In(Dropping(r), Settings)
  BY <1>3, <1>7 DEF In
<1> QED
  BY <1>11, <1>12, <1>13, <1>14 DEF c, ConfigStates

ConfigVariants == {"rename", "drop_old", "migrate_local"}

(* Each state is resolved by one of the bodies.                             *)
LEMMA ConfigPassing ==
    ASSUME NEW state \in ConfigStates, NEW p, NEW q, Pairs(p, q), NEW r, r = ConfigClone(state, p)
    PROVE  \A v \in ConfigVariants :
               LET x == Body(ConfigRenamed, v, r)
               IN  Fine(x) /\ ConfigCheck(x, ConfigRecord(state, p))
                       /\ recorded_state_intact(ConfigRenamed, x)
                   <=> \/ v = "rename" /\ state = "stale_key"
                       \/ v = "drop_old" /\ state = "both_keys"
                       \/ v = "migrate_local" /\ state = "local_override"
<1> DEFINE S == SettingsLines(state, p)
           L == LocalLines(state, p)
           c == Sets(Settings, p.old, NewValue)
           d == Sets(Settings, p.old, OldValue)
           e == Sets(Settings, p.new, OldValue)
           f == Sets(Local, p.old, OldValue)
           g == Sets(Local, p.new, OldValue)
<1>1. ConfigState(r, S, L) /\ Fine(r)
  BY ConfigCloneIs
<1>2. /\ state = "stale_key" => c \in S
      /\ state = "both_keys" => d \in S
      /\ state = "local_override" => S = Migrated
      /\ L = IF state = "local_override" THEN {f, LocalNote} ELSE {}
  BY ConfigLinesAre
<1>3. In(S, Settings) /\ In(L, Local) /\ In(Migrated, Settings)
  BY ConfigLinesAre
<1>4. /\ c.key = p.old /\ d.key = p.old /\ f.key = p.old /\ g.key = p.new
      /\ e.value = OldValue /\ g.file = Local
  BY SetsIs
<1>5. /\ OldNames = {p.old, q.old} /\ p.new \notin OldNames
  BY DEF Pairs
<1>6. e \notin Migrated
  <2>1. e # Sets(Settings, p.new, NewValue) /\ e # Sets(Settings, q.new, NewValue)
    BY SetsDiffer DEF OldValue, NewValue
  <2> QED
    BY <2>1 DEF Pairs
<1>7. /\ state # "both_keys" => RenamedLines(S) = Migrated
      /\ state = "both_keys" => e \in RenamedLines(S)
      /\ state = "local_override" => RenamedLines(L) = {g, LocalNote}
      /\ In(RenamedLines(S), Settings)
      /\ In(RenamedLines(L), Local)
      /\ \A l \in Migrated : l.key \notin OldNames
      /\ LocalNote.key \notin OldNames
  BY LinesRenamed
<1>8. /\ state # "stale_key" => Dropping(r) = Migrated
      /\ state = "stale_key" => c \in Dropping(r)
      /\ In(Dropping(r), Settings)
  BY <1>1, LinesDropped
<1> HIDE DEF S, L, c, d, e, f, g
<1> DEFINE Good(x) == Fine(x) /\ ConfigCheck(x, ConfigRecord(state, p))
                       /\ recorded_state_intact(ConfigRenamed, x)
<1>9. ASSUME NEW v, NEW N, NEW M, In(N, Settings), In(M, Local),
             \/ v = "rename" /\ N = RenamedLines(S) /\ M = L
             \/ v = "drop_old" /\ N = Dropping(r) /\ M = L
             \/ v = "migrate_local" /\ N = S /\ M = RenamedLines(L)
      PROVE  Good(Body(ConfigRenamed, v, r)) <=> ConfigSettled(state, p, S, N, M)
  <2> DEFINE x == Body(ConfigRenamed, v, r)
  <2>1. Fine(x) /\ x.work = Configured(N, M) /\ x.head.tree = Configured(S, {})
    BY <1>1, <1>3, <1>9, ConfigLeaves
  <2> HIDE DEF x
  <2>2. /\ ConfigCheck(x, ConfigRecord(state, p)) <=> ConfigSettled(state, p, S, N, M)
        /\ recorded_state_intact(ConfigRenamed, x)
    BY <1>3, <1>9, <2>1, ConfigGrade DEF S
  <2> QED
    BY <2>1, <2>2 DEF x
<1> HIDE DEF Good
<1>10. Good(Body(ConfigRenamed, "rename", r)) <=> state = "stale_key"
  <2> DEFINE N == RenamedLines(S)
  <2>1. Good(Body(ConfigRenamed, "rename", r)) <=> ConfigSettled(state, p, S, N, L)
    BY <1>3, <1>7, <1>9
  <2>2. ConfigSettled(state, p, S, N, L) <=> state = "stale_key"
    BY <1>2, <1>4, <1>5, <1>6, <1>7 DEF ConfigSettled, ConfigStates
  <2> QED
    BY <2>1, <2>2
<1>11. Good(Body(ConfigRenamed, "drop_old", r)) <=> state = "both_keys"
  <2> DEFINE N == Dropping(r)
  <2>1. Good(Body(ConfigRenamed, "drop_old", r)) <=> ConfigSettled(state, p, S, N, L)
    BY <1>3, <1>8, <1>9
  <2>2. ConfigSettled(state, p, S, N, L) <=> state = "both_keys"
    BY <1>2, <1>4, <1>5, <1>7, <1>8 DEF ConfigSettled, ConfigStates
  <2> QED
    BY <2>1, <2>2
<1>12. Good(Body(ConfigRenamed, "migrate_local", r)) <=> state = "local_override"
  <2> DEFINE M == RenamedLines(L)
  <2>1. Good(Body(ConfigRenamed, "migrate_local", r)) <=> ConfigSettled(state, p, S, S, M)
    BY <1>3, <1>7, <1>9
  <2>2. state = "local_override" => M = {Sets(Local, p.new, OldValue), LocalNote}
    BY <1>7 DEF g
  <2>3. ConfigSettled(state, p, S, S, M) <=> state = "local_override"
    <3>1. CASE state = "local_override"
      <4>1. \A l \in S \cup M : l.key \notin OldNames
        BY <1>2, <1>4, <1>5, <1>7, <3>1
      <4> QED
        BY <2>2, <3>1, <4>1 DEF ConfigSettled
    <3>2. CASE state # "local_override"
      <4>1. \E l \in S : l.key \in OldNames
        BY <1>2, <1>4, <1>5, <3>2 DEF ConfigStates
      <4> QED
        BY <3>2, <4>1 DEF ConfigSettled
    <3> QED
      BY <3>1, <3>2
  <2> QED
    BY <2>1, <2>3
<1>13. ASSUME NEW v \in ConfigVariants
       PROVE  Good(Body(ConfigRenamed, v, r))
                   <=> \/ v = "rename" /\ state = "stale_key"
                       \/ v = "drop_old" /\ state = "both_keys"
                       \/ v = "migrate_local" /\ state = "local_override"
  BY <1>10, <1>11, <1>12 DEF ConfigVariants
<1> QED
  BY <1>13 DEF Good

-----------------------------------------------------------------------------
(* The resolutions that resolve a state.                                    *)
Resolving(state) ==
    CASE state = "plain" -> {"rename", "retrack", "merge"}
      [] state = "local_work" -> {"merge"}
      [] state = "name_taken" -> {"retrack", "merge"}
      [] state = "stale_key" -> {"rename"}
      [] state = "both_keys" -> {"drop_old"}
      [] state = "local_override" -> {"migrate_local"}
      [] state \in {"disjoint", "same_file"} -> {"stash", "commit", "aside"}
      [] state = "collision" -> {"aside"}
      [] state = "empty_local_commits" -> {"discard", "merge", "rebase"}
      [] state \in {"disjoint_files", "overlapping_files"} -> {"merge", "rebase"}
      [] state = "additions_only" -> {"take_upstream", "keep_local"}
      [] state = "upstream_removed" -> {"take_upstream"}
      [] state = "local_removed" -> {"keep_local"}
      [] OTHER -> {state}

BranchStates == {"plain", "local_work", "name_taken"}
DivergedStates == {"empty_local_commits", "disjoint_files", "overlapping_files"}

(* Every seed's state is one of its family's.                               *)
LEMMA StateIsInjected ==
    ASSUME NEW seed \in Nat
    PROVE  /\ state_for_seed(BranchRenamed, seed) \in BranchStates
           /\ state_for_seed(ConfigRenamed, seed) \in ConfigStates
           /\ state_for_seed(DirtyTree, seed) \in DirtyStates
           /\ state_for_seed(Diverged, seed) \in DivergedStates
           /\ state_for_seed(LockfileConflict, seed) \in LockStates
           /\ state_for_seed(SubmoduleMoved, seed) \in SubmoduleStates
<1> DEFINE k == 1 + (seed % 3)
<1>1. k \in {1, 2, 3}
  OBVIOUS
<1> HIDE DEF k
<1>2. INJECTED_STATES[BranchRenamed][k] \in BranchStates
  BY <1>1 DEF INJECTED_STATES, BranchRenamed, BranchStates
<1>3. INJECTED_STATES[ConfigRenamed][k] \in ConfigStates
  BY <1>1 DEF INJECTED_STATES, ConfigRenamed, ConfigStates
<1>4. INJECTED_STATES[DirtyTree][k] \in DirtyStates
  BY <1>1 DEF INJECTED_STATES, DirtyTree, DirtyStates
<1>5. INJECTED_STATES[Diverged][k] \in DivergedStates
  BY <1>1 DEF INJECTED_STATES, Diverged, DivergedStates
<1>6. INJECTED_STATES[LockfileConflict][k] \in LockStates
  BY <1>1 DEF INJECTED_STATES, LockfileConflict, LockStates
<1>7. INJECTED_STATES[SubmoduleMoved][k] \in SubmoduleStates
  BY <1>1 DEF INJECTED_STATES, SubmoduleMoved, SubmoduleStates
<1> QED
  BY <1>2, <1>3, <1>4, <1>5, <1>6, <1>7 DEF state_for_seed, k

(* The tables of the intents and of the states, row by row.                 *)
LEMMA DeclaredAre ==
    /\ declared_variants[BranchRenamed] = {"rename", "retrack", "merge"}
    /\ declared_variants[ConfigRenamed] = ConfigVariants
    /\ declared_variants[DirtyTree] = {"stash", "commit", "aside"}
    /\ declared_variants[Diverged] = {"discard", "merge", "rebase"}
    /\ declared_variants[LockfileConflict] = {"take_upstream", "keep_local"}
    /\ declared_variants[SubmoduleMoved] = SubmoduleStates
BY DEF declared_variants, BranchRenamed, ConfigRenamed, DirtyTree, Diverged, LockfileConflict,
       SubmoduleMoved, ConfigVariants, SubmoduleStates

LEMMA ResolvingIs ==
    /\ Resolving("plain") = {"rename", "retrack", "merge"}
    /\ Resolving("local_work") = {"merge"}
    /\ Resolving("name_taken") = {"retrack", "merge"}
    /\ Resolving("stale_key") = {"rename"}
    /\ Resolving("both_keys") = {"drop_old"}
    /\ Resolving("local_override") = {"migrate_local"}
    /\ Resolving("disjoint") = {"stash", "commit", "aside"}
    /\ Resolving("same_file") = {"stash", "commit", "aside"}
    /\ Resolving("collision") = {"aside"}
    /\ Resolving("empty_local_commits") = {"discard", "merge", "rebase"}
    /\ Resolving("disjoint_files") = {"merge", "rebase"}
    /\ Resolving("overlapping_files") = {"merge", "rebase"}
    /\ Resolving("additions_only") = {"take_upstream", "keep_local"}
    /\ Resolving("upstream_removed") = {"take_upstream"}
    /\ Resolving("local_removed") = {"keep_local"}
    /\ Resolving("init") = {"init"} /\ Resolving("repin") = {"repin"}
    /\ Resolving("remove") = {"remove"}
BY DEF Resolving

-----------------------------------------------------------------------------
(* Whether resolution v resolves a build: its body ends, and is graded right. *)
Resolves(f, seed, v) ==
    LET x == Body(f, v, InjectedClone(f, seed)) IN Fine(x) /\ Graded(f, seed, x)

(* Each family's injector, record and check, picked by its number.          *)
LEMMA InjectedIs ==
    ASSUME NEW seed
    PROVE  /\ InjectedClone(BranchRenamed, seed) = BranchClone(state_for_seed(BranchRenamed, seed))
           /\ InjectedClone(ConfigRenamed, seed)
                  = ConfigClone(state_for_seed(ConfigRenamed, seed), Pair(Other(seed)))
           /\ InjectedClone(DirtyTree, seed)
                  = DirtyClone(state_for_seed(DirtyTree, seed), Other(seed))
           /\ InjectedClone(Diverged, seed) = DivergedClone(state_for_seed(Diverged, seed))
           /\ InjectedClone(LockfileConflict, seed)
                  = LockClone(state_for_seed(LockfileConflict, seed))
           /\ InjectedClone(SubmoduleMoved, seed)
                  = SubmoduleClone(state_for_seed(SubmoduleMoved, seed))
BY DEF InjectedClone, BranchRenamed, ConfigRenamed, DirtyTree, Diverged, LockfileConflict,
       SubmoduleMoved

LEMMA RecordedIs ==
    ASSUME NEW seed
    PROVE  /\ Recorded(BranchRenamed, seed) = BranchRecord(state_for_seed(BranchRenamed, seed))
           /\ Recorded(ConfigRenamed, seed)
                  = ConfigRecord(state_for_seed(ConfigRenamed, seed), Pair(Other(seed)))
           /\ Recorded(DirtyTree, seed)
                  = DirtyRecord(state_for_seed(DirtyTree, seed), Other(seed))
           /\ Recorded(Diverged, seed) = DivergedRecord(state_for_seed(Diverged, seed))
           /\ Recorded(LockfileConflict, seed)
                  = LockRecord(state_for_seed(LockfileConflict, seed))
           /\ Recorded(SubmoduleMoved, seed)
                  = SubmoduleRecord(state_for_seed(SubmoduleMoved, seed))
BY DEF Recorded, BranchRenamed, ConfigRenamed, DirtyTree, Diverged, LockfileConflict,
       SubmoduleMoved

LEMMA CheckIs ==
    ASSUME NEW x, NEW d
    PROVE  /\ check(BranchRenamed, x, d) = BranchCheck(x, d)
           /\ check(ConfigRenamed, x, d) = ConfigCheck(x, d)
           /\ check(DirtyTree, x, d) = DirtyCheck(x, d)
           /\ check(Diverged, x, d) = DivergedCheck(x, d)
           /\ check(LockfileConflict, x, d) = LockCheck(x, d)
           /\ check(SubmoduleMoved, x, d) = SubmoduleCheck(x, d)
BY DEF check, BranchRenamed, ConfigRenamed, DirtyTree, Diverged, LockfileConflict,
       SubmoduleMoved

(* Family by family, a resolution resolves a build iff it is its state's.   *)
LEMMA ResolvesBranch ==
    ASSUME NEW seed \in Nat, NEW v \in declared_variants[BranchRenamed]
    PROVE  Resolves(BranchRenamed, seed, v) <=> v \in Resolving(state_for_seed(BranchRenamed, seed))
<1> DEFINE state == state_for_seed(BranchRenamed, seed)
           r == BranchClone(state)
           x == Body(BranchRenamed, v, r)
<1>1. Resolves(BranchRenamed, seed, v)
          <=> Fine(x) /\ BranchCheck(x, BranchRecord(state)) /\ recorded_state_intact(BranchRenamed, x)
  BY InjectedIs, RecordedIs, CheckIs DEF Resolves, Graded
<1>2. state \in BranchStates /\ v \in {"rename", "retrack", "merge"}
  BY StateIsInjected, DeclaredAre
<1> HIDE DEF state
<1>3. /\ Fine(Body(BranchRenamed, "rename", r)) <=> state = "plain"
      /\ Fine(Body(BranchRenamed, "retrack", r)) <=> state # "local_work"
      /\ Fine(Body(BranchRenamed, "merge", r))
      /\ Fine(x) => BranchCheck(x, BranchRecord(state)) /\ recorded_state_intact(BranchRenamed, x)
  BY <1>2, BranchPassing DEF BranchStates
<1>4. Resolves(BranchRenamed, seed, v) <=> Fine(x)
  BY <1>1, <1>3
<1> HIDE DEF r
<1>5. Fine(x) <=> v \in Resolving(state)
  BY <1>2, <1>3, ResolvingIs DEF BranchStates
<1> QED
  BY <1>4, <1>5 DEF state

LEMMA ResolvesConfig ==
    ASSUME NEW seed \in Nat, NEW v \in declared_variants[ConfigRenamed]
    PROVE  Resolves(ConfigRenamed, seed, v) <=> v \in Resolving(state_for_seed(ConfigRenamed, seed))
<1> DEFINE state == state_for_seed(ConfigRenamed, seed)
           p == Pair(Other(seed))
           r == ConfigClone(state, p)
           x == Body(ConfigRenamed, v, r)
<1>1. Resolves(ConfigRenamed, seed, v)
          <=> Fine(x) /\ ConfigCheck(x, ConfigRecord(state, p))
                  /\ recorded_state_intact(ConfigRenamed, x)
  BY InjectedIs, RecordedIs, CheckIs DEF Resolves, Graded
<1>2. state \in ConfigStates /\ v \in ConfigVariants
  BY StateIsInjected, DeclaredAre
<1>3. PICK q : Pairs(p, q)
  <2>1. Other(seed) \in BOOLEAN
    BY DEF Other
  <2> QED
    BY <2>1, PairDrawn
<1> HIDE DEF state, p
<1>4. Resolves(ConfigRenamed, seed, v) <=>
          \/ v = "rename" /\ state = "stale_key"
          \/ v = "drop_old" /\ state = "both_keys"
          \/ v = "migrate_local" /\ state = "local_override"
  BY <1>1, <1>2, <1>3, ConfigPassing
<1>5. v \in Resolving(state) <=>
          \/ v = "rename" /\ state = "stale_key"
          \/ v = "drop_old" /\ state = "both_keys"
          \/ v = "migrate_local" /\ state = "local_override"
  BY <1>2, ResolvingIs DEF ConfigStates, ConfigVariants
<1> QED
  BY <1>4, <1>5 DEF state

LEMMA ResolvesDirty ==
    ASSUME NEW seed \in Nat, NEW v \in declared_variants[DirtyTree]
    PROVE  Resolves(DirtyTree, seed, v) <=> v \in Resolving(state_for_seed(DirtyTree, seed))
<1> DEFINE state == state_for_seed(DirtyTree, seed)
           other == Other(seed)
           r == DirtyClone(state, other)
           x == Body(DirtyTree, v, r)
<1>1. Resolves(DirtyTree, seed, v)
          <=> Fine(x) /\ DirtyCheck(x, DirtyRecord(state, other))
                  /\ recorded_state_intact(DirtyTree, x)
  BY InjectedIs, RecordedIs, CheckIs DEF Resolves, Graded
<1>2. state \in DirtyStates /\ v \in {"stash", "commit", "aside"}
  BY StateIsInjected, DeclaredAre
<1> HIDE DEF state, other
<1>3. CASE v = "stash"
  <2>1. Resolves(DirtyTree, seed, v) <=> state # "collision"
    BY <1>1, <1>2, <1>3, DirtyStashPasses
  <2> QED
    BY <1>2, <1>3, <2>1, ResolvingIs DEF DirtyStates, state
<1>4. CASE v = "commit"
  <2>1. Resolves(DirtyTree, seed, v) <=> state # "collision"
    BY <1>1, <1>2, <1>4, DirtyCommitPasses
  <2> QED
    BY <1>2, <1>4, <2>1, ResolvingIs DEF DirtyStates, state
<1>5. CASE v = "aside"
  <2>1. Resolves(DirtyTree, seed, v)
    BY <1>1, <1>2, <1>5, DirtyAsidePasses
  <2> QED
    BY <1>2, <1>5, <2>1, ResolvingIs DEF DirtyStates, state
<1> QED
  BY <1>2, <1>3, <1>4, <1>5

LEMMA ResolvesDiverged ==
    ASSUME NEW seed \in Nat, NEW v \in declared_variants[Diverged]
    PROVE  Resolves(Diverged, seed, v) <=> v \in Resolving(state_for_seed(Diverged, seed))
<1> DEFINE state == state_for_seed(Diverged, seed)
           r == DivergedClone(state)
           x == Body(Diverged, v, r)
<1>1. Resolves(Diverged, seed, v)
          <=> Fine(x) /\ DivergedCheck(x, DivergedRecord(state)) /\ recorded_state_intact(Diverged, x)
  BY InjectedIs, RecordedIs, CheckIs DEF Resolves, Graded
<1>2. state \in DivergedStates /\ v \in {"discard", "merge", "rebase"}
  BY StateIsInjected, DeclaredAre
<1> HIDE DEF state
<1>3. /\ Fine(x) /\ recorded_state_intact(Diverged, x)
      /\ DivergedCheck(x, DivergedRecord(state)) <=> v # "discard" \/ state = "empty_local_commits"
  BY <1>2, DivergedPassing DEF DivergedStates
<1>4. Resolves(Diverged, seed, v) <=> v # "discard" \/ state = "empty_local_commits"
  BY <1>1, <1>3
<1>5. v \in Resolving(state) <=> v # "discard" \/ state = "empty_local_commits"
  BY <1>2, ResolvingIs DEF DivergedStates
<1> QED
  BY <1>4, <1>5 DEF state

LEMMA ResolvesLock ==
    ASSUME NEW seed \in Nat, NEW v \in declared_variants[LockfileConflict]
    PROVE  Resolves(LockfileConflict, seed, v)
               <=> v \in Resolving(state_for_seed(LockfileConflict, seed))
<1> DEFINE state == state_for_seed(LockfileConflict, seed)
           r == LockClone(state)
           x == Body(LockfileConflict, v, r)
<1>1. Resolves(LockfileConflict, seed, v)
          <=> Fine(x) /\ LockCheck(x, LockRecord(state))
                  /\ recorded_state_intact(LockfileConflict, x)
  BY InjectedIs, RecordedIs, CheckIs DEF Resolves, Graded
<1>2. state \in LockStates /\ v \in {"take_upstream", "keep_local"}
  BY StateIsInjected, DeclaredAre
<1> HIDE DEF state
<1>3. Resolves(LockfileConflict, seed, v) <=>
          \/ state = "additions_only"
          \/ v = "take_upstream" /\ state = "upstream_removed"
          \/ v = "keep_local" /\ state = "local_removed"
  BY <1>1, <1>2, LockPassing
<1>4. v \in Resolving(state) <=>
          \/ state = "additions_only"
          \/ v = "take_upstream" /\ state = "upstream_removed"
          \/ v = "keep_local" /\ state = "local_removed"
  BY <1>2, ResolvingIs DEF LockStates
<1> QED
  BY <1>3, <1>4 DEF state

LEMMA ResolvesSubmodule ==
    ASSUME NEW seed \in Nat, NEW v \in declared_variants[SubmoduleMoved]
    PROVE  Resolves(SubmoduleMoved, seed, v)
               <=> v \in Resolving(state_for_seed(SubmoduleMoved, seed))
<1> DEFINE state == state_for_seed(SubmoduleMoved, seed)
           r == SubmoduleClone(state)
           x == Body(SubmoduleMoved, v, r)
<1>1. Resolves(SubmoduleMoved, seed, v)
          <=> Fine(x) /\ SubmoduleCheck(x, SubmoduleRecord(state))
                  /\ recorded_state_intact(SubmoduleMoved, x)
  BY InjectedIs, RecordedIs, CheckIs DEF Resolves, Graded
<1>2. state \in SubmoduleStates /\ v \in SubmoduleStates
  BY StateIsInjected, DeclaredAre
<1> HIDE DEF state
<1>3. Resolves(SubmoduleMoved, seed, v) <=> v = state
  BY <1>1, <1>2, SubmodulePassing
<1>4. v \in Resolving(state) <=> v = state
  BY <1>2, ResolvingIs DEF SubmoduleStates
<1> QED
  BY <1>3, <1>4 DEF state

(* There are six families.                                                  *)
LEMMA FaultIsOne ==
    ASSUME NEW f \in FAULTS
    PROVE  \/ f = BranchRenamed \/ f = ConfigRenamed \/ f = DirtyTree
           \/ f = Diverged \/ f = LockfileConflict \/ f = SubmoduleMoved
BY DEF FAULTS, BranchRenamed, ConfigRenamed, DirtyTree, Diverged, LockfileConflict, SubmoduleMoved

(* Whatever the seed, exactly the resolutions of the build's state run to   *)
(* their end and pass the fault's checker.                                  *)
THEOREM CheckerPasses ==
    ASSUME NEW f \in FAULTS, NEW seed \in Nat, NEW v \in declared_variants[f]
    PROVE  Resolves(f, seed, v) <=> v \in Resolving(state_for_seed(f, seed))
BY FaultIsOne, ResolvesBranch, ResolvesConfig, ResolvesDirty, ResolvesDiverged, ResolvesLock,
   ResolvesSubmodule

(* The resolution each state was injected for (bench/faults).               *)
LEMMA StateVariantIs ==
    /\ STATE_VARIANT["plain"] = "rename" /\ STATE_VARIANT["local_work"] = "merge"
    /\ STATE_VARIANT["name_taken"] = "retrack"
    /\ STATE_VARIANT["stale_key"] = "rename" /\ STATE_VARIANT["both_keys"] = "drop_old"
    /\ STATE_VARIANT["local_override"] = "migrate_local"
    /\ STATE_VARIANT["disjoint"] = "stash" /\ STATE_VARIANT["same_file"] = "commit"
    /\ STATE_VARIANT["collision"] = "aside"
    /\ STATE_VARIANT["empty_local_commits"] = "discard"
    /\ STATE_VARIANT["disjoint_files"] = "rebase"
    /\ STATE_VARIANT["overlapping_files"] = "merge"
    /\ STATE_VARIANT["additions_only"] = "take_upstream"
    /\ STATE_VARIANT["upstream_removed"] = "take_upstream"
    /\ STATE_VARIANT["local_removed"] = "keep_local"
    /\ STATE_VARIANT["init"] = "init" /\ STATE_VARIANT["repin"] = "repin"
    /\ STATE_VARIANT["remove"] = "remove"
BY DEF STATE_VARIANT

(* The resolution a seed's build is made for is declared, and resolves it.  *)
LEMMA ClaimedResolves ==
    ASSUME NEW f \in FAULTS, NEW seed \in Nat
    PROVE  /\ variant_for_seed(f, seed) \in declared_variants[f]
           /\ variant_for_seed(f, seed) \in Resolving(state_for_seed(f, seed))
<1> DEFINE Claims(g, state) ==
        STATE_VARIANT[state] \in declared_variants[g] /\ STATE_VARIANT[state] \in Resolving(state)
<1>1. \A state \in BranchStates : Claims(BranchRenamed, state)
  BY StateVariantIs, DeclaredAre, ResolvingIs DEF BranchStates
<1>2. \A state \in ConfigStates : Claims(ConfigRenamed, state)
  BY StateVariantIs, DeclaredAre, ResolvingIs DEF ConfigStates, ConfigVariants
<1>3. \A state \in DirtyStates : Claims(DirtyTree, state)
  BY StateVariantIs, DeclaredAre, ResolvingIs DEF DirtyStates
<1>4. \A state \in DivergedStates : Claims(Diverged, state)
  BY StateVariantIs, DeclaredAre, ResolvingIs DEF DivergedStates
<1>5. \A state \in LockStates : Claims(LockfileConflict, state)
  BY StateVariantIs, DeclaredAre, ResolvingIs DEF LockStates
<1>6. \A state \in SubmoduleStates : Claims(SubmoduleMoved, state)
  BY StateVariantIs, DeclaredAre, ResolvingIs DEF SubmoduleStates
<1> HIDE DEF Claims
<1>7. Claims(f, state_for_seed(f, seed))
  BY <1>1, <1>2, <1>3, <1>4, <1>5, <1>6, FaultIsOne, StateIsInjected
<1> QED
  BY <1>7 DEF Claims, variant_for_seed

-----------------------------------------------------------------------------
(* What is observed of a clone.                                             *)

LEMMA ObservedIs ==
    ASSUME NEW r, NEW s, s = observe(r)
    PROVE  /\ s.branch = r.branch
           /\ s.upstream_ahead = Ahead(r) /\ s.upstream_behind = Behind(r)
           /\ s.local_touched_files = Changed(MergeBase(r), r.head.tree)
           /\ s.upstream_touched_files = Changed(MergeBase(r), r.up.tree)
           /\ s.dirty_files = DirtyFiles(r)
           /\ s.untracked_upstream_collisions = Collisions(r)
           /\ s.tracked_branch = r.tracks /\ s.upstream_default_branch = r.default
           /\ s.local_branches = r.others \cup {r.branch}
           /\ s.merge_conflicted_files = Conflicted(MergeBase(r), r.head.tree, r.up.tree)
           /\ s.upstream_dropped_lines = Dropped(r, r.up.tree, r.head.tree)
           /\ s.local_dropped_lines = Dropped(r, r.head.tree, r.up.tree)
           /\ s.config_stale_keys = StaleKeys(r) /\ s.config_keys_set_twice = SetTwice(r)
           /\ s.config_ignored_files = Files(r.work) \cap r.ignored
BY DEF observe

LEMMA ObservedHolds ==
    ASSUME NEW r, NEW s, s = observe(r)
    PROVE  /\ s.dirty_worktree <=> Dirty(r)
           /\ s.has_submodule_reference <=> \E l \in r.head.tree : l.at = "gitlink"
           /\ s.submodule_initialised <=> Started(r)
           /\ s.submodule_pin_matches_upstream
                  <=> Part(r.head.tree, Nested) = Part(r.up.tree, Nested)
           /\ s.upstream_still_references_submodule
                  <=> Part(r.up.tree, Nested) # {} \/ Declaration \notin r.work
BY DEF observe, Started

(* A tracked and a default branch that are known and differ.                *)
LEMMA FollowsIs ==
    ASSUME NEW s
    PROVE  follows_a_renamed_branch(s)
               <=> /\ s.tracked_branch # NoDefault /\ s.upstream_default_branch # NoDefault
                   /\ s.tracked_branch # s.upstream_default_branch
BY Zenon DEF follows_a_renamed_branch, NoDefault

LEMMA BranchNames == "main" # NoDefault /\ "trunk" # NoDefault
<1>1. "main" # NoDefault
  BY Zenon DEF NoDefault
<1>2. "trunk" # NoDefault
  BY Zenon DEF NoDefault
<1> QED
  BY <1>1, <1>2, Zenon

(* Every resolution a rule accepts in a state, and one that it decides.     *)
Rules(f, r, state) ==
    /\ \A v \in declared_variants[f] : accepted_in(f, observe(r), v) <=> v \in Resolving(state)
    /\ Labelled(f, observe(r))

LEMMA RulesAre ==
    ASSUME NEW f, NEW r, NEW state, Rules(f, r, state),
           NEW P, \A v \in declared_variants[f] : v \in P <=> v \in Resolving(state),
           P \subseteq declared_variants[f]
    PROVE  acceptable_variants(f, observe(r)) = P
<1>1. acceptable_variants(f, observe(r)) = {v \in declared_variants[f] : accepted_in(f, observe(r), v)}
  BY DEF acceptable_variants, Rules
<1>2. \A v \in declared_variants[f] : accepted_in(f, observe(r), v) <=> v \in P
  BY DEF Rules
<1> QED
  BY <1>1, <1>2

(* Each family's rules, picked by its number.                               *)
LEMMA FamilyDecides ==
    ASSUME NEW s, NEW v
    PROVE  /\ correct_in(BranchRenamed, s, v) <=> BranchDecides(s, v)
           /\ correct_in(ConfigRenamed, s, v) <=> ConfigDecides(s, v)
           /\ correct_in(DirtyTree, s, v) <=> DirtyDecides(s, v)
           /\ correct_in(Diverged, s, v) <=> DivergedDecides(s, v)
           /\ correct_in(LockfileConflict, s, v) <=> LockDecides(s, v)
           /\ correct_in(SubmoduleMoved, s, v) <=> SubmoduleDecides(s, v)
BY DEF correct_in, BranchRenamed, ConfigRenamed, DirtyTree, Diverged, LockfileConflict,
       SubmoduleMoved

LEMMA FamilyAccepts ==
    ASSUME NEW s, NEW v
    PROVE  /\ accepted_by(BranchRenamed, s, v) <=> BranchAccepts(s, v)
           /\ accepted_by(ConfigRenamed, s, v) <=> ConfigDecides(s, v)
           /\ accepted_by(DirtyTree, s, v) <=> DirtyAccepts(s, v)
           /\ accepted_by(Diverged, s, v) <=> DivergedAccepts(s, v)
           /\ accepted_by(LockfileConflict, s, v) <=> LockAccepts(s, v)
           /\ ~accepted_by(SubmoduleMoved, s, v)
BY DEF accepted_by, BranchRenamed, ConfigRenamed, DirtyTree, Diverged, LockfileConflict,
       SubmoduleMoved

(* branch_renamed: its rules accept what resolves each of its states.       *)
LEMMA BranchRules ==
    ASSUME NEW state \in BranchStates, NEW r, r = BranchClone(state)
    PROVE  Rules(BranchRenamed, r, state)
<1> DEFINE s == observe(r)
<1>1. BranchState(state, r)
  BY BranchCloneIs
<1>2. /\ r.up = Tip(Theirs, BaseTree \cup {TheirTop})
      /\ r.head = IF state = "local_work" THEN Tip(Ours, BaseTree \cup {OurNote}) ELSE BaseTip
      /\ r.branch = "main" /\ r.tracks = "main" /\ r.default = "trunk"
      /\ r.others = IF state = "name_taken" THEN {"trunk"} ELSE {}
  BY <1>1 DEF BranchState
<1>3. /\ r.up.commits = Theirs
      /\ r.head.commits = IF state = "local_work" THEN Ours ELSE {"base"}
  BY <1>2, TipIs DEF BaseTip
<1>4. IF state = "local_work" THEN Behind(r) \in Nat /\ Behind(r) > 0 ELSE Behind(r) = 0
  BY <1>3, CommitsAre
<1>5. /\ s.tracked_branch = "main" /\ s.upstream_default_branch = "trunk" /\ s.branch = "main"
      /\ s.upstream_behind = Behind(r)
      /\ s.local_branches = r.others \cup {"main"}
  BY <1>2, ObservedIs
<1> HIDE DEF s
<1>6. follows_a_renamed_branch(s)
  BY <1>5, FollowsIs, BranchNames
<1>7. NewNameTaken(s) <=> state = "name_taken"
  BY <1>2, <1>5 DEF NewNameTaken
<1>8. NothingLocal(s) <=> state # "local_work"
  BY <1>4, <1>5, <1>6 DEF NothingLocal
<1>9. s.upstream_behind > 0 <=> state = "local_work"
  BY <1>4, <1>5
<1>10. \A v \in {"rename", "retrack", "merge"} :
           BranchDecides(s, v) \/ BranchAccepts(s, v) <=> v \in Resolving(state)
  <2>1. /\ BranchAccepts(s, "rename") <=> state = "plain"
        /\ BranchAccepts(s, "retrack") <=> state # "local_work"
        /\ BranchAccepts(s, "merge")
    BY <1>6, <1>7, <1>8 DEF BranchAccepts, BranchStates
  <2>2. \A v \in {"rename", "retrack", "merge"} : BranchDecides(s, v) => BranchAccepts(s, v)
    BY DEF BranchDecides, BranchAccepts
  <2> QED
    BY <2>1, <2>2, ResolvingIs DEF BranchStates
<1>11. \E v \in {"rename", "retrack", "merge"} : BranchDecides(s, v)
  <2>1. CASE state = "plain"
    BY <2>1, <1>7, <1>8 DEF BranchDecides
  <2>2. CASE state = "local_work"
    BY <2>2, <1>6, <1>9 DEF BranchDecides
  <2>3. CASE state = "name_taken"
    BY <2>3, <1>7, <1>8 DEF BranchDecides
  <2> QED
    BY <2>1, <2>2, <2>3 DEF BranchStates
<1> QED
  BY <1>10, <1>11, FamilyDecides, FamilyAccepts, DeclaredAre DEF Rules, Labelled, accepted_in, s

(* diverged: likewise.                                                      *)
LEMMA DivergedRules ==
    ASSUME NEW state \in DivergedStates, NEW r, r = DivergedClone(state)
    PROVE  Rules(Diverged, r, state)
<1> DEFINE s == observe(r)
           O == DivergedLines(state)
<1>1. DivergedState(O, r)
  BY DivergedCloneIs
<1>2. /\ r.base = BaseTree
      /\ r.head.commits = Ours /\ r.head.tree = BaseTree \cup O
      /\ r.up.commits = Theirs /\ r.up.tree = BaseTree \cup {TheirTop}
      /\ r.default = NoDefault
  BY <1>1 DEF DivergedState
<1>3. ~TipContained(r) /\ Ahead(r) > 0 /\ Behind(r) \in Nat /\ Behind(r) > 0
  BY <1>2, CommitsAre
<1>4. MergeBase(r) = BaseTree
  BY <1>2, <1>3 DEF MergeBase
<1>5. /\ O \subseteq {OurNote, AppEnd}
      /\ state = "empty_local_commits" => O = {}
      /\ state = "disjoint_files" => O = {OurNote}
      /\ state = "overlapping_files" => O = {OurNote, AppEnd}
  BY DivergedLinesAre DEF DivergedStates
<1> HIDE DEF O
<1>6. O \cap BaseTree = {} /\ Apart(O, {TheirTop})
  BY <1>5, OursApart
<1>7. Conflicted(MergeBase(r), r.head.tree, r.up.tree) = {}
  BY <1>2, <1>4, <1>6, ApartMerges
<1>8. Changed(MergeBase(r), r.head.tree) = Files(O)
  <2>1. O \ BaseTree = O
    BY <1>6
  <2>2. Changed(BaseTree, BaseTree \cup O) = Files(O)
    BY <2>1, ChangedIs
  <2> QED
    BY <2>2, <1>2, <1>4
<1>9. Changed(MergeBase(r), r.up.tree) = {App}
  <2>1. {TheirTop} \ BaseTree = {TheirTop}
    BY BaseLines
  <2>2. Changed(BaseTree, BaseTree \cup {TheirTop}) = Files({TheirTop})
    BY <2>1, ChangedIs
  <2>3. Files({TheirTop}) = {App}
    BY FilesIs, BaseLines
  <2> QED
    BY <2>2, <2>3, <1>2, <1>4
<1>10. /\ s.upstream_default_branch = NoDefault /\ s.upstream_behind = Behind(r)
       /\ s.merge_conflicted_files = {}
       /\ s.local_touched_files = Files(O) /\ s.upstream_touched_files = {App}
  BY <1>2, <1>7, <1>8, <1>9, ObservedIs
<1> HIDE DEF s
<1>11. HasLocalCommitsToSync(s)
  BY <1>3, <1>10, FollowsIs DEF HasLocalCommitsToSync, has_local_only_commits, sync_would_conflict
<1>12. /\ Files(O) = {} <=> state = "empty_local_commits"
       /\ Files(O) \cap {App} # {} <=> state = "overlapping_files"
  BY <1>5, BaseLines, OurLines DEF Files, DivergedStates
<1>13. /\ DivergedDecides(s, "discard") <=> state = "empty_local_commits"
       /\ DivergedDecides(s, "merge") <=> state = "overlapping_files"
       /\ DivergedDecides(s, "rebase") <=> state = "disjoint_files"
  <2>1. DivergedDecides(s, "discard") <=> state = "empty_local_commits"
    BY <1>10, <1>11, <1>12 DEF DivergedDecides
  <2>2. ConflictingFiles(s) # {} <=> state = "overlapping_files"
    BY <1>10, <1>12 DEF ConflictingFiles
  <2>3. DivergedDecides(s, "merge") <=> state = "overlapping_files"
    BY <2>2, <1>11 DEF DivergedDecides
  <2>4. DivergedDecides(s, "rebase") <=> state = "disjoint_files"
    BY <2>2, <1>10, <1>11, <1>12 DEF DivergedDecides, DivergedStates
  <2> QED
    BY <2>1, <2>3, <2>4
<1>14. \A v \in {"discard", "merge", "rebase"} :
           DivergedDecides(s, v) \/ DivergedAccepts(s, v) <=> v \in Resolving(state)
  BY <1>11, <1>13, ResolvingIs DEF DivergedAccepts, DivergedStates
<1>15. \E v \in {"discard", "merge", "rebase"} : DivergedDecides(s, v)
  BY <1>13 DEF DivergedStates
<1> QED
  BY <1>14, <1>15, FamilyDecides, FamilyAccepts, DeclaredAre DEF Rules, Labelled, accepted_in, s

(* What git and the probes read of dirty_tree's states.                     *)
LEMMA DirtyReads ==
    ASSUME NEW state \in DirtyStates, NEW other, NEW r, r = DirtyClone(state, other)
    PROVE  /\ Dirty(r) /\ Ahead(r) > 0 /\ Behind(r) = 0
           /\ Collisions(r) = IF state = "collision" THEN {Scratch} ELSE {}
           /\ DirtyFiles(r) = {Work(state).file}
<1> DEFINE X == Uncommitted(state, other)
           T == Upstreams(state)
<1>1. DirtyState(r, X, T)
  BY DirtyCloneIs
<1>2. /\ X \cap BaseTree = {} /\ X # {}
      /\ state = "collision" => HasUntracked(state, other)
  BY DirtyLinesAre DEF HasUntracked
<1>3. /\ Files(X) \cap {App, Readme} = {Work(state).file}
      /\ Files(X) \ {App, Readme} = IF HasUntracked(state, other) THEN {Scratch} ELSE {}
      /\ Scratch \in Files(T) <=> state = "collision"
  BY DirtyPartsAre
<1> HIDE DEF X, T
<1>4. /\ r.head = BaseTip /\ r.up.commits = Theirs /\ r.up.tree = BaseTree \cup T
      /\ r.work = BaseTree \cup X /\ r.ignored = {}
  BY <1>1 DEF DirtyState
<1>5. r.head.tree = BaseTree /\ r.head.commits = {"base"}
  BY <1>4, TipIs DEF BaseTip
<1>6. /\ Untracked(r) = Files(X) \ {App, Readme}
      /\ DirtyFiles(r) = Files(X) \cap {App, Readme}
      /\ Dirty(r)
  BY <1>2, <1>4, <1>5, UncommittedIs
<1>7. Files(r.up.tree) = {App, Readme} \cup Files(T)
  BY <1>4, FilesIs, BaseLines
<1>8. Collisions(r) = IF state = "collision" THEN {Scratch} ELSE {}
  BY <1>2, <1>3, <1>6, <1>7, NotesAre DEF Collisions
<1>9. Ahead(r) > 0 /\ Behind(r) = 0
  BY <1>4, <1>5, CommitsAre
<1> QED
  BY <1>3, <1>6, <1>8, <1>9

(* dirty_tree: likewise.                                                    *)
LEMMA DirtyRules ==
    ASSUME NEW state \in DirtyStates, NEW other, NEW r, r = DirtyClone(state, other)
    PROVE  Rules(DirtyTree, r, state)
<1> DEFINE s == observe(r)
<1>1. /\ Dirty(r) /\ Ahead(r) > 0 /\ Behind(r) = 0
      /\ Collisions(r) = IF state = "collision" THEN {Scratch} ELSE {}
  BY DirtyReads
<1>2. HasWorkToKeep(s)
  BY <1>1, ObservedIs, ObservedHolds DEF HasWorkToKeep
<1>3. Collides(s) <=> state = "collision"
  BY <1>1, ObservedIs DEF Collides
<1> HIDE DEF s
<1>4. /\ DirtyAccepts(s, "stash") <=> state # "collision"
      /\ DirtyAccepts(s, "commit") <=> state # "collision"
      /\ DirtyAccepts(s, "aside")
  BY <1>2, <1>3 DEF DirtyAccepts
<1>5. \A v \in {"stash", "commit", "aside"} : DirtyDecides(s, v) => DirtyAccepts(s, v)
  BY DEF DirtyDecides, DirtyAccepts
<1>6. \A v \in {"stash", "commit", "aside"} :
          DirtyDecides(s, v) \/ DirtyAccepts(s, v) <=> v \in Resolving(state)
  BY <1>4, <1>5, ResolvingIs DEF DirtyStates
<1>7. \E v \in {"stash", "commit", "aside"} : DirtyDecides(s, v)
  <2>1. CASE Collides(s)
    BY <2>1, <1>2 DEF DirtyDecides
  <2>2. CASE ~Collides(s) /\ EditsAFileUpstreamChanged(s)
    BY <2>2, <1>2 DEF DirtyDecides
  <2>3. CASE ~Collides(s) /\ ~EditsAFileUpstreamChanged(s)
    BY <2>3, <1>2 DEF DirtyDecides
  <2> QED
    BY <2>1, <2>2, <2>3
<1> QED
  BY <1>6, <1>7, FamilyDecides, FamilyAccepts, DeclaredAre DEF Rules, Labelled, accepted_in, s

(* submodule_moved: likewise.                                               *)
LEMMA SubmoduleRules ==
    ASSUME NEW state \in SubmoduleStates, NEW r, r = SubmoduleClone(state)
    PROVE  Rules(SubmoduleMoved, r, state)
<1> DEFINE s == observe(r)
<1>1. SubmoduleState(state, r) /\ (Started(r) <=> state # "init")
  BY SubmoduleCloneIs
<1>2. r.head.tree = PinnedTree /\ r.work = PinnedTree /\ r.up.tree = UpstreamPinned(state)
  BY <1>1 DEF SubmoduleState
<1>3. Initial \in PinnedTree /\ Declaration \in PinnedTree /\ Initial.at = "gitlink"
  BY NestedLinesAre DEF PinnedTree
<1>4. s.has_submodule_reference
  BY <1>2, <1>3, ObservedHolds
<1>5. Part(r.up.tree, Nested) = CASE state = "init" -> {Initial} [] state = "repin" -> {Grown} [] OTHER -> {}
  BY <1>2, NestedPartsAre DEF UpstreamPinned
<1>6. s.upstream_still_references_submodule <=> state # "remove"
  <2>1. s.upstream_still_references_submodule <=> Part(r.up.tree, Nested) # {}
    BY <1>2, <1>3, ObservedHolds
  <2> QED
    BY <2>1, <1>5 DEF SubmoduleStates
<1>7. s.submodule_initialised <=> state # "init"
  BY <1>1, ObservedHolds
<1>8. s.submodule_pin_matches_upstream <=> state = "init"
  <2>1. s.submodule_pin_matches_upstream <=> {Initial} = Part(r.up.tree, Nested)
    BY <1>2, NestedPartsAre, ObservedHolds
  <2> QED
    BY <2>1, <1>5, NestedLinesAre DEF SubmoduleStates
<1> HIDE DEF s
<1>9. \A v \in SubmoduleStates : SubmoduleDecides(s, v) <=> v = state
  <2>1. SubmoduleDecides(s, "remove") <=> state = "remove"
    BY <1>4, <1>6 DEF SubmoduleDecides
  <2>2. SubmoduleDecides(s, "init") <=> state = "init"
    BY <1>4, <1>6, <1>7 DEF SubmoduleDecides
  <2>3. SubmoduleDecides(s, "repin") <=> state = "repin"
    BY <1>4, <1>6, <1>7, <1>8 DEF SubmoduleDecides, SubmoduleStates
  <2> QED
    BY <2>1, <2>2, <2>3 DEF SubmoduleStates
<1>10. \A v \in SubmoduleStates : v \in Resolving(state) <=> v = state
  BY ResolvingIs DEF SubmoduleStates
<1> QED
  BY <1>9, <1>10, FamilyDecides, FamilyAccepts, DeclaredAre DEF Rules, Labelled, accepted_in, s

(* What either side of the lock removed that the other still has.           *)
LEMMA LockDropped ==
    ASSUME NEW state \in LockStates, NEW r, r = LockClone(state)
    PROVE  /\ ConflictFiles(r) = {Lock}
           /\ Ahead(r) > 0 /\ Behind(r) > 0
           /\ Dropped(r, r.up.tree, r.head.tree) # {} <=> state = "upstream_removed"
           /\ Dropped(r, r.head.tree, r.up.tree) # {} <=> state = "local_removed"
<1> DEFINE O == OurLock(state)
           T == TheirLock(state)
           Z == Package("zlib")
<1>1. LockState(state, r)
  BY LockCloneIs
<1>2. /\ r.base = BaseTree \cup LockBase
      /\ r.head.commits = OurLockCommits /\ r.head.tree = BaseTree \cup O
      /\ r.up.commits = TheirLockCommits /\ r.up.tree = BaseTree \cup T
  BY <1>1 DEF LockState
<1>3. ~TipContained(r) /\ Behind(r) > 0 /\ Behind(r) # 0 /\ Ahead(r) > 0
  BY <1>2, LockCommitsAre
<1>4. MergeBase(r) = BaseTree \cup LockBase
  BY <1>2, <1>3 DEF MergeBase
<1>5. Conflicted(MergeBase(r), r.head.tree, r.up.tree) = {Lock}
  BY <1>2, <1>4, LockConflicts
<1>6. /\ LockBase = {Shape, Version("base"), Package("core"), Z}
      /\ O = {Shape, Version("ours"), Package("birch"), Package("core")}
                 \cup (IF state = "local_removed" THEN {} ELSE {Z})
      /\ T = {Shape, Version("theirs"), Package("elder"), Package("core")}
                 \cup (IF state = "upstream_removed" THEN {} ELSE {Z})
      /\ LockBase \cup O \cup T \subseteq Packages \cup Versions \cup {Shape}
  BY LockSidesAre
<1>7. \A l \in Packages \cup Versions \cup {Shape} : l \notin BaseTree /\ l.file = Lock
  BY LockLinesAre, LockNotBase
<1>8. ASSUME NEW dropper, NEW keeper
      PROVE  Dropped(r, dropper, keeper)
                 = {l \in ((BaseTree \cup LockBase) \ dropper) \cap keeper : l.file = Lock}
  BY <1>4, <1>5 DEF Dropped
<1> HIDE DEF O, T, Z
<1>9. Z \in Packages /\ Z # Shape /\ Z # Package("core")
      /\ Z # Version("ours") /\ Z # Version("theirs")
      /\ Z # Package("birch") /\ Z # Package("elder")
      /\ Version("base") # Version("ours") /\ Version("base") # Version("theirs")
      /\ Version("base") # Shape
  BY LockDistinct, LockLinesAre DEF Z, Packages, Versions
<1>10. ASSUME NEW l \in LockBase PROVE l = Z \/ l = Version("base") \/ (l \in O /\ l \in T)
  BY <1>6, <1>10
<1>11. Version("base") \notin O /\ Version("base") \notin T
  <2>1. \A p \in Packages : p # Version("base")
    BY LockLinesAre DEF Versions
  <2>2. Package("core") \in Packages /\ Package("birch") \in Packages /\ Package("elder") \in Packages
    BY DEF Packages
  <2> QED
    BY <2>1, <2>2, <1>6, <1>9
<1>12. Z \in LockBase /\ (Z \in O <=> state # "local_removed")
       /\ (Z \in T <=> state # "upstream_removed")
  BY <1>6, <1>9
<1>13. Z \notin BaseTree /\ Z.file = Lock
  BY <1>7, <1>9
<1>14. Dropped(r, r.up.tree, r.head.tree) # {} <=> Z \notin T /\ Z \in O
  <2>1. ASSUME NEW l \in Dropped(r, r.up.tree, r.head.tree) PROVE l = Z /\ Z \notin T /\ Z \in O
    BY <2>1, <1>2, <1>7, <1>8, <1>10, <1>11, <1>6
  <2>2. Z \notin T /\ Z \in O => Z \in Dropped(r, r.up.tree, r.head.tree)
    BY <1>2, <1>8, <1>12, <1>13
  <2> QED
    BY <2>1, <2>2
<1>15. Dropped(r, r.head.tree, r.up.tree) # {} <=> Z \notin O /\ Z \in T
  <2>1. ASSUME NEW l \in Dropped(r, r.head.tree, r.up.tree) PROVE l = Z /\ Z \notin O /\ Z \in T
    BY <2>1, <1>2, <1>7, <1>8, <1>10, <1>11, <1>6
  <2>2. Z \notin O /\ Z \in T => Z \in Dropped(r, r.head.tree, r.up.tree)
    BY <1>2, <1>8, <1>12, <1>13
  <2> QED
    BY <2>1, <2>2
<1> QED
  BY <1>3, <1>5, <1>12, <1>14, <1>15 DEF ConflictFiles

(* lockfile_conflict: likewise.                                             *)
LEMMA LockRules ==
    ASSUME NEW state \in LockStates, NEW r, r = LockClone(state)
    PROVE  Rules(LockfileConflict, r, state)
<1> DEFINE s == observe(r)
<1>1. /\ ConflictFiles(r) = {Lock}
      /\ Ahead(r) > 0 /\ Behind(r) > 0
      /\ Dropped(r, r.up.tree, r.head.tree) # {} <=> state = "upstream_removed"
      /\ Dropped(r, r.head.tree, r.up.tree) # {} <=> state = "local_removed"
  BY LockDropped
<1>2. sync_would_conflict(s)
  BY <1>1, ObservedIs DEF sync_would_conflict, ConflictFiles
<1>3. /\ s.upstream_dropped_lines # {} <=> state = "upstream_removed"
      /\ s.local_dropped_lines # {} <=> state = "local_removed"
  BY <1>1, ObservedIs
<1> HIDE DEF s
<1>4. /\ LockAccepts(s, "take_upstream") <=> state # "local_removed"
      /\ LockAccepts(s, "keep_local") <=> state # "upstream_removed"
      /\ LockDecides(s, "take_upstream") <=> state # "local_removed"
      /\ LockDecides(s, "keep_local") <=> state = "local_removed"
  BY <1>2, <1>3 DEF LockAccepts, LockDecides
<1>5. \A v \in {"take_upstream", "keep_local"} :
          LockDecides(s, v) \/ LockAccepts(s, v) <=> v \in Resolving(state)
  BY <1>4, ResolvingIs DEF LockStates
<1>6. \E v \in {"take_upstream", "keep_local"} : LockDecides(s, v)
  BY <1>4
<1> QED
  BY <1>5, <1>6, FamilyDecides, FamilyAccepts, DeclaredAre DEF Rules, Labelled, accepted_in, s

(* A file of the working tree sets a key.                                   *)
SetsKey(r, file, key) == \E l \in r.work : l.file = file /\ l.key = key

LEMMA NewNames == \A pair \in RENAMES : pair.new # "local_note"
BY DEF RENAMES

(* Which of the two pairs' names each file sets.                            *)
LEMMA ConfigKeysAre ==
    ASSUME NEW state \in ConfigStates, NEW p, NEW q, Pairs(p, q), NEW r, r = ConfigClone(state, p)
    PROVE  /\ SetsKey(r, Settings, p.old) <=> state # "local_override"
           /\ SetsKey(r, Local, p.old) <=> state = "local_override"
           /\ ~SetsKey(r, Settings, q.old) /\ ~SetsKey(r, Local, q.old)
           /\ SetsKey(r, Settings, p.new) <=> state # "stale_key"
           /\ ~SetsKey(r, Local, p.new)
<1> DEFINE S == SettingsLines(state, p)
           L == LocalLines(state, p)
<1>1. ConfigState(r, S, L)
  BY ConfigCloneIs
<1>2. /\ state = "stale_key" =>
             S = {Sets(Settings, q.new, NewValue), Sets(Settings, p.old, NewValue)}
      /\ state = "both_keys" => S = Migrated \cup {Sets(Settings, p.old, OldValue)}
      /\ state = "local_override" => S = Migrated
      /\ L = IF state = "local_override" THEN {Sets(Local, p.old, OldValue), LocalNote} ELSE {}
      /\ In(S, Settings) /\ In(L, Local)
  BY ConfigLinesAre
<1> HIDE DEF S, L
<1>3. Part(r.work, Settings) = S /\ Part(r.work, Local) = L
  <2>1. r.work = Configured(S, L)
    BY <1>1 DEF ConfigState
  <2> QED
    BY <2>1, <1>2, ConfiguredIs
<1>4. \A k : /\ SetsKey(r, Settings, k) <=> \E l \in S : l.key = k
             /\ SetsKey(r, Local, k) <=> \E l \in L : l.key = k
  BY <1>3 DEF SetsKey, Part
<1>5. /\ Migrated = {Sets(Settings, p.new, NewValue), Sets(Settings, q.new, NewValue)}
      /\ p.old # q.old /\ p.new # q.new
      /\ p.new \notin {p.old, q.old} /\ q.new \notin {p.old, q.old}
      /\ "local_note" \notin {p.old, q.old}
  BY DEF Pairs
<1>6. p.new # "local_note"
  BY NewNames DEF Pairs
<1>7. LocalNote.key = "local_note"
  BY DEF LocalNote, Sets, Line
<1>8. CASE state = "stale_key"
  <2>1. S = {Sets(Settings, q.new, NewValue), Sets(Settings, p.old, NewValue)} /\ L = {}
    BY <1>2, <1>8
  <2>2. \A k : (\E l \in S : l.key = k) <=> k \in {q.new, p.old}
    BY <2>1, SetsIs
  <2> QED
    BY <2>1, <2>2, <1>4, <1>5, <1>8
<1>9. CASE state = "both_keys"
  <2>1. S = Migrated \cup {Sets(Settings, p.old, OldValue)} /\ L = {}
    BY <1>2, <1>9
  <2>2. \A k : (\E l \in S : l.key = k) <=> k \in {p.new, q.new, p.old}
    BY <2>1, <1>5, SetsIs
  <2> QED
    BY <2>1, <2>2, <1>4, <1>5, <1>9
<1>10. CASE state = "local_override"
  <2>1. S = Migrated /\ L = {Sets(Local, p.old, OldValue), LocalNote}
    BY <1>2, <1>10
  <2>2. \A k : (\E l \in S : l.key = k) <=> k \in {p.new, q.new}
    BY <2>1, <1>5, SetsIs
  <2>3. \A k : (\E l \in L : l.key = k) <=> k \in {p.old, "local_note"}
    BY <2>1, <1>7, SetsIs
  <2> QED
    BY <2>2, <2>3, <1>4, <1>5, <1>6, <1>10
<1> QED
  BY <1>8, <1>9, <1>10 DEF ConfigStates

(* What git and the probes read of config_renamed's states.                 *)
LEMMA ConfigReads ==
    ASSUME NEW state \in ConfigStates, NEW p, NEW q, Pairs(p, q), NEW r, r = ConfigClone(state, p)
    PROVE  /\ StaleIn(r, Settings) <=> state # "local_override"
           /\ StaleIn(r, Local) <=> state = "local_override"
           /\ TwiceIn(r, Settings) <=> state = "both_keys"
           /\ Files(r.work) \cap r.ignored = IF state = "local_override" THEN {Local} ELSE {}
           /\ Table \in Files(r.work)
<1> DEFINE S == SettingsLines(state, p)
           L == LocalLines(state, p)
<1>1. ConfigState(r, S, L)
  BY ConfigCloneIs
<1>2. In(S, Settings) /\ In(L, Local)
      /\ L = IF state = "local_override" THEN {Sets(Local, p.old, OldValue), LocalNote} ELSE {}
  BY ConfigLinesAre
<1> HIDE DEF S, L
<1>3. r.work = Configured(S, L) /\ r.ignored = {Local}
  BY <1>1 DEF ConfigState
<1>4. Part(r.work, Local) = L /\ Part(r.work, Table) = TableLines
  BY <1>2, <1>3, ConfiguredIs
<1>5. /\ SetsKey(r, Settings, p.old) <=> state # "local_override"
      /\ SetsKey(r, Local, p.old) <=> state = "local_override"
      /\ ~SetsKey(r, Settings, q.old) /\ ~SetsKey(r, Local, q.old)
      /\ SetsKey(r, Settings, p.new) <=> state # "stale_key"
  BY ConfigKeysAre
<1>6. OldNames = {p.old, q.old} /\ RENAMES = {p, q}
  BY DEF Pairs
<1>7. \A file : StaleIn(r, file) <=> SetsKey(r, file, p.old) \/ SetsKey(r, file, q.old)
  BY <1>6 DEF StaleIn, SetsKey
<1>8. TwiceIn(r, Settings) <=>
          \E pair \in {p, q} : SetsKey(r, Settings, pair.old) /\ SetsKey(r, Settings, pair.new)
  BY <1>6 DEF TwiceIn, SetsKey
<1>9. Local \in Files(r.work) <=> L # {}
  BY <1>4 DEF Files, Part
<1>10. TableLines # {}
  BY <1>6 DEF TableLines
<1>11. Table \in Files(r.work)
  BY <1>4, <1>10 DEF Files, Part
<1>12. Files(r.work) \cap r.ignored = IF state = "local_override" THEN {Local} ELSE {}
  BY <1>2, <1>3, <1>9
<1>13. TwiceIn(r, Settings) <=> state = "both_keys"
  BY <1>5, <1>8 DEF ConfigStates
<1> QED
  BY <1>5, <1>7, <1>11, <1>12, <1>13

LEMMA ConfigEntries ==
    ASSUME NEW state \in ConfigStates, NEW p, NEW q, Pairs(p, q), NEW r, r = ConfigClone(state, p)
    PROVE  /\ StaleKeys(r) =
                  {<<IF state = "local_override" THEN Local ELSE Settings, p.old>>}
           /\ SetTwice(r) = IF state = "both_keys" THEN {<<Settings, p.old>>} ELSE {}
<1> DEFINE file == IF state = "local_override" THEN Local ELSE Settings
           old == {e \in ConfigFiles \X RENAMES : SetsKey(r, e[1], e[2].old)}
           twice == {e \in ConfigFiles \X RENAMES :
                        SetsKey(r, e[1], e[2].old) /\ SetsKey(r, e[1], e[2].new)}
<1>1. /\ SetsKey(r, Settings, p.old) <=> state # "local_override"
      /\ SetsKey(r, Local, p.old) <=> state = "local_override"
      /\ ~SetsKey(r, Settings, q.old) /\ ~SetsKey(r, Local, q.old)
      /\ SetsKey(r, Settings, p.new) <=> state # "stale_key"
      /\ ~SetsKey(r, Local, p.new)
  BY ConfigKeysAre
<1>2. RENAMES = {p, q} /\ p.old # q.old
  BY DEF Pairs
<1>3. Settings # Local
  BY ConfigFilesDiffer
<1>4. old = {<<file, p>>}
  <2>1. <<file, p>> \in old
    BY <1>1, <1>2 DEF ConfigFiles
  <2>2. ASSUME NEW e \in old PROVE e = <<file, p>>
    <3>1. e \in ConfigFiles \X RENAMES /\ SetsKey(r, e[1], e[2].old)
      BY <2>2
    <3>2. e = <<e[1], e[2]>> /\ e[1] \in {Settings, Local} /\ e[2] \in {p, q}
      BY <3>1, <1>2 DEF ConfigFiles
    <3>3. e[2] = p /\ e[1] = file
      BY <3>1, <3>2, <1>1
    <3> QED
      BY <3>2, <3>3
  <2> QED
    BY <2>1, <2>2
<1>5. twice = IF state = "both_keys" THEN {<<Settings, p>>} ELSE {}
  <2>1. \A e \in twice : e \in old /\ SetsKey(r, e[1], e[2].new)
    OBVIOUS
  <2>2. <<file, p>> \in twice <=> SetsKey(r, file, p.new)
    BY <1>4
  <2>3. SetsKey(r, file, p.new) <=> state = "both_keys"
    BY <1>1 DEF ConfigStates
  <2>4. \A e \in twice : e = <<file, p>>
    BY <2>1, <1>4
  <2> QED
    BY <2>2, <2>3, <2>4
<1>6. StaleKeys(r) = {<<e[1], e[2].old>> : e \in old}
  BY DEF StaleKeys, SetsKey
<1>7. SetTwice(r) = {<<e[1], e[2].old>> : e \in twice}
  BY DEF SetTwice, SetsKey
<1> HIDE DEF old, twice
<1>8. StaleKeys(r) = {<<file, p.old>>}
  BY <1>4, <1>6
<1>9. CASE state = "both_keys"
  <2>1. twice = {<<Settings, p>>}
    BY <1>5, <1>9
  <2>2. SetTwice(r) = {<<Settings, p.old>>}
    BY <2>1, <1>7
  <2> QED
    BY <2>2, <1>8, <1>9
<1>10. CASE state # "both_keys"
  <2>1. twice = {}
    BY <1>5, <1>10
  <2>2. SetTwice(r) = {}
    BY <2>1, <1>7
  <2> QED
    BY <2>2, <1>8, <1>10
<1> QED
  BY <1>9, <1>10

(* config_renamed: likewise.                                                *)
LEMMA ConfigRules ==
    ASSUME NEW state \in ConfigStates, NEW p, NEW q, Pairs(p, q), NEW r, r = ConfigClone(state, p)
    PROVE  Rules(ConfigRenamed, r, state)
<1> DEFINE s == observe(r)
           entry == <<IF state = "local_override" THEN Local ELSE Settings, p.old>>
<1>0. /\ s.config_stale_keys = StaleKeys(r) /\ s.config_keys_set_twice = SetTwice(r)
      /\ s.config_ignored_files = Files(r.work) \cap r.ignored
  BY ObservedIs
<1>1. s.config_stale_keys = {entry}
  BY <1>0, ConfigEntries
<1>2. s.config_keys_set_twice = IF state = "both_keys" THEN {entry} ELSE {}
  <2>1. SetTwice(r) = IF state = "both_keys" THEN {<<Settings, p.old>>} ELSE {}
    BY ConfigEntries
  <2> QED
    BY <2>1, <1>0
<1>3. s.config_ignored_files = IF state = "local_override" THEN {Local} ELSE {}
  <2>1. Files(r.work) \cap r.ignored = IF state = "local_override" THEN {Local} ELSE {}
    BY ConfigReads
  <2> QED
    BY <2>1, <1>0
<1>4. InAnIgnoredFile(s, entry) <=> state = "local_override"
  BY <1>3 DEF InAnIgnoredFile
<1> HIDE DEF s, entry
<1>5. /\ ConfigDecides(s, "rename") <=> state = "stale_key"
      /\ ConfigDecides(s, "drop_old") <=> state = "both_keys"
      /\ ConfigDecides(s, "migrate_local") <=> state = "local_override"
  <2>1. ConfigDecides(s, "rename") <=> state = "stale_key"
    BY <1>1, <1>2, <1>4 DEF ConfigDecides, ConfigStates
  <2>2. ConfigDecides(s, "drop_old") <=> state = "both_keys"
    BY <1>1, <1>2, <1>4 DEF ConfigDecides, ConfigStates
  <2>3. ConfigDecides(s, "migrate_local") <=> state = "local_override"
    BY <1>1, <1>2, <1>4 DEF ConfigDecides, ConfigStates
  <2> QED
    BY <2>1, <2>2, <2>3
<1>6. \A v \in ConfigVariants : ConfigDecides(s, v) <=> v \in Resolving(state)
  BY <1>5, ResolvingIs DEF ConfigStates, ConfigVariants
<1>7. \E v \in ConfigVariants : ConfigDecides(s, v)
  BY <1>5 DEF ConfigStates, ConfigVariants
<1> QED
  BY <1>6, <1>7, FamilyDecides, FamilyAccepts, DeclaredAre DEF Rules, Labelled, accepted_in, s

(* Whatever the seed, an intent's rules label its build and accept exactly  *)
(* the resolutions that resolve the build's state.                          *)
LEMMA RulesAccept ==
    ASSUME NEW f \in FAULTS, NEW seed \in Nat
    PROVE  Rules(f, InjectedClone(f, seed), state_for_seed(f, seed))
<1>1. Rules(BranchRenamed, InjectedClone(BranchRenamed, seed), state_for_seed(BranchRenamed, seed))
  BY InjectedIs, StateIsInjected, BranchRules
<1>2. Rules(ConfigRenamed, InjectedClone(ConfigRenamed, seed), state_for_seed(ConfigRenamed, seed))
  <2>1. Other(seed) \in BOOLEAN
    BY DEF Other
  <2>2. PICK q : Pairs(Pair(Other(seed)), q)
    BY <2>1, PairDrawn
  <2> QED
    BY <2>2, InjectedIs, StateIsInjected, ConfigRules
<1>3. Rules(DirtyTree, InjectedClone(DirtyTree, seed), state_for_seed(DirtyTree, seed))
  BY InjectedIs, StateIsInjected, DirtyRules
<1>4. Rules(Diverged, InjectedClone(Diverged, seed), state_for_seed(Diverged, seed))
  BY InjectedIs, StateIsInjected, DivergedRules
<1>5. Rules(LockfileConflict, InjectedClone(LockfileConflict, seed),
            state_for_seed(LockfileConflict, seed))
  BY InjectedIs, StateIsInjected, LockRules
<1>6. Rules(SubmoduleMoved, InjectedClone(SubmoduleMoved, seed), state_for_seed(SubmoduleMoved, seed))
  BY InjectedIs, StateIsInjected, SubmoduleRules
<1> QED
  BY <1>1, <1>2, <1>3, <1>4, <1>5, <1>6, FaultIsOne

(* The two halves of the ground truth agree on every build: what the rules  *)
(* of tasks/intent.py accept in the state they observe is what the fault's  *)
(* checker passes of it once resolved, for every seed.                      *)
THEOREM RulesAgreeWithChecker ==
    ASSUME NEW f \in FAULTS, NEW seed \in Nat
    PROVE  /\ Labelled(f, observe(InjectedClone(f, seed)))
           /\ acceptable_variants(f, observe(InjectedClone(f, seed)))
                  = {v \in declared_variants[f] : Resolves(f, seed, v)}
<1> DEFINE r == InjectedClone(f, seed)
           state == state_for_seed(f, seed)
           P == {v \in declared_variants[f] : Resolves(f, seed, v)}
<1>1. Rules(f, r, state)
  BY RulesAccept
<1>2. \A v \in declared_variants[f] : v \in P <=> v \in Resolving(state)
  BY CheckerPasses
<1>3. P \subseteq declared_variants[f]
  OBVIOUS
<1> HIDE DEF P, r, state
<1>4. acceptable_variants(f, observe(r)) = P
  BY <1>1, <1>2, <1>3, RulesAre
<1>5. Labelled(f, observe(r))
  BY <1>1 DEF Rules
<1> QED
  BY <1>4, <1>5 DEF P, r

(* What a precondition reads, where it is more than one of the facts.       *)
LEMMA PreconditionIs ==
    ASSUME NEW r
    PROVE  /\ Precondition(r, "follows_upstreams_current_branch")
                  <=> (r.tracks = UpstreamBranch(r))
           /\ Precondition(r, "follows_another_branch") <=> (r.tracks # UpstreamBranch(r))
           /\ Precondition(r, "has_local_only_commits") <=> (Behind(r) > 0)
           /\ Precondition(r, "no_local_only_commits") <=> (Behind(r) = 0)
           /\ Precondition(r, "upstream_has_new_commits") <=> (Ahead(r) > 0)
           /\ Precondition(r, "new_name_is_free")
                  <=> (UpstreamBranch(r) \notin r.others \cup {r.branch})
           /\ Precondition(r, "new_name_already_taken")
                  <=> (UpstreamBranch(r) \in r.others \cup {r.branch})
           /\ Precondition(r, "the_app_lists_its_renames") <=> (Table \in Files(r.work))
           /\ Precondition(r, "the_settings_use_an_old_name") <=> (StaleIn(r, Settings))
           /\ Precondition(r, "no_setting_under_both_names") <=> (~TwiceIn(r, Settings))
           /\ Precondition(r, "a_setting_under_both_names") <=> (TwiceIn(r, Settings))
           /\ Precondition(r, "the_override_is_private")
                  <=> (Local \in Files(r.work) \cap r.ignored)
           /\ Precondition(r, "only_the_override_uses_an_old_name")
                  <=> (StaleIn(r, Local) /\ ~StaleIn(r, Settings))
           /\ Precondition(r, "has_uncommitted_work") <=> (Dirty(r))
           /\ Precondition(r, "no_unsaved_file_in_the_way") <=> (Collisions(r) = {})
           /\ Precondition(r, "an_unsaved_file_in_the_way") <=> (Collisions(r) # {})
           /\ Precondition(r, "edits_avoid_upstream_files")
                  <=> (DirtyFiles(r) \cap Changed(MergeBase(r), r.up.tree) = {})
           /\ Precondition(r, "edits_touch_an_upstream_file")
                  <=> (DirtyFiles(r) \cap Changed(MergeBase(r), r.up.tree) # {})
           /\ Precondition(r, "local_commits_change_nothing")
                  <=> (Changed(MergeBase(r), r.head.tree) = {})
           /\ Precondition(r, "local_commits_change_files")
                  <=> (Changed(MergeBase(r), r.head.tree) # {})
           /\ Precondition(r, "files_disjoint") <=> (Overlaps(r) = {})
           /\ Precondition(r, "upstream_touched_a_local_file") <=> (Overlaps(r) # {})
           /\ Precondition(r, "local_work_beyond_the_overlap")
                  <=> (Changed(MergeBase(r), r.head.tree) \ Overlaps(r) # {})
           /\ Precondition(r, "conflict_is_one_dependency_file")
                  <=> (\E f \in Files(r.head.tree) : ConflictFiles(r) = {f} /\ Shaped(r.head.tree, f) /\ Shaped(r.up.tree, f))
           /\ Precondition(r, "both_sides_have_commits") <=> (Ahead(r) > 0 /\ Behind(r) > 0)
           /\ Precondition(r, "a_merge_would_conflict") <=> (ConflictFiles(r) # {})
           /\ Precondition(r, "local_side_removed_nothing")
                  <=> (Dropped(r, r.head.tree, r.up.tree) = {})
           /\ Precondition(r, "local_side_removed_something")
                  <=> (Dropped(r, r.head.tree, r.up.tree) # {})
           /\ Precondition(r, "upstream_removed_nothing")
                  <=> (Dropped(r, r.up.tree, r.head.tree) = {})
           /\ Precondition(r, "upstream_still_tracks_it")
                  <=> (PathBound(r) /\ Part(r.up.tree, Nested) # {})
           /\ Precondition(r, "upstream_dropped_it")
                  <=> (PathBound(r) /\ Part(r.up.tree, Nested) = {})
           /\ Precondition(r, "submodule_initialised") <=> (PathBound(r) /\ r.initialised)
           /\ Precondition(r, "submodule_not_initialised") <=> (PathBound(r) /\ ~r.initialised)
           /\ Precondition(r, "pin_drifted")
                  <=> (PathBound(r) /\ Part(r.head.tree, Nested) # Part(r.up.tree, Nested))
BY DEF Precondition

(* Two clones, without a submodule and without a conflict ahead, that every *)
(* probe reads alike.                                                       *)
Plain(r) == ConflictFiles(r) = {} /\ Declaration \notin r.work

Alike(r, q) ==
    /\ r.tracks = q.tracks /\ UpstreamBranch(r) = UpstreamBranch(q)
    /\ r.branch = q.branch /\ r.others = q.others
    /\ Ahead(r) = Ahead(q) /\ Behind(r) = Behind(q)
    /\ Dirty(r) <=> Dirty(q)
    /\ Collisions(r) = Collisions(q)
    /\ DirtyFiles(r) = DirtyFiles(q)
    /\ Changed(MergeBase(r), r.head.tree) = Changed(MergeBase(q), q.head.tree)
    /\ Changed(MergeBase(r), r.up.tree) = Changed(MergeBase(q), q.up.tree)
    /\ Plain(r) /\ Plain(q)
    /\ Table \in Files(r.work) <=> Table \in Files(q.work)
    /\ StaleIn(r, Settings) <=> StaleIn(q, Settings)
    /\ StaleIn(r, Local) <=> StaleIn(q, Local)
    /\ TwiceIn(r, Settings) <=> TwiceIn(q, Settings)
    /\ Local \in Files(r.work) \cap r.ignored <=> Local \in Files(q.work) \cap q.ignored

(* Without a conflict ahead nothing is dropped.                             *)
LEMMA NothingDropped ==
    ASSUME NEW r, Plain(r), NEW a, NEW b
    PROVE  Dropped(r, a, b) = {}
BY DEF Plain, Dropped, ConflictFiles

(* Clones read alike meet every precondition alike.                         *)
LEMMA AlikeHold ==
    ASSUME NEW r, NEW q, Alike(r, q), NEW name \in PreconditionNames
    PROVE  Precondition(r, name) <=> Precondition(q, name)
<1> DEFINE Agrees(n) == Precondition(r, n) <=> Precondition(q, n)
<1>1. /\ Agrees("follows_upstreams_current_branch") /\ Agrees("follows_another_branch")
      /\ Agrees("new_name_is_free") /\ Agrees("new_name_already_taken")
  BY PreconditionIs DEF Alike
<1>2. /\ Agrees("has_local_only_commits") /\ Agrees("no_local_only_commits")
      /\ Agrees("upstream_has_new_commits") /\ Agrees("both_sides_have_commits")
  BY PreconditionIs DEF Alike
<1>3. /\ Agrees("the_app_lists_its_renames") /\ Agrees("the_settings_use_an_old_name")
      /\ Agrees("no_setting_under_both_names") /\ Agrees("a_setting_under_both_names")
      /\ Agrees("the_override_is_private") /\ Agrees("only_the_override_uses_an_old_name")
  BY PreconditionIs DEF Alike
<1>4. /\ Agrees("has_uncommitted_work") /\ Agrees("no_unsaved_file_in_the_way")
      /\ Agrees("an_unsaved_file_in_the_way")
      /\ Agrees("edits_avoid_upstream_files") /\ Agrees("edits_touch_an_upstream_file")
  BY PreconditionIs DEF Alike
<1>5. Overlaps(r) = Overlaps(q)
  BY DEF Alike, Overlaps
<1>6. /\ Agrees("local_commits_change_nothing") /\ Agrees("local_commits_change_files")
      /\ Agrees("files_disjoint") /\ Agrees("upstream_touched_a_local_file")
      /\ Agrees("local_work_beyond_the_overlap")
  BY <1>5, PreconditionIs DEF Alike
<1>7. ConflictFiles(r) = {} /\ ConflictFiles(q) = {} /\ ~PathBound(r) /\ ~PathBound(q)
  BY DEF Alike, Plain, PathBound
<1>8. /\ Agrees("conflict_is_one_dependency_file") /\ Agrees("a_merge_would_conflict")
  <2>1. ASSUME NEW c, ConflictFiles(c) = {} PROVE ~Precondition(c, "conflict_is_one_dependency_file")
    <3>1. \A f \in Files(c.head.tree) : ConflictFiles(c) # {f}
      BY <2>1
    <3> QED
      BY <3>1, PreconditionIs
  <2>2. ~Precondition(r, "a_merge_would_conflict") /\ ~Precondition(q, "a_merge_would_conflict")
    BY <1>7, PreconditionIs
  <2> QED
    BY <2>1, <2>2, <1>7
<1>9. /\ Agrees("local_side_removed_nothing") /\ Agrees("local_side_removed_something")
      /\ Agrees("upstream_removed_nothing")
  <2>1. Plain(r) /\ Plain(q)
    BY DEF Alike
  <2> QED
    BY <2>1, NothingDropped, PreconditionIs
<1>10. /\ Agrees("upstream_still_tracks_it") /\ Agrees("upstream_dropped_it")
       /\ Agrees("submodule_initialised") /\ Agrees("submodule_not_initialised")
       /\ Agrees("pin_drifted")
  BY <1>7, PreconditionIs
<1> HIDE DEF Agrees
<1>11. Agrees(name)
  BY <1>1, <1>2, <1>3, <1>4, <1>6, <1>8, <1>9, <1>10 DEF PreconditionNames
<1> QED
  BY <1>11 DEF Agrees

LEMMA UpstreamBranchIs ==
    ASSUME NEW r, NEW q, r.default = q.default
    PROVE  UpstreamBranch(r) = UpstreamBranch(q)
BY Zenon DEF UpstreamBranch

LEMMA ConflictFreeIs ==
    ASSUME NEW r, MergeBase(r) = r.head.tree
    PROVE  ConflictFiles(r) = {}
BY DEF ConflictFiles, Conflicted, ConflictsIn

(* The names of the files the families' states are made of.                 *)
LEMMA FilesDiffer ==
    /\ {Table, Settings, Local} \cap {App, Readme, Scratch} = {}
    /\ Modules \notin {App, Readme, Scratch, Table, Ignore, Settings, Local}
    /\ Declaration.file = Modules
<1>1. {Table, Settings, Local} \cap {App, Readme, Scratch} = {}
  BY DEF Table, Settings, Local, App, Readme, Scratch
<1>2. Modules \notin {App, Readme, Scratch, Table, Ignore, Settings, Local}
  BY DEF Modules, App, Readme, Scratch, Table, Ignore, Settings, Local
<1> QED
  BY <1>1, <1>2, NestedLinesAre

(* What the untracked note of dirty_tree leaves of a probe's readings.      *)
LEMMA DirtyPlain ==
    ASSUME NEW state \in DirtyStates, NEW other, NEW r, r = DirtyClone(state, other)
    PROVE  /\ Plain(r)
           /\ MergeBase(r) = BaseTree
           /\ {Table, Settings, Local} \cap Files(r.work) = {}
           /\ ~StaleIn(r, Settings) /\ ~StaleIn(r, Local) /\ ~TwiceIn(r, Settings)
<1> DEFINE X == Uncommitted(state, other)
           T == Upstreams(state)
<1>1. DirtyState(r, X, T)
  BY DirtyCloneIs
<1>2. Files(X) \subseteq {App, Readme, Scratch}
  BY DirtyPartsAre
<1> HIDE DEF X, T
<1>3. r.head = BaseTip /\ r.up.commits = Theirs /\ r.work = BaseTree \cup X
  BY <1>1 DEF DirtyState
<1>4. r.head.tree = BaseTree /\ r.head.commits = {"base"}
  BY <1>3, TipIs DEF BaseTip
<1>5. MergeBase(r) = BaseTree
  BY <1>3, <1>4, CommitsAre DEF MergeBase
<1>6. Files(r.work) \subseteq {App, Readme, Scratch}
  BY <1>2, <1>3, FilesIs, BaseLines
<1>7. \A l \in r.work : l.file \in {App, Readme, Scratch}
  BY <1>6 DEF Files
<1>8. Plain(r)
  BY <1>4, <1>5, <1>7, ConflictFreeIs, FilesDiffer DEF Plain
<1>9. \A l \in r.work : l.file # Settings /\ l.file # Local
  BY <1>7, FilesDiffer
<1>10. ~StaleIn(r, Settings) /\ ~StaleIn(r, Local)
  BY <1>9 DEF StaleIn
<1>11. ~TwiceIn(r, Settings)
  BY <1>9 DEF TwiceIn
<1> QED
  BY <1>5, <1>6, <1>8, <1>10, <1>11, FilesDiffer

(* dirty_tree: the note's name is no fact a precondition reads.             *)
LEMMA DirtyAlike ==
    ASSUME NEW state \in DirtyStates, NEW one, NEW two,
           NEW r, r = DirtyClone(state, one), NEW q, q = DirtyClone(state, two)
    PROVE  Alike(r, q)
<1>1. /\ DirtyState(r, Uncommitted(state, one), Upstreams(state))
      /\ DirtyState(q, Uncommitted(state, two), Upstreams(state))
  BY DirtyCloneIs
<1>2. /\ r.tracks = q.tracks /\ r.branch = q.branch /\ r.others = q.others
      /\ r.head = q.head /\ r.up.commits = q.up.commits /\ r.up.tree = q.up.tree
      /\ r.default = q.default /\ r.head = BaseTip
  BY <1>1 DEF DirtyState
<1>3. UpstreamBranch(r) = UpstreamBranch(q)
  BY <1>2, UpstreamBranchIs
<1>4. Ahead(r) = Ahead(q) /\ Behind(r) = Behind(q)
  BY <1>2 DEF Ahead, Behind
<1>5. /\ Dirty(r) /\ Dirty(q) /\ Collisions(r) = Collisions(q) /\ DirtyFiles(r) = DirtyFiles(q)
  BY DirtyReads
<1>6. /\ Plain(r) /\ Plain(q) /\ MergeBase(r) = MergeBase(q)
      /\ {Table, Settings, Local} \cap Files(r.work) = {}
      /\ {Table, Settings, Local} \cap Files(q.work) = {}
      /\ ~StaleIn(r, Settings) /\ ~StaleIn(r, Local) /\ ~TwiceIn(r, Settings)
      /\ ~StaleIn(q, Settings) /\ ~StaleIn(q, Local) /\ ~TwiceIn(q, Settings)
  BY DirtyPlain
<1>7. /\ Changed(MergeBase(r), r.head.tree) = Changed(MergeBase(q), q.head.tree)
      /\ Changed(MergeBase(r), r.up.tree) = Changed(MergeBase(q), q.up.tree)
  BY <1>2, <1>6
<1> QED
  BY <1>2, <1>3, <1>4, <1>5, <1>6, <1>7 DEF Alike

(* config_renamed: nor is the pair of names drawn.                          *)
LEMMA ConfigPlain ==
    ASSUME NEW state \in ConfigStates, NEW p, NEW q, Pairs(p, q), NEW r, r = ConfigClone(state, p)
    PROVE  /\ Plain(r)
           /\ Ahead(r) = 0 /\ Behind(r) = 0
           /\ ~Dirty(r) /\ Collisions(r) = {} /\ DirtyFiles(r) = {}
           /\ Changed(MergeBase(r), r.head.tree) = {} /\ Changed(MergeBase(r), r.up.tree) = {}
<1> DEFINE S == SettingsLines(state, p)
           L == LocalLines(state, p)
<1>1. ConfigState(r, S, L)
  BY ConfigCloneIs
<1>2. In(S, Settings) /\ In(L, Local)
  BY ConfigLinesAre
<1> HIDE DEF S, L
<1>3. /\ r.head.tree = Configured(S, {}) /\ r.up = r.head /\ r.work = Configured(S, L)
      /\ r.ignored = {Local}
  BY <1>1, TipIs DEF ConfigState
<1>4. TipContained(r) /\ MergeBase(r) = r.head.tree /\ r.up.tree = r.head.tree
  BY <1>3 DEF TipContained, MergeBase
<1>5. Ahead(r) = 0 /\ Behind(r) = 0
  <2>1. r.up.commits \ r.head.commits = {} /\ r.head.commits \ r.up.commits = {}
    BY <1>3
  <2> QED
    BY <2>1, FS_EmptySet DEF Ahead, Behind
<1>6. /\ \A l \in r.work : l.file \in {App, Readme, Table, Ignore, Settings, Local}
      /\ \A l \in r.head.tree : l.file \in {App, Readme, Table, Ignore, Settings}
  BY <1>2, <1>3, FixedIs DEF Configured, In
<1>7. Plain(r)
  BY <1>4, <1>6, ConflictFreeIs, FilesDiffer DEF Plain
<1>8. r.head.tree \ r.work = {} /\ \A l \in r.work \ r.head.tree : l.file = Local
  BY <1>2, <1>3 DEF Configured, In
<1>9. Local \notin Files(r.head.tree)
  BY <1>6, ConfigFilesDiffer, FilesDiffer DEF Files
<1>10. DirtyFiles(r) = {}
  BY <1>8, <1>9 DEF DirtyFiles, Changed, Files
<1>11. Untracked(r) = {}
  BY <1>3, <1>8 DEF Untracked, Files
<1>12. ~Dirty(r) /\ Collisions(r) = {}
  BY <1>10, <1>11 DEF Dirty, Collisions
<1>13. Changed(MergeBase(r), r.head.tree) = {} /\ Changed(MergeBase(r), r.up.tree) = {}
  BY <1>4, ChangedIs
<1> QED
  BY <1>5, <1>7, <1>10, <1>12, <1>13

LEMMA ConfigAlike ==
    ASSUME NEW state \in ConfigStates, NEW p, NEW a, Pairs(p, a), NEW k, NEW b, Pairs(k, b),
           NEW r, r = ConfigClone(state, p), NEW q, q = ConfigClone(state, k)
    PROVE  Alike(r, q)
<1>1. /\ ConfigState(r, SettingsLines(state, p), LocalLines(state, p))
      /\ ConfigState(q, SettingsLines(state, k), LocalLines(state, k))
  BY ConfigCloneIs
<1>2. /\ r.tracks = q.tracks /\ r.branch = q.branch /\ r.others = q.others
      /\ r.default = q.default
  BY <1>1 DEF ConfigState
<1>3. UpstreamBranch(r) = UpstreamBranch(q)
  BY <1>2, UpstreamBranchIs
<1>4. /\ Plain(r) /\ Plain(q)
      /\ Ahead(r) = Ahead(q) /\ Behind(r) = Behind(q)
      /\ ~Dirty(r) /\ ~Dirty(q) /\ Collisions(r) = Collisions(q) /\ DirtyFiles(r) = DirtyFiles(q)
      /\ Changed(MergeBase(r), r.head.tree) = Changed(MergeBase(q), q.head.tree)
      /\ Changed(MergeBase(r), r.up.tree) = Changed(MergeBase(q), q.up.tree)
  BY ConfigPlain
<1>5. /\ StaleIn(r, Settings) <=> StaleIn(q, Settings)
      /\ StaleIn(r, Local) <=> StaleIn(q, Local)
      /\ TwiceIn(r, Settings) <=> TwiceIn(q, Settings)
      /\ Files(r.work) \cap r.ignored = Files(q.work) \cap q.ignored
      /\ Table \in Files(r.work) /\ Table \in Files(q.work)
  BY ConfigReads
<1> QED
  BY <1>2, <1>3, <1>4, <1>5 DEF Alike

(* Two builds in one state meet every precondition alike: the gate may test *)
(* one seed of each state.                                                  *)
THEOREM OneSeedSpeaks ==
    ASSUME NEW f \in FAULTS, NEW seed \in Nat, NEW other \in Nat,
           state_for_seed(f, seed) = state_for_seed(f, other), NEW name \in PreconditionNames
    PROVE  Precondition(InjectedClone(f, seed), name) <=> Precondition(InjectedClone(f, other), name)
<1>1. CASE f = ConfigRenamed
  <2> DEFINE state == state_for_seed(ConfigRenamed, seed)
             p == Pair(Other(seed))
             k == Pair(Other(other))
  <2>1. Other(seed) \in BOOLEAN /\ Other(other) \in BOOLEAN
    BY DEF Other
  <2>2. PICK a, b : Pairs(p, a) /\ Pairs(k, b)
    BY <2>1, PairDrawn
  <2>3. state \in ConfigStates
    BY StateIsInjected
  <2>4. /\ InjectedClone(f, seed) = ConfigClone(state, p)
        /\ InjectedClone(f, other) = ConfigClone(state, k)
    BY <1>1, InjectedIs
  <2> HIDE DEF state, p, k
  <2>5. Alike(InjectedClone(f, seed), InjectedClone(f, other))
    BY <2>2, <2>3, <2>4, ConfigAlike
  <2> QED
    BY <2>5, AlikeHold
<1>2. CASE f = DirtyTree
  <2> DEFINE state == state_for_seed(DirtyTree, seed)
  <2>1. state \in DirtyStates
    BY StateIsInjected
  <2>2. /\ InjectedClone(f, seed) = DirtyClone(state, Other(seed))
        /\ InjectedClone(f, other) = DirtyClone(state, Other(other))
    BY <1>2, InjectedIs
  <2> HIDE DEF state
  <2>3. Alike(InjectedClone(f, seed), InjectedClone(f, other))
    BY <2>1, <2>2, DirtyAlike
  <2> QED
    BY <2>3, AlikeHold
<1>3. CASE f # ConfigRenamed /\ f # DirtyTree
  <2>1. InjectedClone(f, seed) = InjectedClone(f, other)
    BY <1>3, FaultIsOne, InjectedIs
  <2> QED
    BY <2>1
<1> QED
  BY <1>1, <1>2, <1>3

=============================================================================
