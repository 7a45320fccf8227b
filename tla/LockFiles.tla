------------------------------ MODULE LockFiles ------------------------------
(***************************************************************************)
(* bench/lock_actions.py: what each action leaves in a conflicted lock     *)
(* file, and which of them give the file the maintainer committed.  A lock *)
(* file is read as its set of packages, a name and a version of it, or is  *)
(* Unread.  Reading a format is not modelled.                              *)
(***************************************************************************)
EXTENDS LibraryStatus, Integers, FiniteSets

COMPUTED == {"take_local", "take_upstream", "three_way", "three_way_unified"}

AllActions == COMPUTED \cup {"reconcile_local", "reconcile_upstream", "regenerate"}

Unread == [read |-> FALSE]

Read(resolved) == [read |-> TRUE, packages |-> resolved]

(* packages: a file with conflict markers in it, or of no known format, or  *)
(* that its reader cannot parse, resolves nothing.                          *)
packages(file) ==
    IF file.known /\ ~file.markers /\ file.parses THEN Read(file.resolved) ELSE Unread

(* Kept by both, or added by either.                                        *)
three_way(base, local, upstream) ==
    (base \cap local \cap upstream) \cup (local \ base) \cup (upstream \ base)

(* A version is a record: its release numbers as a rank, whether it is a    *)
(* final release, its text as a rank, and its platform and semver range.    *)
Higher(v, w) ==
    \/ v.release > w.release
    \/ v.release = w.release /\ v.final /\ ~w.final
    \/ v.release = w.release /\ v.final = w.final /\ v.text > w.text

(* The range in which a package has one version, by ecosystem.              *)
compatible(format, version) ==
    CASE format = "Gemfile.lock" -> version.platform
      [] format \in {"poetry.lock", "uv.lock", "Pipfile.lock", "composer.lock"} -> None
      [] OTHER -> version.caret

unify(format, resolved) ==
    {p \in resolved :
        \A q \in resolved :
            q.name = p.name /\ compatible(format, q.version) = compatible(format, p.version)
                => ~Higher(q.version, p.version)}

Named(resolved) == {p.name : p \in resolved}

same_but_new(produced, merged, before) ==
    /\ Named(produced) = Named(merged)
    /\ {p \in produced : p.name \in before} = {p \in merged : p.name \in before}

------------------------------------------------------------------------------
(* One lock file.  `sides` has the base's packages, as far as they are read *)
(* (an unread base is taken for an empty one), and what reading the two     *)
(* sides' files and the maintainer's gave.                                  *)

Sides(base, local, upstream, merged) ==
    [base |-> IF base.read THEN base.packages ELSE {}, local |-> local, upstream |-> upstream,
     merged |-> merged]

Before(sides) ==
    LET Of(file) == IF file.read THEN file.packages ELSE {}
    IN Named(sides.base \cup Of(sides.local) \cup Of(sides.upstream))

Reproduced(produced, sides) == produced.read /\ produced.packages = sides.merged.packages

NotReproduced == [reproduces |-> FALSE, reproduces_but_new |-> FALSE]

(* What a computed action leaves: a side's file, or the merge of both.      *)
Candidate(action, format, sides) ==
    LET merge == three_way(sides.base, sides.local.packages, sides.upstream.packages)
    IN IF action = "take_local" THEN sides.local
       ELSE IF action = "take_upstream" THEN sides.upstream
       ELSE IF ~sides.local.read \/ ~sides.upstream.read THEN Unread
       ELSE Read(IF action = "three_way" THEN merge ELSE unify(format, merge))

computed(format, sides) ==
    [action \in COMPUTED |->
        IF ~sides.merged.read THEN NotReproduced
        ELSE LET same == Reproduced(Candidate(action, format, sides), sides)
             IN [reproduces |-> same, reproduces_but_new |-> same]]

(* An action that runs the ecosystem's tool: a run that timed out, exited   *)
(* with an error or left no lock file reproduces nothing.                   *)
run(tool, sides) ==
    IF tool.ended # "exit 0" \/ ~tool.left THEN NotReproduced
    ELSE [reproduces |-> Reproduced(tool.file, sides),
          reproduces_but_new |->
              tool.file.read
              /\ same_but_new(tool.file.packages, sides.merged.packages, Before(sides))]

actions_on(format, sides, tools) ==
    [action \in AllActions |->
        IF ~sides.merged.read THEN NotReproduced
        ELSE IF action \in COMPUTED THEN computed(format, sides)[action]
        ELSE run(tools[action], sides)]

(* Which actions reproduce every one of a case's lock files.                *)
summarise(per_file, but_new) ==
    [action \in AllActions |->
        \A i \in DOMAIN per_file :
            action \in DOMAIN per_file[i] =>
                IF but_new THEN per_file[i][action].reproduces_but_new
                ELSE per_file[i][action].reproduces]

=============================================================================
