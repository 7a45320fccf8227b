-------------------------------- MODULE Replay --------------------------------
(***************************************************************************)
(* How a program's text becomes a command and its result a verdict:        *)
(* runtime/probes.py binds, screens and judges a probe, templates.py       *)
(* builds a typed program's commands, replay.py runs either kind.  Pure: a *)
(* text is the sequence of its {name}s, a run of a command what came of it,*)
(* and what the guard says of a text a flag (Screens has how it decides).  *)
(***************************************************************************)
EXTENDS LibraryStatus, Integers, FiniteSets, Sequences

VOCABULARY == {"work_dir", "upstream_remote", "upstream_branch", "submodule_path"}

VocabularyWords == {"work", "dir", "upstream", "remote", "branch", "submodule", "path"}

GitPeelTypes == {"commit", "tree"}

FirstOf(places) == CHOOSE p \in places : \A q \in places : p <= q

Keep(values, names) == [name \in DOMAIN values \cap names |-> values[name]]

------------------------------------------------------------------------------
(* The placeholders of a text.  A brace has the character before it, its    *)
(* name, and whether that has an underscore.                                *)

is_placeholder(brace) ==
    brace.name \in VOCABULARY \/ brace.underscored \/ brace.name \in VocabularyWords

(* Not the shell's ${name} or git's @{name}, nor git's peel.                *)
Matches(brace) == brace.after \notin {"$", "@"}

names_a_parameter(brace) ==
    ~(brace.after = "^" /\ brace.name \in GitPeelTypes) /\ is_placeholder(brace)

placeholders(text) ==
    {text[i].name : i \in {j \in DOMAIN text : Matches(text[j]) /\ names_a_parameter(text[j])}}

(* The first name without a value decides: one the runtime knows makes the  *)
(* text inapplicable here, any other is a defect and raises.                *)
substitute(text, parameters) ==
    LET Bound(i) == Matches(text[i]) /\ text[i].name \in DOMAIN parameters
        missing == {i \in DOMAIN text : /\ Matches(text[i]) /\ names_a_parameter(text[i])
                                        /\ text[i].name \notin DOMAIN parameters}
    IN IF missing = {}
       THEN [error |-> None,
             text |-> [i \in DOMAIN text |-> IF Bound(i) THEN parameters[text[i].name]
                                             ELSE text[i].name]]
       ELSE [error |-> IF text[FirstOf(missing)].name \in VOCABULARY THEN "unbound" ELSE "defect",
             text |-> <<>>]

------------------------------------------------------------------------------
(* What the names are bound to.                                             *)

(* A value read from a repository is bound only if it may be pasted into a  *)
(* shell unquoted; the working directory is the caller's own.               *)
screened(values) ==
    Keep(values, {name \in DOMAIN values : name = "work_dir" \/ values[name].shell_safe})

(* `found` holds the submodule's path, if there is one.                     *)
WithPath(values, found) ==
    IF found = {} THEN values
    ELSE [name \in DOMAIN values \cup {"submodule_path"} |->
             IF name = "submodule_path" THEN CHOOSE path \in found : TRUE ELSE values[name]]

(* A harness sandbox: the recorded path survives the submodule's removal.   *)
bindings(env) ==
    IF env.checkout # None THEN env.parameters
    ELSE screened(WithPath([work_dir |-> env.work, upstream_remote |-> env.remote,
                            upstream_branch |-> env.branch],
                           IF env.recorded # {} THEN env.recorded ELSE env.gitmodules))

(* A repository: upstream, else the tracked remote, else the only one.      *)
upstream_remote(repo) ==
    IF "upstream" \in repo.remotes THEN "upstream"
    ELSE IF repo.tracked \in repo.remotes THEN repo.tracked
    ELSE IF Cardinality(repo.remotes) = 1 THEN CHOOSE r \in repo.remotes : TRUE ELSE None

(* That remote's recorded HEAD, else the first fallback it has.             *)
default_branch(repo, remote) ==
    IF repo.head[remote] # None THEN repo.head[remote]
    ELSE IF "main" \in repo.branches[remote] THEN "main"
    ELSE IF "master" \in repo.branches[remote] THEN "master" ELSE None

(* What cannot be derived is absent, never guessed.  `value` gives a name   *)
(* its value and whether a shell may have it.                               *)
repository_bindings(repo, value) ==
    LET remote == upstream_remote(repo)
        branch == IF remote = None THEN None ELSE default_branch(repo, remote)
        known == {"work_dir"} \cup (IF remote = None THEN {} ELSE {"upstream_remote"})
                              \cup (IF branch = None THEN {} ELSE {"upstream_branch"})
        all == [work_dir |-> value[repo.work], upstream_remote |-> value[remote],
                upstream_branch |-> value[branch]]
    IN screened(WithPath(Keep(all, known), {value[path] : path \in repo.gitmodules}))

------------------------------------------------------------------------------
(* Predicates.                                                              *)

(* The digest of a file's content, kept with the stat it was read under. A  *)
(* fresh stat is not kept: a later write could leave it as it was.          *)
RACY_TICKS == 2

content_digest(kept, file, now) ==
    LET hits == {entry \in kept : entry.stat = file.stat}
        fresh == [stat |-> file.stat, digest |-> file.content]
    IN [digest |-> IF hits # {} THEN (CHOOSE entry \in hits : TRUE).digest ELSE file.content,
        kept |-> IF hits # {} THEN kept
                 ELSE IF now - file.stat > RACY_TICKS THEN {fresh} ELSE {}]

(* `expects` is whether there is a pattern at all; its names are bound as the *)
(* probe's are.  `run` is what the probe would do if it ran: whether it       *)
(* changes the sandbox, ends in time, its exit, whether its output matches. *)
evaluate_predicate(predicate, parameters, run) ==
    LET errors == {substitute(predicate.probe, parameters).error,
                   substitute(predicate.pattern, parameters).error}
    IN IF "defect" \in errors THEN [ok |-> FALSE, refused |-> FALSE, raises |-> TRUE]
       ELSE IF "unbound" \in errors THEN [ok |-> FALSE, refused |-> FALSE, raises |-> FALSE]
       ELSE IF predicate.screened_out \/ run.changed
       THEN [ok |-> FALSE, refused |-> TRUE, raises |-> FALSE]
       ELSE [ok |-> run.ends /\ run.exit = predicate.expect_exit
                    /\ (predicate.expects => run.matched),
             refused |-> FALSE, raises |-> FALSE]

(* Every predicate is judged, also behind one that failed.                  *)
evaluate_predicates(results) ==
    [ok |-> \A i \in DOMAIN results : results[i].ok, evaluated |-> Len(results)]

------------------------------------------------------------------------------
(* templates.py: the commands of a typed program.                           *)

Templates == {"fetch", "reset_hard_to_upstream", "rm_cached_path", "commit"}

Params(template) ==
    CASE template = "fetch" -> {"upstream_remote"}
      [] template = "reset_hard_to_upstream" -> {"upstream_remote", "upstream_branch"}
      [] template = "rm_cached_path" -> {"submodule_path"}
      [] OTHER -> {}

Literals(template) == IF template = "commit" THEN {"message"} ELSE {}

step_parameters(steps) ==
    UNION {Params(steps[i].template) : i \in {j \in DOMAIN steps : steps[j].template \in Templates}}

(* Why a step cannot be built.  Its parameters form a set, read in no set   *)
(* order, so one that is unbound and one that is invalid may come first.    *)
StepErrors(step, bound) ==
    LET unbound == Params(step.template) \ DOMAIN bound
        invalid == {name \in Params(step.template) \cap DOMAIN bound : ~bound[name].valid}
    IN IF step.template \notin Templates THEN {"refused"}
       ELSE IF unbound \cup invalid # {}
       THEN (IF unbound = {} THEN {} ELSE {"unbound"}) \cup (IF invalid = {} THEN {} ELSE {"refused"})
       ELSE IF DOMAIN step.args # Literals(step.template)
                   \/ \E name \in DOMAIN step.args : ~step.args[name].valid
       THEN {"refused"} ELSE {}

build_plans(steps, bound) ==
    LET bad == {i \in DOMAIN steps : StepErrors(steps[i], bound) # {}}
    IN IF bad = {} THEN {None} ELSE StepErrors(steps[FirstOf(bad)], bound)

------------------------------------------------------------------------------
(* replay.py.                                                               *)

NothingRan(reason) ==
    [ok |-> FALSE, ran |-> 0, exit_code |-> -1, timed_out |-> FALSE, refused |-> reason = "guard",
     unbound_parameter |-> reason = "unbound", postconditions |-> None]

Judged(ran, exit_code, timed_out, postconditions) ==
    [ok |-> ~timed_out /\ exit_code = 0 /\ postconditions, ran |-> ran,
     exit_code |-> IF timed_out THEN -1 ELSE exit_code, timed_out |-> timed_out,
     refused |-> FALSE, unbound_parameter |-> FALSE,
     postconditions |-> IF postconditions THEN "held" ELSE "failed"]

(* The steps run in order to the first that does not end in its time or     *)
(* exits badly; each has the whole timeout.  The postconditions are judged  *)
(* whatever happened.                                                       *)
run_steps(steps, bound, runs, postconditions) ==
    LET bad == {i \in DOMAIN steps : ~runs[i].ends \/ runs[i].exit # 0}
        last == IF bad = {} THEN Len(steps) ELSE FirstOf(bad)
    IN {IF error # None THEN NothingRan(error)
        ELSE Judged(last, IF bad = {} THEN 0 ELSE runs[last].exit,
                    bad # {} /\ ~runs[last].ends, postconditions) : error \in build_plans(steps, bound)}

(* A body is screened, bound and run.                                       *)
run_body(program, bound, run, postconditions) ==
    IF program.screened_out THEN NothingRan("guard")
    ELSE IF substitute(program.body, bound).error # None THEN NothingRan("unbound")
    ELSE Judged(1, run.exit, ~run.ends, postconditions)

replay(program, bound, runs, postconditions) ==
    IF program.steps # <<>> THEN run_steps(program.steps, bound, runs, postconditions)
    ELSE {run_body(program, bound, runs[1], postconditions)}

(* The way a replay ends, as the arm that asked for it tells them apart.    *)
Ending(result) ==
    IF result.ok THEN "ok"
    ELSE IF result.refused THEN "refused"
    ELSE IF result.timed_out THEN "timed out"
    ELSE IF result.unbound_parameter THEN "unbound"
    ELSE IF result.postconditions = "failed" THEN "missed" ELSE "exited"

(* run._is_genuine_miss: what demotes a program that fired.                 *)
is_genuine_miss(result) ==
    /\ ~result.refused /\ ~result.timed_out
    /\ result.unbound_parameter \/ result.postconditions = "failed"

=============================================================================
