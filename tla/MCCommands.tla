----------------------------- MODULE MCCommands -----------------------------
(***************************************************************************)
(* Replays of texts of up to three names, programs of up to two steps and  *)
(* small repositories; the screens over every body of up to three of the   *)
(* statements below and every git command of up to four words.             *)
(***************************************************************************)
LOCAL INSTANCE LibraryStatus
LOCAL INSTANCE Integers
LOCAL INSTANCE Sequences
LOCAL INSTANCE FiniteSets

LOCAL R == INSTANCE Replay

LOCAL S == INSTANCE Screens

------------------------------------------------------------------------------

LOCAL Brace(after, name, underscored) ==
    [after |-> after, name |-> name, underscored |-> underscored]

LOCAL Braces ==
    {Brace(after, "upstream_branch", TRUE) : after \in {"", "$", "^"}}
    \cup {Brace("", "submodule_path", TRUE), Brace("^", "commit", FALSE), Brace("", "next", FALSE),
          Brace("", "branch", FALSE), Brace("", "upstream_brnch", TRUE)}

LOCAL Texts == UNION {[1 .. n -> Braces] : n \in 0 .. 3}

LOCAL Value(valid) == [value |-> "v", valid |-> valid, shell_safe |-> valid]

LOCAL Bindings ==
    UNION {[names -> {Value(TRUE), Value(FALSE)}] :
              names \in SUBSET {"upstream_remote", "upstream_branch", "submodule_path"}}

(* The names admission compares with the preconditions are those whose      *)
(* values decide whether the text runs: the two readings of a text agree.   *)
ASSUME DeclaredIsBound ==
    \A text \in Texts : \A bound \in Bindings :
        R!substitute(text, bound).error = None <=> R!placeholders(text) \subseteq DOMAIN bound

LOCAL Step(template, literal) ==
    [template |-> template,
     args |-> IF literal THEN [message |-> [valid |-> TRUE]] ELSE <<>>]

LOCAL Steps ==
    UNION {[1 .. n -> {Step("fetch", FALSE), Step("reset_hard_to_upstream", FALSE),
                       Step("rm_cached_path", FALSE), Step("commit", TRUE), Step("fetch", TRUE),
                       Step("curl", FALSE)}] : n \in 0 .. 2}

LOCAL Runs == [ends : BOOLEAN, exit : {0, 1}]

LOCAL Programs ==
    {[steps |-> steps, body |-> <<>>, screened_out |-> FALSE] : steps \in Steps \ {<<>>}}
    \cup {[steps |-> <<>>, body |-> <<brace>>, screened_out |-> out] :
             brace \in {b \in Braces : b.name # "branch" /\ b.name # "upstream_brnch"},
             out \in BOOLEAN}

(* Every replay ends in one of the ways the episode's model takes, is right *)
(* only if everything ran and every check held, is blamed on the program    *)
(* only in two of them, and where nothing ran nothing was judged.           *)
ASSUME EndingsAreThoseOfEpisodes ==
    \A program \in Programs, bound \in Bindings, runs \in [1 .. 2 -> Runs], held \in BOOLEAN :
        \A result \in R!replay(program, bound, runs, held) :
            /\ R!is_genuine_miss(result) <=> R!Ending(result) \in {"unbound", "missed"}
            /\ R!Ending(result) = "ok" =>
                   /\ held
                   /\ result.ran = (IF program.steps = <<>> THEN 1 ELSE Len(program.steps))
                   /\ \A i \in 1 .. result.ran : runs[i].ends /\ runs[i].exit = 0
            /\ result.ran = 0 <=> result.postconditions = None

ReplayEndings ==
    UNION {UNION {{R!Ending(result) : result \in R!replay(program, bound, runs, held)} :
                     bound \in Bindings, runs \in [1 .. 2 -> Runs], held \in BOOLEAN} :
           program \in Programs}

LOCAL Repositories ==
    [remotes : SUBSET {"upstream", "origin", "fork"}, tracked : {"origin", None},
     head : [{"upstream", "origin", "fork"} -> {"trunk", None}],
     branches : [{"upstream", "origin", "fork"} -> {{}, {"main", "master"}}],
     work : {"w"}, gitmodules : {{}, {"lib"}}]

LOCAL Safe ==
    [value \in {"w", "upstream", "origin", "fork", "trunk", "main", "master", "lib", None} |->
        [value |-> value, valid |-> TRUE, shell_safe |-> TRUE]]

(* On a repository the harness built the derived values are the fixed ones, *)
(* and on any other what is bound is the repository's own.                  *)
ASSUME DerivedAgreesWithTheHarness ==
    \A repo \in Repositories :
        LET derived == R!repository_bindings(repo, Safe)
            branch == IF repo.head["upstream"] # None THEN repo.head["upstream"] ELSE "main"
        IN /\ repo.remotes = {"upstream"} /\ "main" \in repo.branches["upstream"] =>
                  derived = R!bindings([checkout |-> None, work |-> Safe["w"],
                      remote |-> Safe["upstream"], branch |-> Safe[branch], recorded |-> {},
                      gitmodules |-> {Safe[path] : path \in repo.gitmodules}])
           /\ "upstream_branch" \in DOMAIN derived => "upstream_remote" \in DOMAIN derived
           /\ "upstream_remote" \in DOMAIN derived => derived["upstream_remote"].value \in repo.remotes

(* A file read at `read`, whose stat is the tick of its last write, written *)
(* again after that and read once more: what the cache answers is the file. *)
ASSUME StaleIsNeverServed ==
    \A written, read, again, later \in 0 .. 6 :
        (written <= read /\ read <= again /\ again <= later) =>
            LET first == R!content_digest({}, [stat |-> written, content |-> "a"], read)
                second == R!content_digest(first.kept, [stat |-> again, content |-> "b"], later)
            IN second.digest = "b"

(* A probe that is refused, changes anything or cannot be bound never holds.*)
ASSUME OnlyReadersHold ==
    \A text \in Texts, bound \in {b \in Bindings : "upstream_remote" \notin DOMAIN b},
       out, changed, ends, matched \in BOOLEAN :
        R!evaluate_predicate([probe |-> text, pattern |-> <<>>, expects |-> FALSE,
                              expect_exit |-> 0, screened_out |-> out], bound,
                             [changed |-> changed, ends |-> ends, exit |-> 0, matched |-> matched]).ok
            => /\ ~out /\ ~changed /\ ends
               /\ R!placeholders(text) \subseteq DOMAIN bound

------------------------------------------------------------------------------

LOCAL Option(word) == [word |-> word, place |-> "option", writes |-> {}]

LOCAL Operand(word, place) == [word |-> word, place |-> place, writes |-> {}]

LOCAL Plain(tool, args) ==
    [tool |-> tool, args |-> args, reads |-> {}, assigns |-> {}, closed |-> TRUE,
     redirects |-> {}, mentions |-> {}, tokenises |-> TRUE]

LOCAL Assigning(tool, literal) ==
    [Plain(tool, <<>>) EXCEPT !.assigns = {[name |-> "n", literal |-> literal]}]

LOCAL Reading == [Plain("echo", <<>>) EXCEPT !.reads = {"n"}]

LOCAL Statements ==
    {Assigning(None, FALSE), Assigning("echo", TRUE), Reading,
     [Assigning(None, FALSE) EXCEPT !.closed = FALSE],
     [Assigning(None, FALSE) EXCEPT !.reads = {"n"}],
     Plain("curl", <<>>), [Plain("cat", <<>>) EXCEPT !.mentions = {"credential"}],
     [Plain("echo", <<>>) EXCEPT !.redirects = {"device"}],
     [Plain("echo", <<>>) EXCEPT !.redirects = {"home"}],
     Plain("rm", <<Operand("f", "inside")>>),
     Plain("sed", <<Option("-i"), Operand("/x/d", "outside"), Operand("f", "inside")>>),
     Plain("git", <<Operand("push", "plain"), Option("--force"), Operand("r", "inside")>>),
     Plain("git", <<Operand("push", "plain"), Option("--force"), Operand("upstream", "plain")>>),
     Plain("git", <<Operand("config", "plain"), Option("--global"), Option("--get")>>),
     [Plain("rm", <<Operand("f", "outside")>>) EXCEPT !.tokenises = FALSE]}

LOCAL Bodies == UNION {[1 .. n -> Statements] : n \in 0 .. 3}

(* A refusal names something the text says: nothing written after it takes  *)
(* it back, an assignment of the variable it read no more than any other.   *)
ASSUME ARefusalStays ==
    \A body \in Bodies : \A n \in 0 .. Len(body) :
        S!screen(SubSeq(body, 1, n)) # None => S!screen(body) # None

(* A body that reads no variable is refused exactly for one of its          *)
(* statements: the chore that is allowed line by line is allowed.           *)
ASSUME AllowedLineByLine ==
    \A body \in Bodies :
        (\A i \in DOMAIN body : body[i].reads = {}) =>
            (S!screen(body) = None <=> \A i \in DOMAIN body : S!screen(<<body[i]>>) = None)

LOCAL SedArguments ==
    UNION {[1 .. n -> {Option("-i"), Option("-e"), Option("-f"), Option("--"),
                       Operand("a", "inside"), Operand("b", "outside")}] : n \in 0 .. 4}

(* No argument of sed is a script and a file, and an operand is one of them *)
(* unless it names a script file.                                           *)
ASSUME ScriptsAreNoFiles ==
    \A args \in SedArguments :
        /\ S!sed_scripts(args) \cap S!sed_files(args) = {}
        /\ \A p \in DOMAIN args :
               p \in S!sed_scripts(args) \cup S!sed_files(args)
                   \/ S!Dash(args[p]) \/ args[p - 1].word = "-f"

LOCAL GitArguments ==
    UNION {[1 .. n -> {Operand("git", "plain"), Operand("config", "plain"),
                       Operand("user.name", "plain"), Operand("alias.a", "plain"),
                       Operand("!", "plain"), Option("-c"), Option("--exec-path="),
                       Option("--edit"), Operand("protocol.file.allow=always", "plain")}] :
           n \in 0 .. 4}

(* What the git tool runs carries no override but the allowed one, and a    *)
(* config it writes names no command; on a checkout it runs no more.        *)
ASSUME TheToolRunsGitAlone ==
    \A args \in GitArguments :
        LET command == Plain("git", args)
        IN S!run_tool(command, FALSE) = None =>
               /\ \A p \in DOMAIN args \ {1} :
                      args[p - 1].word = "-c" /\ (\A q \in 1 .. p - 1 : args[q].word = "-c")
                          => args[p].word \in S!ALLOWED_GIT_CONFIG_OVERRIDES \cup {"-c"}
               /\ args # <<>> /\ args[1].word = "config" /\ Len(args) = 3
                     /\ (\A p \in DOMAIN args : ~S!Dash(args[p]))
                     => args[2].word = "user.name" /\ args[3].word # "!"

(* Nothing of the caller's environment beyond the allowlist reaches a       *)
(* command, and nothing displaces the pinned config.                        *)
ASSUME HardenedEverywhere ==
    \A ambient \in SUBSET {"PATH", "TOKEN", "GIT_DIR"},
       checkout \in {None, "checkout"}, identity \in {None, "user"} :
        LET env == S!run_env(ambient, [root |-> "sandbox", checkout |-> checkout,
                                       identity |-> identity,
                                       redirects |-> << <<"url.mirror.insteadOf", "url">> >>])
        IN /\ env.inherited \subseteq {"PATH"} /\ env.HOME = "sandbox"
           /\ SubSeq(env.config, 1, 4) = S!GIT_HARDENING
           /\ checkout # None => env.identity # "sandbox"

(* A killed command leaves nothing of its group behind.                     *)
ASSUME TheGroupDies ==
    \A started, left \in SUBSET {"body", "child"} :
        S!run_confined(FALSE, 0, started, left, TRUE).running \subseteq left

=============================================================================
