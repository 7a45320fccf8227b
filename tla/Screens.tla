------------------------------- MODULE Screens -------------------------------
(***************************************************************************)
(* What is read off a model's text before it runs: runtime/guard.py over a *)
(* shell body or probe, agents/command_screen.py over one git command, and *)
(* the environment both run in (sandbox.py).  A body is a sequence of      *)
(* statements, a statement its tool, its arguments and what its raw text   *)
(* mentions; an argument is a word and the place it names.  A quoted       *)
(* command inside a token stands for its own tokens.                       *)
(***************************************************************************)
EXTENDS LibraryStatus, Integers, FiniteSets, Sequences

(* An option names no place; a refspec with + forces its push.              *)
Places == {"inside", "outside", "home", "device", "plain", "option", "+refspec"}

Argument == [word : STRING, place : Places, writes : SUBSET Places]

(* `closed` is whether the statement ends at a separator: a segment that a  *)
(* command substitution opens ends none.                                    *)
Statement(Args, Names, Mentions) ==
    [tool : STRING, args : Args, reads : SUBSET Names,
     assigns : SUBSET [name : Names, literal : BOOLEAN], closed : BOOLEAN,
     redirects : SUBSET Places, mentions : SUBSET Mentions, tokenises : BOOLEAN]

Dash(a) == a.place = "option"

Words(args) == {args[p].word : p \in DOMAIN args}

Where(args, word) == {p \in DOMAIN args : args[p].word = word}

FirstOf(places) == CHOOSE p \in places : \A q \in places : p <= q

After(args, word) == SubSeq(args, FirstOf(Where(args, word)) + 1, Len(args))

(* Which arguments are the value of the option before them.                 *)
Taken(args, Takes(_)) ==
    LET taken[p \in DOMAIN args] == p > 1 /\ Takes(args[p - 1]) /\ ~taken[p - 1]
    IN taken

------------------------------------------------------------------------------
(* sandbox.py: git's global options, and the overrides among them.          *)

ALLOWED_GIT_CONFIG_OVERRIDES == {"protocol.file.allow=always"}

WithArgument(a) == a.word \in {"-c", "-C", "--git-dir", "--work-tree", "--config-env"}

(* The options between git and its subcommand.                              *)
GlobalOptions(args) ==
    LET taken == Taken(args, LAMBDA a : Dash(a) /\ WithArgument(a))
    IN {p \in DOMAIN args : ~taken[p] /\ \A q \in 1 .. p : Dash(args[q]) \/ taken[q]}

git_invocation(args) ==
    LET options == GlobalOptions(args)
        values == {p + 1 : p \in {q \in options : WithArgument(args[q])}}
        rest == DOMAIN args \ (options \cup values)
    IN IF rest = {} THEN [global |-> options, subcommand |-> None, args |-> <<>>]
       ELSE [global |-> options, subcommand |-> args[FirstOf(rest)].word,
             args |-> SubSeq(args, FirstOf(rest) + 1, Len(args))]

(* Every git token's overrides, a nested invocation's too.  One read from   *)
(* the environment cannot be vetted.                                        *)
git_config_overrides(tokens) ==
    UNION {LET args == SubSeq(tokens, g + 1, Len(tokens))
           IN {IF args[p].word = "-c" THEN args[p + 1].word ELSE "config-env" :
                  p \in {q \in GlobalOptions(args) :
                            \/ args[q].word = "--config-env="
                            \/ args[q].word \in {"-c", "--config-env"} /\ q < Len(args)}} :
           g \in Where(tokens, "git")}

disallowed_git_config_overrides(tokens) ==
    git_config_overrides(tokens) \ ALLOWED_GIT_CONFIG_OVERRIDES

------------------------------------------------------------------------------
(* guard.py: the effects, each read off the text.                           *)

NetworkTools == {"curl", "ssh", "gh"}

Interpreters == {"python"}

WriteCommands == {"rm", "cp", "tee"}

EnvDumpers == {"env", "printenv"}

ConfigReadFlags == {"--get", "--list"}

Forcing == {"--force", "-f", "--force-with-lease"}

(* A segment that does not tokenise is skipped, as is a bare assignment.    *)
commands(body) == {i \in DOMAIN body : body[i].tokenises /\ body[i].tool # None}

Mentioned(body, what) == \E i \in DOMAIN body : what \in body[i].mentions

network_effect(body) ==
    \/ Mentioned(body, "url")
    \/ \E i \in commands(body) :
           \/ body[i].tool \in NetworkTools
           \/ body[i].tool \in Interpreters /\ "network module" \in body[i].mentions

credential_effect(body) == Mentioned(body, "credential")

(* The variables the body has set itself: from the end of the statement     *)
(* that assigns it, and never by quoted or commented text.                  *)
assigned_from(body, at) ==
    {a.name : a \in UNION {{b \in body[j].assigns : ~b.literal} :
                              j \in {k \in 1 .. at - 1 : \E e \in k .. at - 1 : body[e].closed}}}

env_read_effect(body) ==
    \/ \E i \in DOMAIN body : ~(body[i].reads \subseteq assigned_from(body, i))
    \/ Mentioned(body, "environ")
    \/ \E i \in commands(body) : body[i].tool \in EnvDumpers

global_config_write_effect(body) ==
    \E i \in commands(body) :
        /\ body[i].tool = "git"
        /\ {"config", "--global"} \subseteq Words(body[i].args)
        /\ LET rest == After(body[i].args, "--global")
           IN rest = <<>> \/ rest[1].word \notin ConfigReadFlags

Token(word) == [word |-> word, place |-> "plain", writes |-> {}]

git_config_override_effect(body) ==
    \/ Mentioned(body, "GIT_CONFIG")
    \/ \E i \in commands(body) :
           disallowed_git_config_overrides(<<Token(body[i].tool)>> \o body[i].args) # {}

(* Forced, and not to a path under the sandbox.                             *)
force_push_effect(body) ==
    \E i \in commands(body) :
        /\ body[i].tool = "git"
        /\ "push" \in Words(body[i].args)
        /\ LET args == After(body[i].args, "push")
               positionals == {p \in DOMAIN args : args[p].place \notin {"option", "+refspec"}}
           IN /\ \E p \in DOMAIN args :
                     args[p].word \in Forcing \/ args[p].place = "+refspec"
              /\ positionals # {} => args[FirstOf(positionals)].place # "inside"

(* sed's script is no path: an -e value, or the first operand when nothing  *)
(* gave a script before it.  After -- everything is a file.                 *)
TakesNext(a) == a.word \in {"-e", "-f"}

sed_scripts(args) ==
    LET taken == Taken(args, TakesNext)
        live == {p \in DOMAIN args : \A q \in 1 .. p : args[q].word = "--" => taken[q]}
        given(p) == \E q \in live : q < p /\ ~taken[q] /\ (TakesNext(args[q]) \/ ~Dash(args[q]))
    IN {p \in live :
           IF taken[p] THEN args[p - 1].word = "-e" ELSE ~Dash(args[p]) /\ ~given(p)}

sed_files(args) ==
    LET taken == Taken(args, TakesNext)
        live == {p \in DOMAIN args : \A q \in 1 .. p : args[q].word = "--" => taken[q]}
        ends == {q \in DOMAIN args : args[q].word = "--" /\ ~taken[q]}
    IN {p \in live : ~taken[p] /\ ~Dash(args[p]) /\ p \notin sed_scripts(args)}
       \cup {p \in DOMAIN args : ends # {} /\ p > FirstOf(ends)}

in_place(args) == "-i" \in Words(args)

(* What a statement writes, as far as its text says.                        *)
Targets(s) ==
    LET at(places) == {s.args[p].place : p \in places}
    IN s.redirects
       \cup (IF s.tool \in WriteCommands \/ (s.tool = "find" /\ "-delete" \in Words(s.args))
             THEN at(DOMAIN s.args) ELSE {})
       \cup (IF s.tool = "sed" /\ in_place(s.args)
             THEN at(sed_files(s.args)) \cup UNION {s.args[p].writes : p \in sed_scripts(s.args)}
             ELSE {})
       \cup (IF s.tool = "git" /\ {"config", "--file"} \subseteq Words(s.args)
             THEN at({p \in DOMAIN s.args : p = FirstOf(Where(s.args, "--file")) + 1}) ELSE {})

escapes_env(place) == place \in {"outside", "home"}

outside_write_effect(body) ==
    \E i \in commands(body) : \E target \in Targets(body[i]) : escapes_env(target)

(* The first effect, in this order; None allows the body.                   *)
Effects(body) ==
    <<[effect |-> "outbound network call", found |-> network_effect(body)],
      [effect |-> "credential read", found |-> credential_effect(body)],
      [effect |-> "environment-variable read", found |-> env_read_effect(body)],
      [effect |-> "git config --global write", found |-> global_config_write_effect(body)],
      [effect |-> "git config override", found |-> git_config_override_effect(body)],
      [effect |-> "force-push outside the sandbox", found |-> force_push_effect(body)],
      [effect |-> "write outside env_root", found |-> outside_write_effect(body)]>>

screen(body) ==
    LET found == {k \in DOMAIN Effects(body) : Effects(body)[k].found}
    IN IF found = {} THEN None ELSE Effects(body)[FirstOf(found)].effect

------------------------------------------------------------------------------
(* command_screen.py: why git itself would run a command.                   *)

CommandSubcommands == {"difftool", "filter-branch"}

CommandActions == {<<"submodule", "foreach">>, <<"bisect", "run">>}

CommandOptions ==
    {<<"rebase", "--exec">>, <<"fetch", "--upload-pack">>, <<"clone", "--template">>,
     <<"push", "--receive-pack">>}

SafeConfigKeys == {"branch.b.remote", "user.name"}

(* Reads and removals cannot add a command, a write may only set a safe key *)
(* and never to a ! value.                                                  *)
config_reason(args) ==
    LET taken == Taken(args, LAMBDA a : a.word \in {"--file", "--value"})
        flags == {args[p].word : p \in {q \in DOMAIN args : Dash(args[q]) /\ ~taken[q]}}
        Positional(a) == ~Dash(a)
        all == SelectSeq([p \in DOMAIN args |-> IF taken[p] THEN [args[p] EXCEPT !.place = "option"]
                                                ELSE args[p]], Positional)
        action == IF all = <<>> THEN None ELSE all[1].word
        positionals == IF action = "set" THEN Tail(all) ELSE all
        values == {positionals[p].word : p \in DOMAIN positionals \ {1}}
                  \cup {args[p].word : p \in {q \in DOMAIN args : taken[q] /\ args[q - 1].word = "--value"}}
    IN IF "--edit" \in flags \/ action = "edit" THEN "opens an editor"
       ELSE IF "--rename-section" \in flags \/ action = "rename-section" THEN "renames a section"
       ELSE IF \/ flags \cap (ConfigReadFlags \cup {"--unset", "--remove-section"}) # {}
               \/ action \in {"get", "list", "unset", "remove-section"}
               \/ positionals = <<>> \/ values = {} THEN None
       ELSE IF positionals[1].word \notin SafeConfigKeys THEN "may name a command"
       ELSE IF "!" \in values THEN "is a shell command" ELSE None

command_running_reason(argv) ==
    LET git == git_invocation(Tail(argv))
        operands == {p \in DOMAIN git.args : ~Dash(git.args[p])}
    IN IF \E p \in git.global : argv[p + 1].word = "--exec-path=" THEN "looks elsewhere"
       ELSE IF git.subcommand = None THEN None
       ELSE IF \/ git.subcommand \in CommandSubcommands
               \/ /\ operands # {}
                  /\ <<git.subcommand, git.args[FirstOf(operands)].word>> \in CommandActions
            THEN "runs a command"
       ELSE IF \E word \in Words(git.args) : <<git.subcommand, word>> \in CommandOptions
            THEN "names a program"
       ELSE IF git.subcommand = "config" THEN config_reason(git.args) ELSE None

(* react._run_tool: the first refusal, or None when the command is run.  On *)
(* a checkout the guard screens it as well.                                 *)
run_tool(command, checkout) ==
    LET argv == <<Token(command.tool)>> \o command.args
        words == Words(command.args)
    IN IF command.tool = None THEN "empty command"
       ELSE IF command.tool # "git" THEN "only git commands are allowed"
       ELSE IF words \cap {";", "|"} # {} THEN "one git command per call"
       ELSE IF words \cap {"-C", "--git-dir", "--work-tree"} # {} THEN "outside the sandbox"
       ELSE IF command_running_reason(argv) # None THEN "this tool runs git"
       ELSE IF disallowed_git_config_overrides(argv) # {} THEN "config override"
       ELSE IF checkout THEN screen(<<command>>) ELSE None

------------------------------------------------------------------------------
(* sandbox.py: the environment a command inherits.                          *)

ALLOWLISTED_ENV_VARS == {"PATH", "LANG", "TMPDIR"}

GIT_HARDENING ==
    << <<"core.hooksPath", "/dev/null">>, <<"core.fsmonitor", "false">>,
       <<"core.pager", "cat">>, <<"fetch.recurseSubmodules", "false">> >>

(* Sandbox identity and dates are pinned, and so is git's config list.      *)
git_env(ambient, home) ==
    [inherited |-> ambient \cap ALLOWLISTED_ENV_VARS, HOME |-> home, identity |-> "sandbox",
     dates |-> "pinned", config |-> GIT_HARDENING]

(* On a checkout the user's identity or none, no pinned dates, and the      *)
(* upstream's redirects behind the hardening.                               *)
run_env(ambient, env) ==
    LET values == git_env(ambient, env.root)
    IN IF env.checkout = None THEN values
       ELSE [values EXCEPT !.dates = None, !.identity = env.identity,
                           !.config = @ \o env.redirects]

(* confine.run_confined: a command that does not end in time takes its      *)
(* whole group with it; isolation is recorded, never required.  `left` are  *)
(* the processes that left the group.                                       *)
run_confined(ends_in_time, returncode, started, left, isolated) ==
    [returncode |-> IF ends_in_time THEN returncode ELSE None, timed_out |-> ~ends_in_time,
     running |-> IF ends_in_time THEN started ELSE started \cap left,
     network_isolated |-> isolated]

=============================================================================
