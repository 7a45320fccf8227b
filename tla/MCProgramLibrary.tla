-------------------------- MODULE MCProgramLibrary --------------------------
(* Two programs, one of them with an undeclared variant, and room for a     *)
(* third mismatch after the cap.  What is dispatched is checked below, over *)
(* libraries of up to three programs over two predicates, in every          *)
(* environment, for the decisions of the four dispatch arms.                *)
EXTENDS ProgramLibrary

CONSTANTS p1, p2

MCPrograms == {p1, p2}
MCUndeclared == {p2}

LOCAL M == INSTANCE Matchers

LOCAL Stored(id, status, pre, variant, key) ==
    [id |-> id, status |-> status, pre |-> pre, variant |-> variant,
     compiled_from_task |-> key, intent |-> {}, descriptions |-> {}]

LOCAL Word(w) == [slots |-> {}, word |-> w]

LOCAL Quoted(w) == [slots |-> {"str", "path"}, word |-> w]

LOCAL Request(path) == <<Word("update"), Quoted(path), Word("")>>

LOCAL Shapes ==
    {Stored(0, s, pre, v, Request("a/b")) : s \in {"admitted", "demoted"},
        pre \in {{}, {"x"}, {"x", "y"}}, v \in {"merge", "rebase"}}

LOCAL Library(f) == {[f[i] EXCEPT !.id = i] : i \in DOMAIN f}

LOCAL Libraries == {Library(f) : f \in UNION {[1 .. n -> Shapes] : n \in 0 .. 2}}
                   \cup {Library(<<a, b, c>>) :
                            a, b, c \in {p \in Shapes : p.variant = "merge"}}

LOCAL Environments == SUBSET {"x", "y"}

LOCAL Range(seq) == {seq[i] : i \in DOMAIN seq}

(* At a floor of 1 the soft vote keeps what arm 3 accepts, in arm 3's order *)
(* (library.py:603): what lets arm 2b ask what the conjunction adds.        *)
ASSUME SoftVoteAtOneIsArm3 ==
    \A lib \in Libraries, env \in Environments :
        M!match_soft(lib, env, M!One) = M!match_preconditions(lib, env)

(* No arm fires what is not admitted, and a lower floor only adds programs. *)
ASSUME OnlyAdmittedFire ==
    \A lib \in Libraries, env \in Environments :
        /\ \A p \in M!dispatch_preconditions(lib, env)
                    \cup M!dispatch_soft_vote(lib, env, M!Zero)
                    \cup M!dispatch_intent_key(lib, Request("c/d")) : p.status = "admitted"
        /\ Range(M!match_soft(lib, env, M!One)) \subseteq Range(M!match_soft(lib, env, M!Zero))

(* What arm 3 fires is accepted, and no accepted program checks more.       *)
ASSUME MostSpecificFires ==
    \A lib \in Libraries, env \in Environments :
        LET accepted == {p \in lib : p.status = "admitted" /\ p.pre \subseteq env}
            fired == M!dispatch_preconditions(lib, env)
        IN /\ (fired = {}) <=> (accepted = {})
           /\ \A p \in fired : /\ p \in accepted
                               /\ \A q \in accepted : Cardinality(q.pre) <= Cardinality(p.pre)

(* The key ignores the values in its slots, and a key whose programs        *)
(* disagree about the resolution fires nothing (ADR-0015).                  *)
ASSUME KeyAbstains ==
    \A lib \in Libraries :
        LET admitted == {p \in lib : p.status = "admitted"}
            fired == M!dispatch_intent_key(lib, Request("c/d"))
        IN (fired = {}) <=> (Cardinality({p.variant : p \in admitted}) # 1)

LOCAL Scores(lib) == [lib -> {[n |-> 0, d |-> 1], [n |-> 1, d |-> 2], [n |-> 2, d |-> 4]}]

(* A reranker that agrees with the retrieval and sees all of it changes     *)
(* nothing; one that sees a single program can only fire that one.          *)
ASSUME RerankOnlyNarrows ==
    \A lib \in {l \in Libraries : Cardinality(l) < 3} : \A score \in Scores(lib) :
        LET single == M!match_semantic(lib, score, <<>>, 10, M!Zero, 3)
        IN /\ M!match_semantic(lib, score, <<score>>, 10, M!Zero, 3) = single
           /\ \A second \in Scores(lib) :
                  Range(M!match_semantic(lib, score, <<second>>, 1, M!Zero, 3))
                      \subseteq M!First(single, 1)

=============================================================================
