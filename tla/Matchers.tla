------------------------------ MODULE Matchers ------------------------------
(***************************************************************************)
(* How a request is matched to a stored program: library.py's four         *)
(* matchers, agents/dispatch.py's one choice from each, the lexical        *)
(* similarity and the request key they are run with.  Pure: a library is a *)
(* set of programs with distinct ids, an environment the set of predicates *)
(* that hold in it, a text its set of tokens, a score an exact fraction.   *)
(***************************************************************************)
EXTENDS LibraryStatus, Integers, FiniteSets, Sequences

Frac == [n : Nat, d : Nat \ {0}]

Zero == [n |-> 0, d |-> 1]

One == [n |-> 1, d |-> 1]

Below(a, b) == a.n * b.d < b.n * a.d

Admitted(lib) == {p \in lib : p.status = "admitted"}

(* A key that sorts S, as the list sort leaves it: the program k others     *)
(* come before is at place k + 1.                                           *)
Place(S, p, Before(_, _)) == 1 + Cardinality({q \in S : Before(q, p)})

Sorted(S, Before(_, _)) ==
    [i \in 1 .. Cardinality(S) |-> CHOOSE p \in S : Place(S, p, Before) = i]

IdBefore(p, q) == p.id < q.id

(* Most preconditions first, then by id.                                    *)
SpecificBefore(p, q) ==
    LET np == Cardinality(p.pre)
        nq == Cardinality(q.pre)
    IN np > nq \/ (np = nq /\ p.id < q.id)

------------------------------------------------------------------------------
(* What a program scores.                                                   *)

(* The fraction of the preconditions that hold; a refused probe does not.   *)
soft_vote_score(p, env) ==
    IF p.pre = {} THEN One
    ELSE [n |-> Cardinality(p.pre \cap env), d |-> Cardinality(p.pre)]

(* Jaccard overlap of the two token sets; no tokens, no similarity.         *)
lexical_similarity(query, candidate) ==
    IF query = {} \/ candidate = {} THEN Zero
    ELSE [n |-> Cardinality(query \cap candidate), d |-> Cardinality(query \cup candidate)]

(* The request and the state's words, against the program's purpose and the *)
(* descriptions of its checks; never its probes or body.                    *)
query_text(signature) == signature.intent \cup signature.fingerprint

program_text(p) == p.intent \cup p.descriptions

(* A batch of scores is refused unless it has one score per candidate.      *)
score_all(lib, query, batch) ==
    IF batch = <<>>
    THEN [ok |-> TRUE,
          score |-> [p \in lib |-> lexical_similarity(query, program_text(p))]]
    ELSE [ok |-> DOMAIN batch[1] = lib, score |-> batch[1]]

------------------------------------------------------------------------------
(* The matchers: each ranks the admitted programs it accepts.               *)

ok(p, env) == p.pre \subseteq env

match_preconditions(lib, env) ==
    Sorted({p \in Admitted(lib) : ok(p, env)}, SpecificBefore)

rank_soft(lib, env) ==
    LET Before(p, q) ==
            LET sp == soft_vote_score(p, env)
                sq == soft_vote_score(q, env)
            IN Below(sq, sp) \/ (~Below(sp, sq) /\ SpecificBefore(p, q))
    IN Sorted(Admitted(lib), Before)

(* The programs of rank_soft at or above the learned floor, in its order.   *)
match_soft(lib, env, soft_threshold) ==
    SelectSeq(rank_soft(lib, env),
              LAMBDA p : ~Below(soft_vote_score(p, env), soft_threshold))

(* Both stages of arm 2 sort by score and then by id.  A reranker only sees *)
(* the first rerank_k of the retrieval, and its score is the one judged.    *)
ByScore(S, score) ==
    LET Before(p, q) ==
            Below(score[q], score[p]) \/ (~Below(score[p], score[q]) /\ p.id < q.id)
    IN Sorted(S, Before)

First(seq, k) == {seq[i] : i \in 1 .. (IF k < Len(seq) THEN k ELSE Len(seq))}

match_semantic(lib, score, reranker, rerank_k, threshold, limit) ==
    LET admitted == Admitted(lib)
        kept == IF reranker = <<>> THEN admitted ELSE First(ByScore(admitted, score), rerank_k)
        judged == IF reranker = <<>> THEN score ELSE reranker[1]
        above == {p \in kept : ~Below(judged[p], threshold)}
        ranked == ByScore(above, judged)
    IN SubSeq(ranked, 1, IF limit < Len(ranked) THEN limit ELSE Len(ranked))

------------------------------------------------------------------------------
(* The request key.  A token carries every pattern it matches: a quoted     *)
(* path is both, a run of digits may be a commit and a number.              *)

Slots == <<"str", "path", "commit", "n">>

Abstracted(token) ==
    LET matching == {i \in 1 .. Len(Slots) : Slots[i] \in token.slots}
    IN IF matching = {} THEN [slot |-> None, word |-> token.word]
       ELSE [slot |-> Slots[CHOOSE i \in matching : \A j \in matching : i <= j], word |-> ""]

(* Punctuation is dropped last, when every slot is already a placeholder.   *)
intent_key(text) ==
    SelectSeq([i \in DOMAIN text |-> Abstracted(text[i])],
              LAMBDA t : t.slot # None \/ t.word # "")

(* The programs compiled under the request's key, or none when they         *)
(* disagree about the resolution.                                           *)
agreeing(lib, request) ==
    LET keyed == {p \in Admitted(lib) : intent_key(p.compiled_from_task) = intent_key(request)}
    IN IF Cardinality({p.variant : p \in keyed}) > 1 THEN <<>> ELSE Sorted(keyed, IdBefore)

------------------------------------------------------------------------------
(* agents/dispatch.py: the first of the ranking, or nothing.                *)

Dispatch(ranked) == IF ranked = <<>> THEN {} ELSE {ranked[1]}

dispatch_preconditions(lib, env) == Dispatch(match_preconditions(lib, env))

dispatch_soft_vote(lib, env, soft_threshold) == Dispatch(match_soft(lib, env, soft_threshold))

dispatch_semantic(lib, score, reranker, rerank_k, threshold) ==
    Dispatch(match_semantic(lib, score, reranker, rerank_k, threshold, 3))

dispatch_intent_key(lib, request) == Dispatch(agreeing(lib, request))

=============================================================================
