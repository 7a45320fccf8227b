-------------------------- MODULE CheckoutDispatch --------------------------
(***************************************************************************)
(* dispatch.py and checkout.py: dispatching a library on a person's own    *)
(* checkout.                                                               *)
(*                                                                         *)
(* A dispatch reads the checkout's state, probes every admitted program on *)
(* one copy, dry-runs the one that fires on a second copy, asks, compares  *)
(* the checkout with the state it read, and replays.  Meanwhile the person *)
(* edits, and other dispatches run on the same checkout.  The copies of a  *)
(* dispatch share its mirror of the upstream, where a body's pushes end.   *)
(*                                                                         *)
(* A content is the changes that led to it, and a change may also take the *)
(* last of them back: what is compared are contents (digests of them), so  *)
(* what was put back is as if it had never been there.  A copy is compared *)
(* with nothing, and its changes are only added up.  What a probe or a     *)
(* replay finds is left open.                                              *)
(***************************************************************************)
EXTENDS Naturals, Sequences, FiniteSets

CONSTANTS
    Dispatches,     \* dispatches on the one checkout
    Programs,       \* how many admitted programs there are, numbered by id
    Specificity,    \* how many preconditions each has
    Pushing,        \* the programs whose body pushes to the upstream
    MaxEdits        \* bound on the changes the person and the remote make

ASSUME DispatchAssumption ==
    /\ Programs \in Nat \ {0}
    /\ Specificity \in [1 .. Programs -> Nat]
    /\ Pushing \subseteq 1 .. Programs
    /\ MaxEdits \in Nat

NoProgram == 0

Changes == {<<"edit", 0>>, <<"fetch", 0>>} \cup ({"probe", "replay"} \X (1 .. Programs))

VARIABLES
    work,           \* the checkout
    mirror,         \* each dispatch's upstream-mirror.git
    pc,
    taken,          \* what sandbox_state said of the checkout and the mirror
    copy,           \* the copy the dispatch works on: for probing, then for the dry run
    next,           \* the next program to probe
    accepted,       \* the programs whose preconditions all held
    fires,          \* the program that fires, and is shown and replayed
    (* history variables *)
    tried,          \* the checkout and the mirror the dry run started from
    putBack,        \* since its state was taken, the checkout or its mirror had changes taken back
    edits

vars == <<work, mirror, pc, taken, copy, next, accepted, fires, tried, putBack, edits>>

-----------------------------------------------------------------------------

(* Arm 3's order: most preconditions first, then by id.                     *)
Before(p, q) ==
    \/ Specificity[p] > Specificity[q]
    \/ Specificity[p] = Specificity[q] /\ p < q

First(p, ps) ==
    IF ps = {} THEN p = NoProgram ELSE p \in ps /\ \A q \in ps \ {p} : Before(p, q)

(* sandbox_state covers the working copy and the upstream's refs.           *)
StateOf(d) == [work |-> work, upstream |-> mirror[d]]

(* What a change may make of a content: a new one, or one that was there    *)
(* before (a file put back, a merge aborted, a branch reset).               *)
Outcomes(content, change) ==
    {Append(content, change)} \cup {SubSeq(content, 1, n) : n \in 0 .. Len(content) - 1}

(* A body's pushes reach the mirror.                                        *)
Pushed(p, upstream) == IF p \in Pushing THEN Outcomes(upstream, <<"replay", p>>) ELSE {upstream}

(* The step is remembered by every dispatch it takes changes back for.      *)
NotePutBack ==
    putBack' = [d \in Dispatches |->
        putBack[d] \/ Len(work') < Len(work) \/ Len(mirror'[d]) < Len(mirror[d])]

-----------------------------------------------------------------------------

(* open_checkout: the trusted fetch may move the checkout's remote refs,    *)
(* and they are mirrored.                                                   *)
Open(d, moved) ==
    /\ pc[d] = "open"
    /\ moved => edits < MaxEdits
    /\ work' \in IF moved THEN Outcomes(work, <<"fetch", 0>>) ELSE {work}
    /\ edits' = IF moved THEN edits + 1 ELSE edits
    /\ pc' = [pc EXCEPT ![d] = "take"]
    /\ UNCHANGED <<mirror, taken, copy, next, accepted, fires, tried>>
    /\ NotePutBack

Take(d) ==
    /\ pc[d] = "take"
    /\ taken' = [taken EXCEPT ![d] = StateOf(d)]
    /\ putBack' = [putBack EXCEPT ![d] = FALSE]
    /\ pc' = [pc EXCEPT ![d] = "copy"]
    /\ UNCHANGED <<work, mirror, copy, next, accepted, fires, tried, putBack, edits>>

CopyToProbe(d) ==
    /\ pc[d] = "copy"
    /\ copy' = [copy EXCEPT ![d] = work]
    /\ pc' = [pc EXCEPT ![d] = "probe"]
    /\ UNCHANGED <<work, mirror, taken, next, accepted, fires, tried, putBack, edits>>

(* _report: a program's preconditions on the copy.                          *)
Probe(d, holds) ==
    /\ pc[d] = "probe"
    /\ next[d] <= Programs
    /\ accepted' = IF holds THEN [accepted EXCEPT ![d] = @ \cup {next[d]}] ELSE accepted
    /\ next' = [next EXCEPT ![d] = @ + 1]
    /\ UNCHANGED <<work, mirror, pc, taken, copy, fires, tried, putBack, edits>>

(* A probe that writes is refused, and what it wrote, into the copy or into *)
(* the mirror, is not undone.  As a bug would have it, the checkout itself  *)
(* is probed.                                                               *)
ProbeTheCheckout(d, pushes) ==
    /\ pc[d] = "probe"
    /\ next[d] <= Programs
    /\ work' = Append(work, <<"probe", next[d]>>)
    /\ next' = [next EXCEPT ![d] = @ + 1]
    /\ UNCHANGED <<mirror, pc, taken, copy, accepted, fires, tried, putBack, edits>>

ProbeWrites(d, pushes) ==
    /\ pc[d] = "probe"
    /\ next[d] <= Programs
    /\ copy' = [copy EXCEPT ![d] = Append(@, <<"probe", next[d]>>)]
    /\ \E upstream \in IF pushes THEN Outcomes(mirror[d], <<"probe", next[d]>>) ELSE {mirror[d]} :
           mirror' = [mirror EXCEPT ![d] = upstream]
    /\ next' = [next EXCEPT ![d] = @ + 1]
    /\ UNCHANGED <<work, pc, taken, accepted, fires, tried, edits>>
    /\ NotePutBack

(* The report: what fires, if anything does and a confirmation is asked     *)
(* for.  As a bug would have it, the dry run is entered with nothing to try. *)
ReportNothing(d, confirming) ==
    /\ pc[d] = "probe"
    /\ next[d] > Programs
    /\ \E p \in 0 .. Programs :
           First(p, accepted[d]) /\ fires' = [fires EXCEPT ![d] = p]
    /\ pc' = [pc EXCEPT ![d] = IF confirming THEN "fresh copy" ELSE "reported"]
    /\ UNCHANGED <<work, mirror, taken, copy, next, accepted, tried, putBack, edits>>

Report(d, confirming) ==
    /\ pc[d] = "probe"
    /\ next[d] > Programs
    /\ \E p \in 0 .. Programs :
           First(p, accepted[d]) /\ fires' = [fires EXCEPT ![d] = p]
    /\ pc' = [pc EXCEPT ![d] =
           IF confirming /\ accepted[d] # {} THEN "fresh copy" ELSE "reported"]
    /\ UNCHANGED <<work, mirror, taken, copy, next, accepted, tried, putBack, edits>>

CopyToTry(d) ==
    /\ pc[d] = "fresh copy"
    /\ copy' = [copy EXCEPT ![d] = work]
    /\ tried' = [tried EXCEPT ![d] = [work |-> work, upstream |-> mirror[d]]]
    /\ pc' = [pc EXCEPT ![d] = "dry run"]
    /\ UNCHANGED <<work, mirror, taken, next, accepted, fires, putBack, edits>>

(* _dry_run: refused by the guard it changes nothing; having run it leaves  *)
(* its changes, whether it succeeds or fails.                               *)
DryRun(d, ran, ok) ==
    /\ pc[d] = "dry run"
    /\ ok => ran
    /\ copy' = IF ran THEN [copy EXCEPT ![d] = Append(@, <<"replay", fires[d]>>)] ELSE copy
    /\ \E upstream \in IF ran THEN Pushed(fires[d], mirror[d]) ELSE {mirror[d]} :
           mirror' = [mirror EXCEPT ![d] = upstream]
    /\ pc' = [pc EXCEPT ![d] = IF ok THEN "confirm" ELSE "failed"]
    /\ UNCHANGED <<work, taken, next, accepted, fires, tried, edits>>
    /\ NotePutBack

Confirm(d, yes) ==
    /\ pc[d] = "confirm"
    /\ pc' = [pc EXCEPT ![d] = IF yes THEN "compare" ELSE "declined"]
    /\ UNCHANGED <<work, mirror, taken, copy, next, accepted, fires, tried, putBack, edits>>

(* As a bug would have it, the upstream is left out of the comparison.      *)
CompareWork(d) ==
    /\ pc[d] = "compare"
    /\ pc' = [pc EXCEPT ![d] = IF work = taken[d].work THEN "replay" ELSE "changed"]
    /\ UNCHANGED <<work, mirror, taken, copy, next, accepted, fires, tried, putBack, edits>>

Compare(d) ==
    /\ pc[d] = "compare"
    /\ pc' = [pc EXCEPT ![d] = IF StateOf(d) = taken[d] THEN "replay" ELSE "changed"]
    /\ UNCHANGED <<work, mirror, taken, copy, next, accepted, fires, tried, putBack, edits>>

(* The replay on the checkout, which may be refused there.                  *)
Replay(d, ran) ==
    /\ pc[d] = "replay"
    /\ work' \in IF ran THEN Outcomes(work, <<"replay", fires[d]>>) ELSE {work}
    /\ \E upstream \in IF ran THEN Pushed(fires[d], mirror[d]) ELSE {mirror[d]} :
           mirror' = [mirror EXCEPT ![d] = upstream]
    /\ pc' = [pc EXCEPT ![d] = "replayed"]
    /\ UNCHANGED <<taken, copy, next, accepted, fires, tried, edits>>
    /\ NotePutBack

(* The person works in the checkout, or puts back what was there.           *)
Edit ==
    /\ edits < MaxEdits
    /\ work' \in Outcomes(work, <<"edit", 0>>)
    /\ edits' = edits + 1
    /\ UNCHANGED <<mirror, pc, taken, copy, next, accepted, fires, tried>>
    /\ NotePutBack

-----------------------------------------------------------------------------

NoState == [work |-> <<>>, upstream |-> <<>>]

Init ==
    /\ work = <<>>
    /\ mirror = [d \in Dispatches |-> <<>>]
    /\ pc = [d \in Dispatches |-> "open"]
    /\ taken = [d \in Dispatches |-> NoState]
    /\ copy = [d \in Dispatches |-> <<>>]
    /\ next = [d \in Dispatches |-> 1]
    /\ accepted = [d \in Dispatches |-> {}]
    /\ fires = [d \in Dispatches |-> NoProgram]
    /\ tried = [d \in Dispatches |-> NoState]
    /\ putBack = [d \in Dispatches |-> FALSE]
    /\ edits = 0

Step(d) ==
    \/ \E moved \in BOOLEAN : Open(d, moved)
    \/ Take(d)
    \/ CopyToProbe(d)
    \/ \E holds \in BOOLEAN : Probe(d, holds)
    \/ \E pushes \in BOOLEAN : ProbeWrites(d, pushes)
    \/ \E confirming \in BOOLEAN : Report(d, confirming)
    \/ CopyToTry(d)
    \/ \E ran, ok \in BOOLEAN : DryRun(d, ran, ok)
    \/ \E yes \in BOOLEAN : Confirm(d, yes)
    \/ Compare(d)
    \/ \E ran \in BOOLEAN : Replay(d, ran)

Next == Edit \/ \E d \in Dispatches : Step(d)

Spec == Init /\ [][Next]_vars

-----------------------------------------------------------------------------

Contents == Seq(Changes)

States == [work : Contents, upstream : Contents]

TypeOK ==
    /\ work \in Contents
    /\ mirror \in [Dispatches -> Contents]
    /\ pc \in [Dispatches -> {"open", "take", "copy", "probe", "reported", "fresh copy", "dry run",
                              "confirm", "compare", "replay", "failed", "declined", "changed",
                              "replayed"}]
    /\ taken \in [Dispatches -> States]
    /\ copy \in [Dispatches -> Contents]
    /\ next \in [Dispatches -> 1 .. Programs + 1]
    /\ accepted \in [Dispatches -> SUBSET (1 .. Programs)]
    /\ fires \in [Dispatches -> 0 .. Programs]
    /\ tried \in [Dispatches -> States]
    /\ putBack \in [Dispatches -> BOOLEAN]
    /\ edits \in 0 .. MaxEdits

(* When a replay on the checkout is let through, the upstream is the one    *)
(* the dispatch read first, and its dry run started from that upstream and  *)
(* from the checkout it read first, whatever the person, the probes, the    *)
(* dry run and other dispatches did meanwhile -- unless one of them put     *)
(* back what it had changed before the comparison, which sees contents.     *)
TriedOnWhatWasTaken ==
    \A d \in Dispatches : pc[d] = "replay" =>
        /\ mirror[d] = taken[d].upstream
        /\ ~putBack[d] => tried[d] = taken[d]

(* A step of a dispatch changes the checkout only by the trusted fetch, or  *)
(* by replaying the one program that was dry-run, after the comparison.     *)
OnlyConfirmedReplays ==
    [][work' # work =>
           \/ edits' = edits + 1
           \/ \E d \in Dispatches :
                  /\ pc[d] = "replay" /\ pc'[d] = "replayed"
                  /\ fires[d] \in accepted[d]
                  /\ <<"replay", fires[d]>> = copy[d][Len(copy[d])]
                  /\ work' \in Outcomes(work, <<"replay", fires[d]>>)]_vars

(* run_dispatch says a confirmed program is replayed unless its dry run     *)
(* failed or the checkout changed after the copies were taken.              *)
RefusedOnlyIfChanged ==
    \A d \in Dispatches : pc[d] = "changed" => work # taken[d].work

=============================================================================
