----------------------- MODULE CheckoutDispatch_proofs ----------------------
(***************************************************************************)
(* Theorems about CheckoutDispatch, for every set of dispatches, number of *)
(* programs and bound on edits: whatever happens to the checkout between   *)
(* two steps of a dispatch, what is replayed was tried on what is there,   *)
(* unless a change was put back before the comparison could see it.        *)
(***************************************************************************)
EXTENDS CheckoutDispatch, SequenceTheorems, TLAPS

(* t is s with changes after it.                                            *)
Grown(s, t) == Len(s) <= Len(t) /\ \A i \in 1 .. Len(s) : s[i] = t[i]

LEMMA GrownReflexive ==
    ASSUME NEW s \in Contents
    PROVE  Grown(s, s)
  BY DEF Grown, Contents

LEMMA GrownTransitive ==
    ASSUME NEW s \in Contents, NEW t \in Contents, NEW u \in Contents,
           Grown(s, t), Grown(t, u)
    PROVE  Grown(s, u)
  BY DEF Grown, Contents

LEMMA GrownAppend ==
    ASSUME NEW s \in Contents, NEW c \in Changes
    PROVE  Append(s, c) \in Contents /\ Grown(s, Append(s, c))
  BY DEF Grown, Contents

(* A change makes the content longer, or takes some of it back.             *)
LEMMA OutcomesAre ==
    ASSUME NEW s \in Contents, NEW c \in Changes, NEW t \in Outcomes(s, c)
    PROVE  t \in Contents /\ (Len(t) < Len(s) \/ Grown(s, t))
<1>1. CASE t = Append(s, c)
  BY <1>1, GrownAppend
<1>2. ASSUME NEW n \in 0 .. Len(s) - 1, t = SubSeq(s, 1, n)
      PROVE  t \in Contents /\ Len(t) < Len(s)
  <2>1. s \in Seq(Changes) /\ Len(s) \in Nat /\ n \in Nat /\ n < Len(s)
    BY DEF Contents
  <2>2. \A i \in 1 .. n : s[i] \in Changes
    BY <2>1
  <2>3. SubSeq(s, 1, n) \in Seq(Changes) /\ Len(SubSeq(s, 1, n)) = n
    BY <2>1, <2>2, SubSeqProperties
  <2> QED
    BY <1>2, <2>1, <2>3 DEF Contents
<1> QED
  BY <1>1, <1>2 DEF Outcomes

(* A content between two equal ones is the same content.                    *)
LEMMA GrownBetween ==
    ASSUME NEW s \in Contents, NEW t \in Contents, Grown(s, t), Grown(t, s)
    PROVE  s = t
  BY SeqEqual DEF Grown, Contents

(* The last change is the one appended.                                     *)
LEMMA LastOfAppend ==
    ASSUME NEW s \in Contents, NEW c \in Changes
    PROVE  Append(s, c) # <<>> /\ Append(s, c)[Len(Append(s, c))] = c
  BY DEF Contents

(* An edit, a fetch, a probe and a replay are changes.                      *)
LEMMA ChangesAre ==
    /\ <<"edit", 0>> \in Changes /\ <<"fetch", 0>> \in Changes
    /\ \A p \in 1 .. Programs : <<"probe", p>> \in Changes /\ <<"replay", p>> \in Changes
  BY DEF Changes

(* The bounds, without the order of the programs.                           *)
LEMMA BoundsAre == Programs \in Nat \ {0} /\ MaxEdits \in Nat
  BY DispatchAssumption

(* The next program, until the last has been probed.                        *)
LEMMA NextIs ==
    ASSUME NEW n \in 1 .. Programs + 1, n <= Programs
    PROVE  n \in 1 .. Programs /\ n + 1 \in 1 .. Programs + 1
  BY BoundsAre

(* One more edit, below the bound.                                          *)
LEMMA EditsAre ==
    ASSUME NEW n \in 0 .. MaxEdits, n < MaxEdits
    PROVE  n + 1 \in 0 .. MaxEdits
  BY BoundsAre

-----------------------------------------------------------------------------

(* From the report on, the program at hand is one that was accepted.        *)
Firing == {"fresh copy", "dry run", "confirm", "compare", "replay"}

Taken == {"copy", "probe", "reported", "fresh copy", "dry run", "confirm", "compare", "replay"}

(* Of a dispatch that saw nothing put back: what it has read stays behind   *)
(* what is there now, the trial between the two.                            *)
Ordered(d) ==
    /\ pc[d] \in Taken =>
           Grown(taken[d].work, work) /\ Grown(taken[d].upstream, mirror[d])
    /\ pc[d] \in Firing \ {"fresh copy"} =>
           /\ Grown(taken[d].work, tried[d].work) /\ Grown(tried[d].work, work)
           /\ Grown(taken[d].upstream, tried[d].upstream)
           /\ Grown(tried[d].upstream, mirror[d])
    /\ pc[d] = "replay" => tried[d] = taken[d]

(* The last change of a dispatch's copy is the trial's.                     *)
DispatchInv(d) ==
    /\ pc[d] \in Firing => fires[d] \in accepted[d]
    /\ ~putBack[d] => Ordered(d)
    /\ pc[d] \in {"confirm", "compare", "replay"} =>
           copy[d] # <<>> /\ copy[d][Len(copy[d])] = <<"replay", fires[d]>>
    /\ pc[d] = "replay" => mirror[d] = taken[d].upstream

DispatchInvs == \A d \in Dispatches : DispatchInv(d)

-----------------------------------------------------------------------------

(* The type invariant holds at first and after every step.                  *)
LEMMA TypeInit == Init => TypeOK
  BY DispatchAssumption DEF Init, TypeOK, NoState, States, Contents, NoProgram

(* A push leaves a content of the upstream.                                 *)
LEMMA PushedType ==
    ASSUME NEW p \in 1 .. Programs, NEW u \in Contents
    PROVE  \A v \in Pushed(p, u) : v \in Contents /\ (Len(v) < Len(u) \/ Grown(u, v))
  BY ChangesAre, OutcomesAre, GrownReflexive DEF Pushed

(* What a step that may put something back notes.                           *)
LEMMA NoteType ==
    ASSUME NotePutBack
    PROVE  putBack' \in [Dispatches -> {TRUE, FALSE}]
  BY DEF NotePutBack

(* A step of a dispatch keeps the types, if a firing program was accepted.  *)
LEMMA TypeStep ==
    ASSUME TypeOK, DispatchInvs, [Next]_vars
    PROVE  TypeOK'
<1> USE DEF TypeOK
<1>1. CASE Edit
  <2>1. edits' \in 0 .. MaxEdits
    BY <1>1, EditsAre DEF Edit
  <2>2. work' \in Contents
    BY <1>1, ChangesAre, OutcomesAre DEF Edit
  <2> QED
    BY <1>1, <2>1, <2>2, NoteType DEF Edit
<1>2. ASSUME NEW d \in Dispatches, Step(d) PROVE TypeOK'
  <2> fires[d] \in accepted[d] => fires[d] \in 1 .. Programs
    OBVIOUS
  <2>1. ASSUME NEW moved \in BOOLEAN, Open(d, moved) PROVE TypeOK'
    <3>1. edits' \in 0 .. MaxEdits
      BY <2>1, EditsAre DEF Open
    <3>2. work' \in Contents
      BY <2>1, ChangesAre, OutcomesAre DEF Open
    <3> QED
      BY <2>1, <3>1, <3>2, NoteType DEF Open
  <2>2. CASE Take(d)
    BY <2>2 DEF Take, StateOf, States
  <2>3. CASE CopyToProbe(d)
    BY <2>3 DEF CopyToProbe
  <2>4. ASSUME NEW holds \in BOOLEAN, Probe(d, holds) PROVE TypeOK'
    <3>1. next[d] \in 1 .. Programs /\ next[d] + 1 \in 1 .. Programs + 1
      BY <2>4, NextIs DEF Probe
    <3>2. accepted[d] \cup {next[d]} \in SUBSET (1 .. Programs)
      BY <3>1
    <3> QED
      BY <2>4, <3>1, <3>2 DEF Probe
  <2>5. ASSUME NEW pushes \in BOOLEAN, ProbeWrites(d, pushes) PROVE TypeOK'
    <3>1. next[d] \in 1 .. Programs /\ next[d] + 1 \in 1 .. Programs + 1
      BY <2>5, NextIs DEF ProbeWrites
    <3>2. /\ Append(copy[d], <<"probe", next[d]>>) \in Contents
          /\ \A u \in Outcomes(mirror[d], <<"probe", next[d]>>) : u \in Contents
      BY <3>1, ChangesAre, GrownAppend, OutcomesAre
    <3>3. mirror' \in [Dispatches -> Contents]
      BY <2>5, <3>2 DEF ProbeWrites
    <3> QED
      BY <2>5, <3>1, <3>2, <3>3, NoteType DEF ProbeWrites
  <2>6. ASSUME NEW confirming \in BOOLEAN, Report(d, confirming) PROVE TypeOK'
    BY <2>6 DEF Report
  <2>7. CASE CopyToTry(d)
    BY <2>7 DEF CopyToTry, States
  <2>8. ASSUME NEW ran \in BOOLEAN, NEW ok \in BOOLEAN, DryRun(d, ran, ok) PROVE TypeOK'
    <3>1. fires[d] \in 1 .. Programs
      BY <2>8 DEF DryRun, DispatchInvs, DispatchInv, Firing
    <3>2. Append(copy[d], <<"replay", fires[d]>>) \in Contents
      BY <3>1, ChangesAre, GrownAppend
    <3>3. mirror' \in [Dispatches -> Contents]
      BY <2>8, <3>1, PushedType DEF DryRun
    <3> QED
      BY <2>8, <3>2, <3>3, NoteType DEF DryRun
  <2>9. ASSUME NEW yes \in BOOLEAN, Confirm(d, yes) PROVE TypeOK'
    BY <2>9 DEF Confirm
  <2>10. CASE Compare(d)
    BY <2>10 DEF Compare
  <2>11. ASSUME NEW ran \in BOOLEAN, Replay(d, ran) PROVE TypeOK'
    <3>1. fires[d] \in 1 .. Programs
      BY <2>11 DEF Replay, DispatchInvs, DispatchInv, Firing
    <3>2. work' \in Contents
      BY <2>11, <3>1, ChangesAre, OutcomesAre DEF Replay
    <3>3. mirror' \in [Dispatches -> Contents]
      BY <2>11, <3>1, PushedType DEF Replay
    <3> QED
      BY <2>11, <3>2, <3>3, NoteType DEF Replay
  <2> QED
    BY <1>2, <2>1, <2>2, <2>3, <2>4, <2>5, <2>6, <2>7, <2>8, <2>9, <2>10, <2>11 DEF Step
<1>3. CASE UNCHANGED vars
  BY <1>3 DEF vars
<1> QED
  BY <1>1, <1>2, <1>3 DEF Next

-----------------------------------------------------------------------------

(* Every step keeps what a dispatch has read behind what is there now.      *)

(* Of a dispatch that has still seen nothing put back, the checkout and the *)
(* mirror have grown.                                                       *)
Grows(e) ==
    ~putBack'[e] => ~putBack[e] /\ Grown(work, work') /\ Grown(mirror[e], mirror'[e])

(* A step whose changes are noted, or that makes none.                      *)
LEMMA NotedGrows ==
    ASSUME TypeOK, NotePutBack, NEW e \in Dispatches,
           Len(work') < Len(work) \/ Grown(work, work'),
           Len(mirror'[e]) < Len(mirror[e]) \/ Grown(mirror[e], mirror'[e])
    PROVE  Grows(e)
  BY DEF NotePutBack, Grows

LEMMA UnchangedGrows ==
    ASSUME TypeOK, NEW e \in Dispatches, UNCHANGED <<work, mirror>>, putBack'[e] = putBack[e]
    PROVE  Grows(e)
<1>1. work \in Contents /\ mirror[e] \in Contents
  BY DEF TypeOK
<1>2. Grown(work, work) /\ Grown(mirror[e], mirror[e])
  BY <1>1, GrownReflexive
<1> QED
  BY <1>2 DEF Grows

(* Only the dispatch that takes its state forgets what was put back.        *)
LEMMA StepGrows ==
    ASSUME TypeOK, DispatchInvs, [Next]_vars, NEW e \in Dispatches, ~Take(e)
    PROVE  Grows(e)
<1>0. /\ work \in Contents /\ mirror \in [Dispatches -> Contents]
      /\ putBack \in [Dispatches -> BOOLEAN] /\ mirror[e] \in Contents
  BY DEF TypeOK
<1>r. Grown(work, work) /\ Grown(mirror[e], mirror[e])
  BY <1>0, GrownReflexive
<1>1. CASE Edit
  <2>1. Len(work') < Len(work) \/ Grown(work, work')
    BY <1>0, <1>1, ChangesAre, OutcomesAre DEF Edit
  <2>2. NotePutBack /\ mirror'[e] = mirror[e]
    BY <1>1 DEF Edit
  <2> QED
    BY <1>r, <2>1, <2>2, NotedGrows
<1>2. ASSUME NEW d \in Dispatches, Step(d) PROVE Grows(e)
  <2>1. ASSUME NEW moved \in BOOLEAN, Open(d, moved) PROVE Grows(e)
    <3>1. Len(work') < Len(work) \/ Grown(work, work')
      BY <1>0, <1>r, <2>1, ChangesAre, OutcomesAre DEF Open
    <3>2. NotePutBack /\ mirror'[e] = mirror[e]
      BY <2>1 DEF Open
    <3> QED
      BY <1>r, <3>1, <3>2, NotedGrows
  <2>2. CASE Take(d)
    <3>1. d # e
      BY <2>2
    <3>2. putBack'[e] = putBack[e] /\ UNCHANGED <<work, mirror>>
      BY <1>0, <2>2, <3>1 DEF Take
    <3> QED
      BY <3>2, UnchangedGrows
  <2>3. ASSUME NEW pushes \in BOOLEAN, ProbeWrites(d, pushes) PROVE Grows(e)
    <3>1. <<"probe", next[d]>> \in Changes
      BY <2>3, NextIs, ChangesAre DEF ProbeWrites, TypeOK
    <3>2. PICK u \in IF pushes THEN Outcomes(mirror[d], <<"probe", next[d]>>) ELSE {mirror[d]} :
              mirror' = [mirror EXCEPT ![d] = u]
      BY <2>3 DEF ProbeWrites
    <3>3. mirror[d] \in Contents /\ Grown(mirror[d], mirror[d])
      BY <1>0, GrownReflexive
    <3>4. Len(u) < Len(mirror[d]) \/ Grown(mirror[d], u)
      BY <3>1, <3>2, <3>3, OutcomesAre
    <3>5. Len(mirror'[e]) < Len(mirror[e]) \/ Grown(mirror[e], mirror'[e])
      BY <1>0, <1>r, <3>2, <3>4
    <3>6. NotePutBack /\ work' = work
      BY <2>3 DEF ProbeWrites
    <3> QED
      BY <1>r, <3>5, <3>6, NotedGrows
  <2>4. ASSUME NEW ran \in BOOLEAN, NEW ok \in BOOLEAN, DryRun(d, ran, ok) PROVE Grows(e)
    <3>1. fires[d] \in 1 .. Programs
      BY <2>4 DEF DryRun, DispatchInvs, DispatchInv, Firing, TypeOK
    <3>2. PICK u \in IF ran THEN Pushed(fires[d], mirror[d]) ELSE {mirror[d]} :
              mirror' = [mirror EXCEPT ![d] = u]
      BY <2>4 DEF DryRun
    <3>3. mirror[d] \in Contents /\ Grown(mirror[d], mirror[d])
      BY <1>0, GrownReflexive
    <3>4. Len(u) < Len(mirror[d]) \/ Grown(mirror[d], u)
      BY <3>1, <3>2, <3>3, PushedType
    <3>5. Len(mirror'[e]) < Len(mirror[e]) \/ Grown(mirror[e], mirror'[e])
      BY <1>0, <1>r, <3>2, <3>4
    <3>6. NotePutBack /\ work' = work
      BY <2>4 DEF DryRun
    <3> QED
      BY <1>r, <3>5, <3>6, NotedGrows
  <2>5. ASSUME NEW ran \in BOOLEAN, Replay(d, ran) PROVE Grows(e)
    <3>1. fires[d] \in 1 .. Programs
      BY <2>5 DEF Replay, DispatchInvs, DispatchInv, Firing, TypeOK
    <3>2. PICK u \in IF ran THEN Pushed(fires[d], mirror[d]) ELSE {mirror[d]} :
              mirror' = [mirror EXCEPT ![d] = u]
      BY <2>5 DEF Replay
    <3>3. mirror[d] \in Contents /\ Grown(mirror[d], mirror[d])
      BY <1>0, GrownReflexive
    <3>4. Len(u) < Len(mirror[d]) \/ Grown(mirror[d], u)
      BY <3>1, <3>2, <3>3, PushedType
    <3>5. Len(mirror'[e]) < Len(mirror[e]) \/ Grown(mirror[e], mirror'[e])
      BY <1>0, <1>r, <3>2, <3>4
    <3>6. Len(work') < Len(work) \/ Grown(work, work')
      BY <1>0, <1>r, <2>5, <3>1, ChangesAre, OutcomesAre DEF Replay
    <3>7. NotePutBack
      BY <2>5 DEF Replay
    <3> QED
      BY <3>5, <3>6, <3>7, NotedGrows
  <2>6. ASSUME UNCHANGED <<work, mirror, putBack>> PROVE Grows(e)
    BY <2>6, UnchangedGrows
  <2>7. \/ \E moved \in BOOLEAN : Open(d, moved)
        \/ Take(d)
        \/ \E pushes \in BOOLEAN : ProbeWrites(d, pushes)
        \/ \E ran, ok \in BOOLEAN : DryRun(d, ran, ok)
        \/ \E ran \in BOOLEAN : Replay(d, ran)
        \/ UNCHANGED <<work, mirror, putBack>>
    BY <1>2 DEF Step, CopyToProbe, Probe, Report, CopyToTry, Confirm, Compare
  <2> QED
    BY <2>1, <2>2, <2>3, <2>4, <2>5, <2>6, <2>7
<1>3. CASE UNCHANGED vars
  BY <1>3, UnchangedGrows DEF vars
<1> QED
  BY <1>1, <1>2, <1>3 DEF Next

(* A step that changes nothing of dispatch e but lets the checkout grow     *)
(* keeps e's invariant.                                                     *)
LEMMA OthersKeep ==
    ASSUME TypeOK, TypeOK', NEW e \in Dispatches, DispatchInv(e), Grows(e),
           pc'[e] = pc[e], taken'[e] = taken[e], copy'[e] = copy[e], mirror'[e] = mirror[e],
           accepted'[e] = accepted[e], fires'[e] = fires[e], tried'[e] = tried[e]
    PROVE  DispatchInv(e)'
<1>1. /\ work \in Contents /\ work' \in Contents
      /\ taken[e] \in States /\ tried[e] \in States
  BY DEF TypeOK
<1>2. taken[e].work \in Contents /\ tried[e].work \in Contents
  BY <1>1 DEF States
<1>3. ASSUME ~putBack'[e] PROVE Ordered(e)'
  <2>1. Ordered(e) /\ Grown(work, work')
    BY <1>3 DEF Grows, DispatchInv
  <2>2. Grown(taken[e].work, work) => Grown(taken[e].work, work')
    BY <1>1, <1>2, <2>1, GrownTransitive
  <2>3. Grown(tried[e].work, work) => Grown(tried[e].work, work')
    BY <1>1, <1>2, <2>1, GrownTransitive
  <2> QED
    BY <2>1, <2>2, <2>3 DEF Ordered
<1> QED
  BY <1>3 DEF DispatchInv

(* The step of a dispatch keeps its own invariant.                          *)
LEMMA OwnStep ==
    ASSUME TypeOK, TypeOK', DispatchInvs, NEW d \in Dispatches, Step(d), Take(d) \/ Grows(d)
    PROVE  DispatchInv(d)'
<1> DispatchInv(d)
  BY DEF DispatchInvs
<1>t. /\ work \in Contents /\ work' \in Contents
      /\ mirror[d] \in Contents /\ mirror'[d] \in Contents
      /\ taken[d] \in States /\ tried[d] \in States
      /\ d \in DOMAIN pc /\ d \in DOMAIN mirror /\ d \in DOMAIN taken /\ d \in DOMAIN tried
      /\ d \in DOMAIN copy /\ d \in DOMAIN fires /\ d \in DOMAIN accepted /\ d \in DOMAIN putBack
      /\ copy[d] \in Contents
      /\ fires[d] \in 0 .. Programs /\ accepted[d] \subseteq 1 .. Programs
  BY DEF TypeOK
<1>s. /\ taken[d].work \in Contents /\ taken[d].upstream \in Contents
      /\ tried[d].work \in Contents /\ tried[d].upstream \in Contents
  BY <1>t DEF States
<1>r. Grown(work, work) /\ Grown(mirror[d], mirror[d])
  BY <1>t, GrownReflexive
<1>p. Take(d) => pc[d] = "take"
  BY DEF Take
(* A step that keeps the states read and saw nothing put back.              *)
<1>g. ASSUME pc[d] # "take", ~putBack'[d], UNCHANGED <<taken, tried>>
      PROVE  /\ Ordered(d)
             /\ Grown(taken[d].work, work) => Grown(taken'[d].work, work')
             /\ Grown(tried[d].work, work) => Grown(tried'[d].work, work')
             /\ Grown(taken[d].upstream, mirror[d]) => Grown(taken'[d].upstream, mirror'[d])
             /\ Grown(tried[d].upstream, mirror[d]) => Grown(tried'[d].upstream, mirror'[d])
  <2>0. Ordered(d) /\ Grown(work, work') /\ Grown(mirror[d], mirror'[d])
    BY <1>p, <1>g DEF Grows, DispatchInv
  <2>1. Grown(taken[d].work, work) => Grown(taken[d].work, work')
    BY <1>t, <1>s, <2>0, GrownTransitive
  <2>2. Grown(tried[d].work, work) => Grown(tried[d].work, work')
    BY <1>t, <1>s, <2>0, GrownTransitive
  <2>3. Grown(taken[d].upstream, mirror[d]) => Grown(taken[d].upstream, mirror'[d])
    BY <1>t, <1>s, <2>0, GrownTransitive
  <2>4. Grown(tried[d].upstream, mirror[d]) => Grown(tried[d].upstream, mirror'[d])
    BY <1>t, <1>s, <2>0, GrownTransitive
  <2> QED
    BY <1>g, <2>0, <2>1, <2>2, <2>3, <2>4
<1> USE DEF Firing, Taken
<1>1. ASSUME NEW moved \in BOOLEAN, Open(d, moved) PROVE DispatchInv(d)'
  BY <1>1, <1>t DEF Open, DispatchInv, Ordered
<1>2. CASE Take(d)
  <2>1. taken'[d] = [work |-> work, upstream |-> mirror[d]] /\ work' = work /\ mirror' = mirror
    BY <1>2, <1>t DEF Take, StateOf
  <2>2. pc'[d] = "copy"
    BY <1>2, <1>t DEF Take
  <2>3. taken'[d].work = work' /\ taken'[d].upstream = mirror'[d]
    BY <2>1
  <2>4. Ordered(d)'
    BY <2>1, <2>2, <2>3, <1>r DEF Ordered
  <2> QED
    BY <2>2, <2>4 DEF DispatchInv
<1>3. CASE CopyToProbe(d)
  BY <1>3, <1>t, <1>g DEF CopyToProbe, DispatchInv, Ordered
<1>4. ASSUME NEW holds \in BOOLEAN, Probe(d, holds) PROVE DispatchInv(d)'
  BY <1>4, <1>t, <1>g DEF Probe, DispatchInv, Ordered
<1>5. ASSUME NEW pushes \in BOOLEAN, ProbeWrites(d, pushes) PROVE DispatchInv(d)'
  <2>1. /\ pc[d] = "probe" /\ pc' = pc /\ UNCHANGED <<taken, tried, accepted, fires>>
    BY <1>5 DEF ProbeWrites
  <2>2. ASSUME ~putBack'[d] PROVE Ordered(d)'
    BY <1>g, <2>1, <2>2 DEF Ordered
  <2> QED
    BY <2>1, <2>2 DEF DispatchInv
<1>6. ASSUME NEW confirming \in BOOLEAN, Report(d, confirming) PROVE DispatchInv(d)'
  <2>1. accepted[d] # {} => fires'[d] \in accepted[d]
    BY <1>6, <1>t DEF Report, First
  <2>2. /\ pc[d] = "probe" /\ UNCHANGED <<taken, tried, accepted>>
        /\ pc'[d] = "reported" \/ (pc'[d] = "fresh copy" /\ accepted[d] # {})
    BY <1>6, <1>t DEF Report
  <2>3. ASSUME ~putBack'[d] PROVE Ordered(d)'
    BY <1>g, <2>2, <2>3 DEF Ordered
  <2> QED
    BY <2>1, <2>2, <2>3 DEF DispatchInv
<1>7. CASE CopyToTry(d)
  <2>1. tried'[d] = [work |-> work, upstream |-> mirror[d]] /\ work' = work /\ mirror' = mirror
    BY <1>7, <1>t DEF CopyToTry
  <2>2. /\ pc[d] = "fresh copy" /\ pc'[d] = "dry run"
        /\ UNCHANGED <<taken, accepted, fires, putBack>>
    BY <1>7, <1>t DEF CopyToTry
  <2>3. tried'[d].work = work /\ tried'[d].upstream = mirror[d]
    BY <2>1
  <2>4. ASSUME ~putBack'[d] PROVE Ordered(d)'
    <3>1. Grown(taken[d].work, work) /\ Grown(taken[d].upstream, mirror[d])
      BY <2>2, <2>4 DEF DispatchInv, Ordered
    <3> QED
      BY <1>r, <2>1, <2>2, <2>3, <3>1 DEF Ordered
  <2> QED
    BY <2>2, <2>4 DEF DispatchInv
<1>8. ASSUME NEW ran \in BOOLEAN, NEW ok \in BOOLEAN, DryRun(d, ran, ok) PROVE DispatchInv(d)'
  <2>1. fires[d] \in 1 .. Programs
    BY <1>8, <1>t DEF DryRun, DispatchInv
  <2>3. ok => /\ copy'[d] # <<>>
              /\ copy'[d][Len(copy'[d])] = <<"replay", fires[d]>>
    <3>1. <<"replay", fires[d]>> \in Changes
      BY <2>1, ChangesAre
    <3>2. ok => copy'[d] = Append(copy[d], <<"replay", fires[d]>>)
      BY <1>8, <1>t DEF DryRun
    <3> DEFINE c == Append(copy[d], <<"replay", fires[d]>>)
    <3>3. c # <<>> /\ c[Len(c)] = <<"replay", fires[d]>>
      BY <3>1, <1>t, LastOfAppend
    <3> HIDE DEF c
    <3>4. ok => copy'[d] = c
      BY <3>2 DEF c
    <3> QED
      BY <3>3, <3>4
  <2>4. pc'[d] = IF ok THEN "confirm" ELSE "failed"
    BY <1>8, <1>t DEF DryRun
  <2>5. pc[d] = "dry run" /\ UNCHANGED <<work, taken, tried, accepted, fires>>
    BY <1>8 DEF DryRun
  <2>6. ASSUME ~putBack'[d] PROVE Ordered(d)'
    BY <1>g, <2>4, <2>5, <2>6 DEF Ordered
  <2> QED
    BY <2>3, <2>4, <2>5, <2>6 DEF DispatchInv
<1>9. ASSUME NEW yes \in BOOLEAN, Confirm(d, yes) PROVE DispatchInv(d)'
  BY <1>9, <1>t, <1>g DEF Confirm, DispatchInv, Ordered
<1>10. CASE Compare(d)
  <2>1. /\ pc[d] = "compare" /\ pc'[d] = IF StateOf(d) = taken[d] THEN "replay" ELSE "changed"
        /\ UNCHANGED <<work, mirror, taken, tried, copy, accepted, fires, putBack>>
    BY <1>10, <1>t DEF Compare
  <2>2. /\ StateOf(d).work = work
        /\ StateOf(d).upstream = mirror[d]
    BY DEF StateOf
  <2>3. ASSUME StateOf(d) = taken[d]
        PROVE  /\ mirror[d] = taken[d].upstream
               /\ ~putBack[d] => tried[d] = taken[d]
    <3>1. taken[d].work = work /\ taken[d].upstream = mirror[d]
      BY <2>3, <2>2
    <3>2. ASSUME ~putBack[d] PROVE tried[d] = taken[d]
      <4>1. /\ Grown(taken[d].work, tried[d].work) /\ Grown(tried[d].work, work)
            /\ Grown(taken[d].upstream, tried[d].upstream)
            /\ Grown(tried[d].upstream, mirror[d])
        BY <2>1, <3>2 DEF DispatchInv, Ordered
      <4>2. tried[d].work = work /\ tried[d].upstream = mirror[d]
        BY <3>1, <4>1, <1>t, <1>s, GrownBetween
      <4>3. tried[d] = [work |-> tried[d].work, upstream |-> tried[d].upstream]
        BY <1>t DEF States
      <4> QED
        BY <2>3, <4>2, <4>3 DEF StateOf
    <3> QED
      BY <3>1, <3>2
  <2>4. ASSUME ~putBack'[d] PROVE Ordered(d)'
    BY <1>g, <2>1, <2>3, <2>4 DEF Ordered
  <2> QED
    BY <2>1, <2>3, <2>4 DEF DispatchInv
<1>11. ASSUME NEW ran \in BOOLEAN, Replay(d, ran) PROVE DispatchInv(d)'
  BY <1>11, <1>t DEF Replay, DispatchInv, Ordered
<1> QED
  BY <1>1, <1>2, <1>3, <1>4, <1>5, <1>6, <1>7, <1>8, <1>9, <1>10, <1>11 DEF Step

(* A step of a dispatch changes nothing of another.                         *)
LEMMA Frame ==
    ASSUME TypeOK, NEW d \in Dispatches, NEW e \in Dispatches \ {d}, Step(d)
    PROVE  /\ pc'[e] = pc[e] /\ taken'[e] = taken[e] /\ copy'[e] = copy[e]
           /\ mirror'[e] = mirror[e] /\ accepted'[e] = accepted[e] /\ fires'[e] = fires[e]
           /\ tried'[e] = tried[e]
<1> DEFINE Kept ==
        /\ pc'[e] = pc[e] /\ taken'[e] = taken[e] /\ copy'[e] = copy[e]
        /\ mirror'[e] = mirror[e] /\ accepted'[e] = accepted[e] /\ fires'[e] = fires[e]
        /\ tried'[e] = tried[e]
<1> USE DEF TypeOK
<1>1. ASSUME NEW moved \in BOOLEAN, Open(d, moved) PROVE Kept
  BY <1>1 DEF Open
<1>2. CASE Take(d)
  BY <1>2 DEF Take
<1>3. CASE CopyToProbe(d)
  BY <1>3 DEF CopyToProbe
<1>4. ASSUME NEW holds \in BOOLEAN, Probe(d, holds) PROVE Kept
  BY <1>4 DEF Probe
<1>5. ASSUME NEW pushes \in BOOLEAN, ProbeWrites(d, pushes) PROVE Kept
  BY <1>5 DEF ProbeWrites
<1>6. ASSUME NEW confirming \in BOOLEAN, Report(d, confirming) PROVE Kept
  BY <1>6 DEF Report
<1>7. CASE CopyToTry(d)
  BY <1>7 DEF CopyToTry
<1>8. ASSUME NEW ran \in BOOLEAN, NEW ok \in BOOLEAN, DryRun(d, ran, ok) PROVE Kept
  BY <1>8 DEF DryRun
<1>9. ASSUME NEW yes \in BOOLEAN, Confirm(d, yes) PROVE Kept
  BY <1>9 DEF Confirm
<1>10. CASE Compare(d)
  BY <1>10 DEF Compare
<1>11. ASSUME NEW ran \in BOOLEAN, Replay(d, ran) PROVE Kept
  BY <1>11 DEF Replay
<1> QED
  BY <1>1, <1>2, <1>3, <1>4, <1>5, <1>6, <1>7, <1>8, <1>9, <1>10, <1>11 DEF Step

(* Every step keeps the invariant of every dispatch.                       *)
LEMMA DispatchStep ==
    ASSUME TypeOK, TypeOK', DispatchInvs, [Next]_vars
    PROVE  DispatchInvs'
<1> SUFFICES ASSUME NEW e \in Dispatches PROVE DispatchInv(e)'
  BY DEF DispatchInvs
<1>1. Take(e) \/ Grows(e)
  BY StepGrows
<1> DispatchInv(e)
  BY DEF DispatchInvs
<1>2. CASE Edit \/ UNCHANGED vars
  <2>1. /\ pc' = pc /\ taken' = taken /\ copy' = copy /\ mirror' = mirror
        /\ accepted' = accepted /\ fires' = fires /\ tried' = tried
    BY <1>2 DEF Edit, vars
  <2>2. ~Take(e)
    BY <2>1 DEF Take, TypeOK
  <2> QED
    BY <1>1, <2>1, <2>2, OthersKeep
<1>3. ASSUME NEW d \in Dispatches, Step(d) PROVE DispatchInv(e)'
  <2>1. CASE d = e
    BY <1>1, <1>3, <2>1, OwnStep
  <2>2. CASE d # e
    <3>1. /\ pc'[e] = pc[e] /\ taken'[e] = taken[e] /\ copy'[e] = copy[e]
          /\ mirror'[e] = mirror[e] /\ accepted'[e] = accepted[e] /\ fires'[e] = fires[e]
          /\ tried'[e] = tried[e]
      BY <1>3, <2>2, Frame
    <3>2. ~Take(e)
      BY <3>1 DEF Take, TypeOK
    <3> QED
      BY <1>1, <3>1, <3>2, OthersKeep
  <2> QED
    BY <2>1, <2>2
<1> QED
  BY <1>2, <1>3 DEF Next

-----------------------------------------------------------------------------

(* The inductive invariant of every theorem below.                          *)
THEOREM Invariant == Spec => [](TypeOK /\ DispatchInvs)
<1>1. Init => TypeOK /\ DispatchInvs
  BY TypeInit DEF Init, DispatchInvs, DispatchInv, Ordered, Firing, Taken
<1>2. TypeOK /\ DispatchInvs /\ [Next]_vars => (TypeOK /\ DispatchInvs)'
  BY TypeStep, DispatchStep
<1> QED
  BY <1>1, <1>2, PTL DEF Spec

(* Every reachable state is well-typed: dispatch.py's steps with any number *)
(* of dispatches, programs and edits.                                       *)
THEOREM TypeCorrect == Spec => []TypeOK
  BY Invariant, PTL

(* run_dispatch replays on the checkout only before the upstream it read    *)
(* first, and, where no change was put back since, only what was dry-run on *)
(* a copy of what it read first.                                            *)
THEOREM TriedOnWhatWasTakenHolds == Spec => []TriedOnWhatWasTaken
<1>1. DispatchInvs => TriedOnWhatWasTaken
  BY DEF DispatchInvs, DispatchInv, Ordered, TriedOnWhatWasTaken
<1> QED
  BY <1>1, Invariant, PTL

(* No step of a dispatch changes the checkout but its trusted fetch and the *)
(* replay of the program that was accepted, dry-run and confirmed.          *)
THEOREM OnlyConfirmedReplaysHolds == Spec => OnlyConfirmedReplays
<1> DEFINE Allowed ==
        work' # work =>
            \/ edits' = edits + 1
            \/ \E d \in Dispatches :
                   /\ pc[d] = "replay" /\ pc'[d] = "replayed"
                   /\ fires[d] \in accepted[d]
                   /\ <<"replay", fires[d]>> = copy[d][Len(copy[d])]
                   /\ work' \in Outcomes(work, <<"replay", fires[d]>>)
<1>1. ASSUME TypeOK, DispatchInvs, [Next]_vars PROVE [Allowed]_vars
  <2>1. CASE Edit \/ UNCHANGED vars
    BY <2>1 DEF Edit, vars
  <2>2. ASSUME NEW d \in Dispatches, Step(d) PROVE Allowed
    <3>1. ASSUME NEW moved \in BOOLEAN, Open(d, moved) PROVE Allowed
      BY <3>1 DEF Open
    <3>2. ASSUME NEW ran \in BOOLEAN, Replay(d, ran) PROVE Allowed
      <4>1. DispatchInv(d) /\ pc[d] = "replay"
        BY <3>2, <1>1 DEF DispatchInvs, Replay
      <4>2. /\ fires[d] \in accepted[d]
            /\ <<"replay", fires[d]>> = copy[d][Len(copy[d])]
        BY <4>1 DEF DispatchInv, Firing
      <4>3. pc'[d] = "replayed"
        BY <3>2, <1>1 DEF Replay, TypeOK
      <4>4. work' # work => work' \in Outcomes(work, <<"replay", fires[d]>>)
        BY <3>2 DEF Replay
      <4> QED
        BY <4>1, <4>2, <4>3, <4>4
    <3>3. \/ \E moved \in BOOLEAN : Open(d, moved)
          \/ \E ran \in BOOLEAN : Replay(d, ran)
          \/ UNCHANGED work
      BY <2>2 DEF Step, Take, CopyToProbe, Probe, ProbeWrites, Report, CopyToTry, DryRun, Confirm,
                  Compare
    <3> QED
      BY <3>1, <3>2, <3>3
  <2> QED
    BY <1>1, <2>1, <2>2 DEF Next
<1>2. [][TypeOK /\ DispatchInvs /\ [Next]_vars]_vars => [][Allowed]_vars
  BY <1>1, PTL
<1> QED
  BY <1>2, Invariant, PTL DEF Spec, OnlyConfirmedReplays

-----------------------------------------------------------------------------
(* What RefusedOnlyIfChanged fails of, for every program that pushes.        *)

(* A dry run that succeeded left the mirror longer than it was read, unless *)
(* something of it was put back.                                            *)
PushSeen(d) ==
    fires[d] \in Pushing /\ ~putBack[d] =>
        /\ pc[d] \in {"confirm", "compare"} => Len(taken[d].upstream) < Len(mirror[d])
        /\ pc[d] \notin {"replay", "replayed"}

PushSeenByAll == \A d \in Dispatches : PushSeen(d)

LEMMA PushIsSeen ==
    ASSUME TypeOK, NEW d \in Dispatches, DispatchInv(d), Grows(d),
           NEW ran \in BOOLEAN, NEW ok \in BOOLEAN, DryRun(d, ran, ok)
    PROVE  PushSeen(d)'
<1>1. /\ fires' = fires /\ taken' = taken
      /\ pc'[d] = IF ok THEN "confirm" ELSE "failed"
      /\ ok => mirror'[d] \in Pushed(fires[d], mirror[d])
  BY DEF DryRun, TypeOK
<1>2. pc[d] = "dry run"
  BY DEF DryRun
<1>3. mirror[d] \in Contents /\ taken[d].upstream \in Contents
  BY DEF TypeOK, States
<1>4. SUFFICES ASSUME ~putBack'[d], fires[d] \in Pushing, ok
               PROVE  Len(taken[d].upstream) < Len(mirror'[d])
  BY <1>1 DEF PushSeen
<1>5. Ordered(d) /\ Len(mirror[d]) <= Len(mirror'[d])
  BY <1>4 DEF DispatchInv, Grows, Grown
<1>6. Len(taken[d].upstream) <= Len(mirror[d])
  BY <1>2, <1>5 DEF Ordered, Taken, Grown
<1>7. mirror'[d] \in Outcomes(mirror[d], <<"replay", fires[d]>>)
  BY <1>1, <1>4 DEF Pushed
<1>8. Len(mirror[d]) \in Nat /\ Len(taken[d].upstream) \in Nat
  BY <1>3 DEF Contents
<1>9. CASE mirror'[d] = Append(mirror[d], <<"replay", fires[d]>>)
  <2>1. Len(mirror'[d]) = Len(mirror[d]) + 1
    BY <1>3, <1>9 DEF Contents
  <2> QED
    BY <1>6, <1>8, <2>1
<1>10. ASSUME NEW n \in 0 .. Len(mirror[d]) - 1, mirror'[d] = SubSeq(mirror[d], 1, n)  PROVE FALSE
  <2>1. n \in Nat /\ n < Len(mirror[d])
    BY <1>8
  <2>2. mirror[d] \in Seq(Changes) /\ \A i \in 1 .. n : mirror[d][i] \in Changes
    BY <1>3, <2>1 DEF Contents
  <2>3. Len(SubSeq(mirror[d], 1, n)) = n
    BY <2>1, <2>2, SubSeqProperties
  <2> QED
    BY <1>5, <1>8, <1>10, <2>1, <2>3
<1> QED
  BY <1>7, <1>9, <1>10 DEF Outcomes

LEMMA CompareSeesPush ==
    ASSUME TypeOK, NEW d \in Dispatches, PushSeen(d), Compare(d)
    PROVE  PushSeen(d)'
<1>1. /\ pc[d] = "compare" /\ fires' = fires /\ putBack' = putBack
      /\ pc' = [pc EXCEPT ![d] = IF StateOf(d) = taken[d] THEN "replay" ELSE "changed"]
  BY DEF Compare
<1>2. pc'[d] = IF StateOf(d) = taken[d] THEN "replay" ELSE "changed"
  BY <1>1 DEF TypeOK
<1>3. CASE fires[d] \in Pushing /\ ~putBack[d]
  <2>1. Len(taken[d].upstream) < Len(mirror[d])
    BY <1>1, <1>3 DEF PushSeen
  <2>2. mirror[d] \in Contents
    BY DEF TypeOK
  <2>3. Len(mirror[d]) \in Nat
    BY <2>2 DEF Contents
  <2>4. ~(Len(mirror[d]) < Len(mirror[d]))
    BY <2>3
  <2>5. mirror[d] # taken[d].upstream
    BY <2>1, <2>4
  <2>6. StateOf(d) # taken[d]
    BY <2>5 DEF StateOf
  <2> QED
    BY <1>2, <2>6 DEF PushSeen
<1>4. CASE ~(fires[d] \in Pushing /\ ~putBack[d])
  BY <1>1, <1>4 DEF PushSeen
<1> QED
  BY <1>3, <1>4

LEMMA OwnStepSeesPush ==
    ASSUME TypeOK, NEW d \in Dispatches, DispatchInv(d), PushSeen(d), Step(d),
           Take(d) \/ Grows(d)
    PROVE  PushSeen(d)'
<1>0. /\ Take(d) => pc[d] = "take"
      /\ pc[d] # "take" => Grows(d) /\ (~putBack'[d] => ~putBack[d])
  BY DEF Take, Grows
<1> USE DEF TypeOK, PushSeen
<1>1. ASSUME NEW moved \in BOOLEAN, Open(d, moved) PROVE PushSeen(d)'
  BY <1>1 DEF Open
<1>2. CASE Take(d)
  BY <1>2 DEF Take
<1>3. CASE CopyToProbe(d)
  BY <1>0, <1>3 DEF CopyToProbe
<1>4. ASSUME NEW holds \in BOOLEAN, Probe(d, holds) PROVE PushSeen(d)'
  BY <1>0, <1>4 DEF Probe
<1>5. ASSUME NEW pushes \in BOOLEAN, ProbeWrites(d, pushes) PROVE PushSeen(d)'
  BY <1>0, <1>5 DEF ProbeWrites
<1>6. ASSUME NEW confirming \in BOOLEAN, Report(d, confirming) PROVE PushSeen(d)'
  BY <1>0, <1>6 DEF Report
<1>7. CASE CopyToTry(d)
  BY <1>0, <1>7 DEF CopyToTry
<1>8. ASSUME NEW ran \in BOOLEAN, NEW ok \in BOOLEAN, DryRun(d, ran, ok) PROVE PushSeen(d)'
  BY <1>0, <1>8, PushIsSeen DEF DryRun
<1>9. ASSUME NEW yes \in BOOLEAN, Confirm(d, yes) PROVE PushSeen(d)'
  BY <1>0, <1>9 DEF Confirm
<1>10. CASE Compare(d)
  BY <1>10, CompareSeesPush
<1>11. ASSUME NEW ran \in BOOLEAN, Replay(d, ran) PROVE PushSeen(d)'
  BY <1>0, <1>11 DEF Replay
<1> QED
  BY <1>1, <1>2, <1>3, <1>4, <1>5, <1>6, <1>7, <1>8, <1>9, <1>10, <1>11 DEF Step

LEMMA PushStep ==
    ASSUME TypeOK, DispatchInvs, PushSeenByAll, [Next]_vars
    PROVE  PushSeenByAll'
<1> SUFFICES ASSUME NEW e \in Dispatches PROVE PushSeen(e)'
  BY DEF PushSeenByAll
<1>0. DispatchInv(e) /\ PushSeen(e) /\ (Take(e) \/ Grows(e))
  BY StepGrows DEF DispatchInvs, PushSeenByAll
<1>1. CASE Edit \/ UNCHANGED vars
  <2>1. pc' = pc /\ taken' = taken /\ mirror' = mirror /\ fires' = fires
    BY <1>1 DEF Edit, vars
  <2>2. ~Take(e)
    BY <2>1 DEF Take, TypeOK
  <2> QED
    BY <1>0, <2>1, <2>2 DEF PushSeen, Grows
<1>2. ASSUME NEW d \in Dispatches, Step(d) PROVE PushSeen(e)'
  <2>1. CASE d = e
    BY <1>0, <1>2, <2>1, OwnStepSeesPush
  <2>2. CASE d # e
    <3>1. pc'[e] = pc[e] /\ taken'[e] = taken[e] /\ mirror'[e] = mirror[e] /\ fires'[e] = fires[e]
      BY <1>2, <2>2, Frame
    <3>2. ~Take(e)
      BY <3>1 DEF Take, TypeOK
    <3> QED
      BY <1>0, <3>1, <3>2 DEF PushSeen, Grows
  <2> QED
    BY <2>1, <2>2
<1> QED
  BY <1>1, <1>2 DEF Next

(* run_dispatch's dry run and its comparison share the mirror: a program     *)
(* whose body changes the upstream is never replayed, whatever the probes    *)
(* find and whether or not anything changed the checkout, unless a push or   *)
(* a change was put back.                                                    *)
PushingIsNeverReplayed ==
    \A d \in Dispatches :
        pc[d] \in {"replay", "replayed"} /\ ~putBack[d] => fires[d] \notin Pushing

THEOREM PushingIsNeverReplayedHolds == Spec => []PushingIsNeverReplayed
<1>1. Init => PushSeenByAll
  BY DEF Init, PushSeenByAll, PushSeen
<1>2. TypeOK /\ DispatchInvs /\ PushSeenByAll /\ [Next]_vars => PushSeenByAll'
  BY PushStep
<1>3. PushSeenByAll => PushingIsNeverReplayed
  BY DEF PushSeenByAll, PushSeen, PushingIsNeverReplayed
<1> QED
  BY <1>1, <1>2, <1>3, Invariant, PTL DEF Spec

=============================================================================
