------------------------- MODULE BuildLibrary_proofs -------------------------
(***************************************************************************)
(* Theorems about BuildLibrary, for any plan, any names a model proposes   *)
(* and any number of interruptions that leave no half line behind: the     *)
(* frozen libraries are what the build reports, nothing an interrupted     *)
(* process left stops the one that resumes, and the commits are those of   *)
(* one uninterrupted build.  The types hold with half lines as well.       *)
(***************************************************************************)
EXTENDS BuildLibrary, FiniteSetTheorems, SequenceTheorems, TLAPS

-----------------------------------------------------------------------------
(* The plan walk, as a relation between a log and a place of the plan.      *)

(* The first n entries of l have the episode e, or have it admit something. *)
RanIn(e, l, n) == \E i \in 1 .. n : l[i].ep = e

AdmittedIn(e, l, n) == \E i \in 1 .. n : l[i].ep = e /\ l[i].result.admitted

ClosedIn(h, l, n) ==
    \/ \E j \in 1 .. Len(Plan[h]) : AdmittedIn(Plan[h][j], l, n)
    \/ \A j \in 1 .. Len(Plan[h]) : RanIn(Plan[h][j], l, n)

(* After the first n entries of l the walk is at seed b of group a.         *)
At(l, n, a, b) ==
    /\ a \in 1 .. Len(Plan) + 1
    /\ \A h \in 1 .. Len(Plan) : h < a => ClosedIn(h, l, n)
    /\ a <= Len(Plan) =>
           /\ b \in 1 .. Len(Plan[a])
           /\ \A j \in 1 .. b - 1 : RanIn(Plan[a][j], l, n)
           /\ \A j \in 1 .. Len(Plan[a]) : ~AdmittedIn(Plan[a][j], l, n)
    /\ \A h \in 1 .. Len(Plan) : \A j \in 1 .. Len(Plan[h]) :
           RanIn(Plan[h][j], l, n) => h < a \/ (h = a /\ j < b)

(* Every entry of the log is for the seed the walk was at.                  *)
Logged(l) ==
    \A i \in 1 .. Len(l) : \E a \in 1 .. Len(Plan) : \E b \in 1 .. Len(Plan[a]) :
        At(l, i - 1, a, b) /\ l[i].ep = Plan[a][b]

-----------------------------------------------------------------------------
(* The inductive invariant.                                                 *)

Busy == {"row", "copy", "first", "gate", "commit"}

Types ==
    /\ progress \in Seq(Entries) /\ progressTorn = FALSE
    /\ rows \in Seq(Seeds) /\ rowsTorn = FALSE
    /\ stored \in [Roots -> SUBSET [id : Ids, admitted : BOOLEAN]]
    /\ manifests \subseteq Roots
    /\ pc \in {"walk", "done", "down", "clean two_sided", "clean positive_only"} \cup Busy
    /\ g \in 1 .. Len(Plan) + 1 /\ k \in Nat \ {0}
    /\ occurrence \in Nat
    /\ result \in Results
    /\ built \in Seq(Entries)
    /\ crashes \in 0 .. MaxCrashes
    /\ appended \subseteq Seeds

(* What the process has read back or built is the beginning of the log, and *)
(* an episode is only run once all of the log has been read back.           *)
Placed ==
    /\ pc \in {"walk"} \cup Busy =>
           /\ Len(built) <= Len(progress)
           /\ \A i \in 1 .. Len(built) : built[i] = progress[i]
           /\ At(progress, Len(built), g, k)
    /\ pc = "walk" => occurrence = Len(built)
    /\ pc \in Busy =>
           /\ Len(built) = Len(progress)
           /\ occurrence = Len(built) + 1
           /\ g <= Len(Plan)
           /\ \A root \in Roots : \A id \in InRoot(root, result) : id[1] = occurrence
    /\ pc \in {"clean two_sided", "clean positive_only"} =>
           built = <<>> /\ g = 1 /\ k = 1 /\ occurrence = 0
    /\ pc = "done" =>
           /\ built = progress
           /\ \A h \in 1 .. Len(Plan) : ClosedIn(h, progress, Len(progress))

(* A program's id has the number of the commit it is from.                  *)
Numbered ==
    \A i \in 1 .. Len(progress) : \A root \in Roots : \A id \in InRoot(root, progress[i].result) :
        id[1] = i

IsKept(root, id) == \E i \in 1 .. Len(progress) : id \in InRoot(root, progress[i].result)

(* Of a program a commit put in it, a root has the entry with its verdict,  *)
(* and no other.                                                            *)
KeptAsReported ==
    \A root \in Roots : \A p \in [id : Ids, admitted : BOOLEAN] : \A i \in 1 .. Len(progress) :
        p.id \in InRoot(root, progress[i].result) =>
            (p \in stored[root] <=> p.admitted = Verdict(root, progress[i].result))

(* Beside them a root has the programs of the episode under way, or none.   *)
New(root, verdict) == {[id |-> id, admitted |-> verdict] : id \in InRoot(root, result)}

Only(root) == \A p \in stored[root] : IsKept(root, p.id)

OnlyAndNew(root, verdict) ==
    /\ \A p \in stored[root] : IsKept(root, p.id) \/ p \in New(root, verdict)
    /\ New(root, verdict) \subseteq stored[root]

Beside ==
    /\ pc \in {"walk", "row", "copy", "done"} => Only("two_sided") /\ Only("positive_only")
    /\ pc = "first" => OnlyAndNew("two_sided", result.admitted) /\ Only("positive_only")
    /\ pc = "gate" => OnlyAndNew("two_sided", result.admitted) /\ OnlyAndNew("positive_only", FALSE)
    /\ pc = "commit" =>
           OnlyAndNew("two_sided", result.admitted) /\ OnlyAndNew("positive_only", result.first)
    /\ pc = "clean positive_only" => Only("two_sided")

(* The rows of all commits, and of the episode under way once it is past    *)
(* its append.                                                              *)
HasRow(e) == \E j \in 1 .. Len(rows) : rows[j] = e

Paid ==
    /\ \A i \in 1 .. Len(progress) : HasRow(progress[i].ep)
    /\ pc \in Busy \ {"row"} => HasRow(Seed)

IInv ==
    /\ Types /\ Placed /\ Logged(progress) /\ Numbered
    /\ KeptAsReported /\ Beside /\ Paid

-----------------------------------------------------------------------------
(* Lemmas about the walk.                                                   *)

LEMMA PlanIs ==
    /\ Len(Plan) \in Nat
    /\ \A h \in 1 .. Len(Plan) : Len(Plan[h]) \in Nat \ {0}
    /\ \A a, c \in 1 .. Len(Plan) : \A b \in 1 .. Len(Plan[a]), d \in 1 .. Len(Plan[c]) :
           Plan[a][b] = Plan[c][d] => a = c /\ b = d
<1>1. Plan \in Seq(Seq(Nat) \ {<<>>})
  BY BuildAssumption
<1>2. \A h \in 1 .. Len(Plan) : Plan[h] \in Seq(Nat) /\ Plan[h] # <<>>
  BY <1>1
<1>3. \A h \in 1 .. Len(Plan) : Len(Plan[h]) \in Nat \ {0}
  BY <1>2
<1>4. \A a, c \in 1 .. Len(Plan) : \A b \in 1 .. Len(Plan[a]), d \in 1 .. Len(Plan[c]) :
          Plan[a][b] = Plan[c][d] => a = c /\ b = d
  BY BuildAssumption, ZenonT(60)
<1>5. Len(Plan) \in Nat
  BY <1>1
<1>. QED  BY <1>3, <1>4, <1>5

(* Every seed of the plan is one of Seeds.                                  *)
LEMMA SeedsAre == \A a \in 1 .. Len(Plan) : \A b \in 1 .. Len(Plan[a]) : Plan[a][b] \in Seeds
<1>. SUFFICES ASSUME NEW a \in 1 .. Len(Plan), NEW b \in 1 .. Len(Plan[a])
              PROVE  Plan[a][b] \in Seeds
  OBVIOUS
<1>. DEFINE Group(h) == {Plan[h][j] : j \in 1 .. Len(Plan[h])}
<1>1. Plan[a][b] \in Group(a)
  OBVIOUS
<1>2. Group(a) \in {Group(h) : h \in 1 .. Len(Plan)}
  OBVIOUS
<1>3. Seeds = UNION {Group(h) : h \in 1 .. Len(Plan)}
  BY DEF Seeds
<1>. HIDE DEF Group
<1>. QED  BY <1>1, <1>2, <1>3

(* The seed the walk is at has not run, and its group is not closed.        *)
LEMMA AtIsOpen ==
    ASSUME NEW l, NEW n \in Nat, NEW a, NEW b, At(l, n, a, b), a <= Len(Plan)
    PROVE  /\ a \in 1 .. Len(Plan) /\ b \in 1 .. Len(Plan[a])
           /\ ~RanIn(Plan[a][b], l, n) /\ ~ClosedIn(a, l, n)
<1>1. a \in 1 .. Len(Plan) /\ b \in 1 .. Len(Plan[a])
  BY PlanIs DEF At
<1>2. ~RanIn(Plan[a][b], l, n)
  BY <1>1, PlanIs DEF At
<1>3. ~ClosedIn(a, l, n)
  BY <1>1, <1>2 DEF At, ClosedIn
<1>. QED  BY <1>1, <1>2, <1>3

(* The walk is at one place only.                                           *)
LEMMA AtIsOne ==
    ASSUME NEW l, NEW n \in Nat, NEW a, NEW b, NEW c, NEW d,
           At(l, n, a, b), At(l, n, c, d), a <= Len(Plan)
    PROVE  a = c /\ b = d
<1>1. a \in 1 .. Len(Plan) /\ b \in 1 .. Len(Plan[a]) /\ ~RanIn(Plan[a][b], l, n) /\ ~ClosedIn(a, l, n)
  BY AtIsOpen
<1>2. c \in 1 .. Len(Plan) + 1
  BY DEF At
<1>3. ~(a < c)
  BY <1>1 DEF At
<1>4. ~(c < a)
  <2>. SUFFICES ASSUME c < a  PROVE FALSE
    OBVIOUS
  <2>1. c <= Len(Plan) /\ c \in 1 .. Len(Plan)
    BY <1>1, <1>2, PlanIs
  <2>2. ~ClosedIn(c, l, n)
    BY <2>1, AtIsOpen
  <2>. QED  BY <2>1, <2>2 DEF At
<1>5. a = c
  BY <1>1, <1>2, <1>3, <1>4, PlanIs
<1>6. d \in 1 .. Len(Plan[a]) /\ ~RanIn(Plan[a][d], l, n)
  BY <1>1, <1>5, AtIsOpen
<1>7. ~(b < d)
  <2>. SUFFICES ASSUME b < d  PROVE FALSE
    OBVIOUS
  <2>1. b \in 1 .. d - 1
    BY <1>1, <1>6, PlanIs
  <2>. QED  BY <1>1, <1>5, <2>1 DEF At
<1>8. ~(d < b)
  <2>. SUFFICES ASSUME d < b  PROVE FALSE
    OBVIOUS
  <2>1. d \in 1 .. b - 1
    BY <1>1, <1>6, PlanIs
  <2>. QED  BY <1>1, <1>6, <2>1 DEF At
<1>9. b = d
  BY <1>1, <1>6, <1>7, <1>8, PlanIs
<1>. QED  BY <1>5, <1>9

(* Where the walk is does not depend on what comes later in the log.        *)
LEMMA AtStays ==
    ASSUME NEW l, NEW m, NEW n \in Nat, NEW a, NEW b, \A i \in 1 .. n : m[i] = l[i], At(l, n, a, b)
    PROVE  At(m, n, a, b)
<1>1. \A e : (RanIn(e, m, n) <=> RanIn(e, l, n)) /\ (AdmittedIn(e, m, n) <=> AdmittedIn(e, l, n))
  BY DEF RanIn, AdmittedIn
<1>. QED  BY <1>1 DEF At, ClosedIn

(* The walk goes on from the seed that ran.                                 *)
LEMMA AtNext ==
    ASSUME NEW l, NEW m, NEW n \in Nat, NEW a, NEW b, NEW a2, NEW b2,
           \A i \in 1 .. n : m[i] = l[i], At(l, n, a, b), a <= Len(Plan),
           m[n + 1].ep = Plan[a][b],
           IF m[n + 1].result.admitted \/ b = Len(Plan[a])
           THEN a2 = a + 1 /\ b2 = 1
           ELSE a2 = a /\ b2 = b + 1
    PROVE  At(m, n + 1, a2, b2)
<1>0. a \in 1 .. Len(Plan) /\ b \in 1 .. Len(Plan[a]) /\ Len(Plan) \in Nat /\ Len(Plan[a]) \in Nat
  BY AtIsOpen, PlanIs
<1>6. \A h \in 1 .. Len(Plan) : \A j \in 1 .. Len(Plan[h]) : Plan[h][j] = Plan[a][b] => h = a /\ j = b
  BY <1>0, PlanIs
<1>1. \A e : RanIn(e, m, n + 1) <=> RanIn(e, l, n) \/ e = Plan[a][b]
  BY DEF RanIn
<1>2. \A e : AdmittedIn(e, m, n + 1) <=>
              AdmittedIn(e, l, n) \/ (e = Plan[a][b] /\ m[n + 1].result.admitted)
  BY DEF AdmittedIn
<1>3. \A h \in 1 .. Len(Plan) : h < a => ClosedIn(h, m, n + 1)
  BY <1>1, <1>2 DEF At, ClosedIn
<1>4. CASE m[n + 1].result.admitted \/ b = Len(Plan[a])
  <2>1. a2 = a + 1 /\ b2 = 1
    BY <1>4
  <2>2. ClosedIn(a, m, n + 1)
    <3>1. CASE m[n + 1].result.admitted
      BY <1>0, <1>2, <3>1 DEF ClosedIn
    <3>2. CASE b = Len(Plan[a])
      <4>1. \A j \in 1 .. Len(Plan[a]) : j = b \/ j \in 1 .. b - 1
        BY <1>0, <3>2
      <4>. QED  BY <1>0, <1>1, <4>1 DEF At, ClosedIn
    <3>. QED  BY <1>4, <3>1, <3>2
  <2>3. \A h \in 1 .. Len(Plan) : h < a2 => ClosedIn(h, m, n + 1)
    <3>1. \A h \in 1 .. Len(Plan) : h < a2 => h < a \/ h = a
      BY <1>0, <2>1
    <3>. QED  BY <1>3, <2>2, <3>1
  <2>4. a2 \in 1 .. Len(Plan) + 1
    BY <1>0, <2>1
  <2>5. \A h \in 1 .. Len(Plan) : \A j \in 1 .. Len(Plan[h]) : RanIn(Plan[h][j], m, n + 1) => h < a2
    <3>. SUFFICES ASSUME NEW h \in 1 .. Len(Plan), NEW j \in 1 .. Len(Plan[h]), RanIn(Plan[h][j], m, n + 1)
                  PROVE  h < a2
      OBVIOUS
    <3>1. CASE RanIn(Plan[h][j], l, n)
      <4>1. h < a \/ h = a
        BY <3>1 DEF At
      <4>. QED  BY <1>0, <2>1, <4>1
    <3>2. CASE Plan[h][j] = Plan[a][b]
      <4>1. h = a
        BY <1>6, <3>2
      <4>. QED  BY <1>0, <2>1, <4>1
    <3>. QED  BY <1>1, <3>1, <3>2
  <2>6. ASSUME a2 <= Len(Plan)
        PROVE  /\ b2 \in 1 .. Len(Plan[a2])
               /\ \A j \in 1 .. b2 - 1 : RanIn(Plan[a2][j], m, n + 1)
               /\ \A j \in 1 .. Len(Plan[a2]) : ~AdmittedIn(Plan[a2][j], m, n + 1)
    <3>1. a2 \in 1 .. Len(Plan) /\ b2 \in 1 .. Len(Plan[a2]) /\ b2 - 1 = 0
      BY <1>0, <2>1, <2>6, PlanIs
    <3>2. \A j \in 1 .. Len(Plan[a2]) : ~RanIn(Plan[a2][j], m, n + 1)
      BY <1>0, <2>1, <2>5, <3>1
    <3>3. \A e : AdmittedIn(e, m, n + 1) => RanIn(e, m, n + 1)
      BY DEF AdmittedIn, RanIn
    <3>. QED  BY <3>1, <3>2, <3>3
  <2>. QED  BY <2>3, <2>4, <2>5, <2>6 DEF At
<1>5. CASE ~(m[n + 1].result.admitted \/ b = Len(Plan[a]))
  <2>1. a2 = a /\ b2 = b + 1 /\ b2 \in 1 .. Len(Plan[a]) /\ ~m[n + 1].result.admitted
    BY <1>0, <1>5
  <2>2. \A j \in 1 .. b2 - 1 : RanIn(Plan[a2][j], m, n + 1)
    <3>1. \A j \in 1 .. b2 - 1 : j \in 1 .. b - 1 \/ j = b
      BY <1>0, <2>1
    <3>. QED  BY <1>0, <1>1, <2>1, <3>1 DEF At
  <2>3. \A j \in 1 .. Len(Plan[a2]) : ~AdmittedIn(Plan[a2][j], m, n + 1)
    BY <1>0, <1>2, <2>1 DEF At
  <2>4. \A h \in 1 .. Len(Plan) : \A j \in 1 .. Len(Plan[h]) :
            RanIn(Plan[h][j], m, n + 1) => h < a2 \/ (h = a2 /\ j < b2)
    <3>. SUFFICES ASSUME NEW h \in 1 .. Len(Plan), NEW j \in 1 .. Len(Plan[h]), RanIn(Plan[h][j], m, n + 1)
                  PROVE  h < a2 \/ (h = a2 /\ j < b2)
      OBVIOUS
    <3>1. CASE RanIn(Plan[h][j], l, n)
      <4>1. h < a \/ (h = a /\ j < b)
        BY <3>1 DEF At
      <4>2. j \in Nat
        BY PlanIs
      <4>. QED  BY <1>0, <2>1, <4>1, <4>2
    <3>2. CASE Plan[h][j] = Plan[a][b]
      <4>1. h = a /\ j = b
        BY <1>6, <3>2
      <4>. QED  BY <1>0, <2>1, <4>1
    <3>. QED  BY <1>1, <3>1, <3>2
  <2>. QED  BY <1>0, <1>3, <2>1, <2>2, <2>3, <2>4 DEF At
<1>. QED  BY <1>4, <1>5

(* A walk begins at the first seed of the first group.                      *)
LEMMA AtFirst == \A l : At(l, 0, 1, 1)
<1>1. \A l, e : ~RanIn(e, l, 0) /\ ~AdmittedIn(e, l, 0)
  BY DEF RanIn, AdmittedIn
<1>. QED  BY <1>1, PlanIs DEF At

(* No two entries of a log are of one episode.                              *)
LEMMA OnceEach ==
    ASSUME NEW l \in Seq(Entries), Logged(l), NEW i \in 1 .. Len(l), NEW j \in 1 .. Len(l),
           l[i].ep = l[j].ep
    PROVE  i = j
<1>1. \A x, y \in 1 .. Len(l) : x < y => l[x].ep # l[y].ep
  <2>. SUFFICES ASSUME NEW x \in 1 .. Len(l), NEW y \in 1 .. Len(l), x < y
                PROVE  l[x].ep # l[y].ep
    OBVIOUS
  <2>1. PICK a \in 1 .. Len(Plan) : \E b \in 1 .. Len(Plan[a]) : At(l, y - 1, a, b) /\ l[y].ep = Plan[a][b]
    BY DEF Logged
  <2>2. PICK b \in 1 .. Len(Plan[a]) : At(l, y - 1, a, b) /\ l[y].ep = Plan[a][b]
    BY <2>1
  <2>3. y - 1 \in Nat /\ a <= Len(Plan) /\ x \in 1 .. y - 1
    BY PlanIs
  <2>4. ~RanIn(l[y].ep, l, y - 1)
    BY <2>2, <2>3, AtIsOpen
  <2>. QED  BY <2>3, <2>4 DEF RanIn
<1>2. i \in Nat /\ j \in Nat
  OBVIOUS
<1>. QED  BY <1>1, <1>2

-----------------------------------------------------------------------------
(* What the invariant says of the next step of a walk.                      *)

(* A seed that is committed is the next of the log, and one that is not is  *)
(* only met once the log has been read back.                                *)
LEMMA NextOfTheLog ==
    ASSUME IInv, Walking
    PROVE  /\ Seed \in Committed =>
                  /\ Len(built) + 1 \in 1 .. Len(progress)
                  /\ EntryOf(Seed) = progress[Len(built) + 1]
                  /\ progress[Len(built) + 1].ep = Seed
           /\ Seed \notin Committed => Len(built) = Len(progress)
<1>0. /\ At(progress, Len(built), g, k) /\ g <= Len(Plan) /\ Len(built) <= Len(progress)
      /\ Len(built) \in Nat /\ Len(progress) \in Nat /\ progress \in Seq(Entries) /\ Logged(progress)
  BY DEF IInv, Walking, Placed, Types
<1>1. \A e : e \in Committed <=> \E i \in 1 .. Len(progress) : progress[i].ep = e
  BY DEF Committed, Entered
<1>2. ~RanIn(Seed, progress, Len(built))
  BY <1>0, AtIsOpen DEF Seed
<1>3. ASSUME Len(built) < Len(progress)  PROVE progress[Len(built) + 1].ep = Seed
  <2>1. Len(built) + 1 \in 1 .. Len(progress) /\ Len(built) + 1 - 1 = Len(built)
    BY <1>0, <1>3
  <2>2. PICK a \in 1 .. Len(Plan) : \E b \in 1 .. Len(Plan[a]) :
            At(progress, Len(built), a, b) /\ progress[Len(built) + 1].ep = Plan[a][b]
    BY <1>0, <2>1 DEF Logged
  <2>3. PICK b \in 1 .. Len(Plan[a]) :
            At(progress, Len(built), a, b) /\ progress[Len(built) + 1].ep = Plan[a][b]
    BY <2>2
  <2>4. a <= Len(Plan)
    BY PlanIs
  <2>5. g = a /\ k = b
    BY <1>0, <2>3, <2>4, AtIsOne
  <2>. QED  BY <2>3, <2>5 DEF Seed
<1>4. ASSUME Seed \in Committed  PROVE Len(built) < Len(progress)
  <2>1. PICK i \in 1 .. Len(progress) : progress[i].ep = Seed
    BY <1>1, <1>4
  <2>2. i \notin 1 .. Len(built)
    BY <1>2, <2>1 DEF RanIn
  <2>. QED  BY <1>0, <2>1, <2>2
<1>5. ASSUME Seed \in Committed
      PROVE  /\ Len(built) + 1 \in 1 .. Len(progress)
             /\ EntryOf(Seed) = progress[Len(built) + 1]
             /\ progress[Len(built) + 1].ep = Seed
  <2>1. Len(built) + 1 \in 1 .. Len(progress) /\ progress[Len(built) + 1].ep = Seed
    BY <1>0, <1>3, <1>4, <1>5
  <2>2. progress[Len(built) + 1] \in Entered
    BY <2>1 DEF Entered
  <2>3. EntryOf(Seed) \in Entered /\ EntryOf(Seed).ep = Seed
    BY <2>1, <2>2 DEF EntryOf
  <2>4. PICK i \in 1 .. Len(progress) : EntryOf(Seed) = progress[i]
    BY <2>3 DEF Entered
  <2>5. i = Len(built) + 1
    BY <1>0, <2>1, <2>3, <2>4, OnceEach
  <2>. QED  BY <2>1, <2>4, <2>5
<1>6. ASSUME Seed \notin Committed  PROVE Len(built) = Len(progress)
  <2>1. ~(Len(built) < Len(progress))
    <3>. SUFFICES ASSUME Len(built) < Len(progress)  PROVE FALSE
      OBVIOUS
    <3>1. progress[Len(built) + 1].ep = Seed
      BY <1>3
    <3>2. Len(built) + 1 \in 1 .. Len(progress)
      BY <1>0
    <3>. QED  BY <1>1, <1>6, <3>1, <3>2
  <2>. QED  BY <1>0, <2>1
<1>. QED  BY <1>5, <1>6

(* A walk that is over has read or built all of the log.                    *)
LEMMA EndOfTheLog ==
    ASSUME IInv, pc = "walk", g > Len(Plan)
    PROVE  built = progress /\ \A h \in 1 .. Len(Plan) : ClosedIn(h, progress, Len(progress))
<1>0. /\ At(progress, Len(built), g, k) /\ Len(built) <= Len(progress)
      /\ \A i \in 1 .. Len(built) : built[i] = progress[i]
      /\ Len(built) \in Nat /\ Len(progress) \in Nat /\ Logged(progress)
      /\ progress \in Seq(Entries) /\ built \in Seq(Entries)
      /\ g \in 1 .. Len(Plan) + 1
  BY DEF IInv, Placed, Types
<1>1. \A h \in 1 .. Len(Plan) : ClosedIn(h, progress, Len(built))
  <2>1. \A h \in 1 .. Len(Plan) : h < g
    BY <1>0, PlanIs
  <2>. QED  BY <1>0, <2>1 DEF At
<1>2. ~(Len(built) < Len(progress))
  <2>. SUFFICES ASSUME Len(built) < Len(progress)  PROVE FALSE
    OBVIOUS
  <2>1. Len(built) + 1 \in 1 .. Len(progress) /\ Len(built) + 1 - 1 = Len(built)
    BY <1>0
  <2>2. PICK a \in 1 .. Len(Plan) : \E b \in 1 .. Len(Plan[a]) : At(progress, Len(built), a, b)
    BY <1>0, <2>1 DEF Logged
  <2>3. PICK b \in 1 .. Len(Plan[a]) : At(progress, Len(built), a, b)
    BY <2>2
  <2>4. a <= Len(Plan)
    BY PlanIs
  <2>5. ~ClosedIn(a, progress, Len(built))
    BY <1>0, <2>3, <2>4, AtIsOpen
  <2>. QED  BY <1>1, <2>5
<1>3. Len(built) = Len(progress)
  BY <1>0, <1>2
<1>4. built = progress
  BY <1>0, <1>3, SeqEqual
<1>. QED  BY <1>1, <1>3, <1>4

(* The programs of Kept are those the log's entries have for the root.      *)
LEMMA KeptIs == \A root, id : id \in Kept(root) <=> IsKept(root, id)
<1>. SUFFICES ASSUME NEW root, NEW id  PROVE id \in Kept(root) <=> IsKept(root, id)
  OBVIOUS
<1>1. id \in Kept(root) <=> \E entry \in Entered : id \in InRoot(root, entry.result)
  BY DEF Kept
<1>. QED  BY <1>1 DEF Entered, IsKept

(* What an episode leaves, field by field.                                  *)
LEMMA ResultsAre ==
    \A r \in Results : /\ r.admitted \in BOOLEAN /\ r.first \in BOOLEAN
                       /\ \A root \in Roots : \A id \in InRoot(root, r) : id \in Ids
<1>. SUFFICES ASSUME NEW r \in Results
              PROVE  /\ r.admitted \in BOOLEAN /\ r.first \in BOOLEAN
                     /\ \A id \in r.programs \cup r.ungated : id \in Ids
  BY DEF InRoot
<1>1. CASE r = [programs |-> {}, ungated |-> {}, admitted |-> FALSE, first |-> FALSE]
  BY <1>1
<1>2. ASSUME NEW o \in 1 .. Cardinality(Seeds), NEW d \in Drafts, NEW x \in BOOLEAN, NEW y \in BOOLEAN,
             r = [programs |-> {<<o, d[1]>>}, ungated |-> {<<o, d[2]>>}, admitted |-> x, first |-> y]
      PROVE  /\ r.admitted \in BOOLEAN /\ r.first \in BOOLEAN
             /\ \A id \in r.programs \cup r.ungated : id \in Ids
  <2>1. d[1] \in Slugs /\ d[2] \in Slugs
    BY BuildAssumption
  <2>2. <<o, d[1]>> \in Ids /\ <<o, d[2]>> \in Ids
    BY <2>1 DEF Ids
  <2>3. /\ r.admitted = x /\ r.first = y
        /\ r.programs = {<<o, d[1]>>} /\ r.ungated = {<<o, d[2]>>}
    BY <1>2
  <2>. QED  BY <2>2, <2>3
<1>. QED  BY <1>1, <1>2 DEF Results

LEMMA NoResultIsOne == NoResult \in Results
<1>. DEFINE Left == {[programs |-> {<<o, d[1]>>}, ungated |-> {<<o, d[2]>>}, admitted |-> x, first |-> y] :
                       o \in 1 .. Cardinality(Seeds), d \in Drafts, x \in BOOLEAN, y \in BOOLEAN}
<1>1. Results = {NoResult} \cup Left
  BY DEF NoResult, Results
<1>. HIDE DEF Left
<1>. QED  BY <1>1

(* The episode under way has no program of a commit.                        *)
LEMMA NewIsNotKept ==
    ASSUME IInv, pc \in Busy, NEW root \in Roots, NEW id \in InRoot(root, result)
    PROVE  ~IsKept(root, id) /\ id \in Ids
<1>0. /\ \A x \in InRoot(root, result) : x[1] = occurrence
      /\ occurrence = Len(built) + 1 /\ Len(built) = Len(progress) /\ Len(progress) \in Nat
  <2>1. progress \in Seq(Entries) /\ Placed
    BY DEF IInv, Types
  <2>2. Len(progress) \in Nat
    BY <2>1
  <2>. QED  BY <2>1, <2>2 DEF Placed
<1>1. id[1] = Len(progress) + 1 /\ Len(progress) \in Nat
  BY <1>0
<1>2. ~IsKept(root, id)
  BY <1>1 DEF IInv, Numbered, IsKept
<1>3. result \in Results
  BY DEF IInv, Types
<1>4. id \in Ids
  BY <1>3, ResultsAre
<1>. QED  BY <1>2, <1>4

(* The two stores of an episode meet nothing under the id they write.       *)
LEMMA StoresAreFree ==
    /\ IInv /\ pc = "copy" => Free("two_sided")
    /\ IInv /\ pc = "first" => Free("positive_only")
<1>1. ASSUME IInv, pc \in {"copy", "first"}, NEW root \in Roots, Only(root)  PROVE Free(root)
  <2>1. \A id \in InRoot(root, result) : ~IsKept(root, id)
    BY <1>1, NewIsNotKept DEF Busy
  <2>. QED  BY <1>1, <2>1 DEF Free, Only
<1>. QED  BY <1>1 DEF IInv, Beside, Roots

-----------------------------------------------------------------------------
(* Every step keeps the invariant.                                          *)

LEMMA InitIInv == Init => IInv
<1>. SUFFICES ASSUME Init  PROVE IInv
  OBVIOUS
<1>0. /\ progress = <<>> /\ rows = <<>> /\ built = <<>> /\ Len(progress) = 0 /\ Len(built) = 0
      /\ Len(rows) = 0
  BY DEF Init
<1>1. Types
  <2>1. g \in 1 .. Len(Plan) + 1 /\ crashes \in 0 .. MaxCrashes
    BY PlanIs, BuildAssumption DEF Init
  <2>2. result \in Results /\ stored \in [Roots -> SUBSET [id : Ids, admitted : BOOLEAN]]
    BY DEF Init, NoResult, Results
  <2>3. progress \in Seq(Entries) /\ rows \in Seq(Seeds) /\ built \in Seq(Entries)
    BY <1>0
  <2>. QED  BY <2>1, <2>2, <2>3 DEF Init, Types
<1>2. Placed
  <2>1. At(progress, Len(built), g, k)
    BY <1>0, AtFirst DEF Init
  <2>. QED  BY <1>0, <2>1 DEF Init, Placed, Busy
<1>3. Logged(progress) /\ Numbered /\ KeptAsReported /\ Paid
  BY <1>0 DEF Init, Logged, Numbered, KeptAsReported, Paid, Busy
<1>4. Beside
  BY DEF Init, Beside, Only, Roots
<1>. QED  BY <1>1, <1>2, <1>3, <1>4 DEF IInv

(* A step that leaves the log, the roots and what is under way alone.       *)
LEMMA FilesStay ==
    ASSUME IInv, UNCHANGED <<progress, stored>>
    PROVE  Logged(progress)' /\ Numbered' /\ KeptAsReported'
<1>1. Logged(progress')
  BY DEF IInv
<1>. QED  BY <1>1 DEF IInv, Numbered, KeptAsReported

LEMMA SkipIInv == IInv /\ Skip => IInv'
<1>. SUFFICES ASSUME IInv, Skip  PROVE IInv'
  OBVIOUS
<1>. DEFINE n == Len(built)
            entry == progress[n + 1]
<1>0. /\ Walking /\ Seed \in Committed /\ pc = "walk" /\ g <= Len(Plan)
      /\ occurrence' = occurrence + 1 /\ built' = Append(built, EntryOf(Seed))
      /\ UNCHANGED <<progress, progressTorn, rows, rowsTorn, stored, manifests, pc, result, crashes, appended>>
  BY DEF Skip, Walking, files, ghosts
<1>1. n + 1 \in 1 .. Len(progress) /\ EntryOf(Seed) = entry /\ entry.ep = Seed
  BY <1>0, NextOfTheLog
<1>2. /\ built \in Seq(Entries) /\ progress \in Seq(Entries) /\ n \in Nat /\ entry \in Entries
      /\ occurrence = n /\ At(progress, n, g, k) /\ \A i \in 1 .. n : built[i] = progress[i]
  BY <1>0, <1>1 DEF IInv, Types, Placed
<1>3. /\ built' \in Seq(Entries) /\ Len(built') = n + 1
      /\ \A i \in 1 .. n : built'[i] = built[i]
      /\ built'[n + 1] = entry
  BY <1>0, <1>1, <1>2
<1>4. IF entry.result.admitted \/ k = Len(Plan[g])
      THEN g' = g + 1 /\ k' = 1
      ELSE g' = g /\ k' = k + 1
  BY <1>1 DEF Skip, Advance
<1>5. At(progress, n + 1, g', k')
  <2>1. \A i \in 1 .. n : progress[i] = progress[i]
    OBVIOUS
  <2>. HIDE DEF n
  <2>. QED  BY <1>0, <1>1, <1>2, <1>4, <2>1, AtNext DEF Seed
<1>6. Types'
  <2>1. g' \in 1 .. Len(Plan) + 1
    BY <1>5 DEF At
  <2>2. k' \in Nat \ {0}
    <3>1. k \in Nat \ {0}
      BY DEF IInv, Types
    <3>2. k' = 1 \/ k' = k + 1
      BY <1>4
    <3>. QED  BY <3>1, <3>2
  <2>. QED  BY <1>0, <1>2, <1>3, <2>1, <2>2 DEF IInv, Types
<1>7. Placed'
  <2>1. \A i \in 1 .. Len(built') : built'[i] = progress[i]
    <3>1. \A i \in 1 .. n + 1 : i \in 1 .. n \/ i = n + 1
      BY <1>2
    <3>. QED  BY <1>2, <1>3, <3>1
  <2>. QED  BY <1>0, <1>1, <1>2, <1>3, <1>5, <2>1 DEF Placed, Busy
<1>8. Beside' /\ Paid'
  BY <1>0 DEF IInv, Beside, Only, IsKept, Paid, HasRow, Busy
<1>. QED  BY <1>0, <1>6, <1>7, <1>8, FilesStay DEF IInv

LEMMA RunEpisodeIInv == ASSUME NEW r \in Results PROVE IInv /\ RunEpisode(r) => IInv'
<1>. SUFFICES ASSUME IInv, RunEpisode(r)  PROVE IInv'
  OBVIOUS
<1>0. /\ Walking /\ Seed \notin Committed /\ pc = "walk" /\ g <= Len(Plan)
      /\ occurrence' = occurrence + 1 /\ result' = r /\ pc' = "row"
      /\ r.programs \cup r.ungated \subseteq {occurrence + 1} \X Slugs
      /\ UNCHANGED <<progress, progressTorn, rows, rowsTorn, stored, manifests, g, k, built, crashes, appended>>
  BY DEF RunEpisode, Walking, files, ghosts
<1>1. Len(built) = Len(progress)
  BY <1>0, NextOfTheLog
<1>2. occurrence = Len(built) /\ At(progress, Len(built), g, k) /\ Len(built) \in Nat
      /\ \A i \in 1 .. Len(built) : built[i] = progress[i]
  BY <1>0 DEF IInv, Placed, Types
<1>3. Types'
  BY <1>0 DEF IInv, Types, Busy
<1>4. Placed'
  <2>1. \A root \in Roots : \A id \in InRoot(root, r) : id[1] = occurrence + 1
    BY <1>0 DEF InRoot
  <2>2. (At(progress, Len(built), g, k))'
    BY <1>0, <1>2
  <2>. QED  BY <1>0, <1>1, <1>2, <2>1, <2>2 DEF Placed, Busy
<1>5. Beside' /\ Paid'
  BY <1>0 DEF IInv, Beside, Only, IsKept, Paid, HasRow, Busy
<1>. QED  BY <1>0, <1>3, <1>4, <1>5, FilesStay DEF IInv

LEMMA AppendRowIInv == IInv /\ AppendRow => IInv'
<1>. SUFFICES ASSUME IInv, AppendRow  PROVE IInv'
  OBVIOUS
<1>0. /\ pc = "row" /\ pc' = "copy" /\ rows' = Append(rows, Seed) /\ rowsTorn' = FALSE
      /\ appended' = appended \cup {Seed}
      /\ UNCHANGED <<progress, progressTorn, stored, manifests, g, k, occurrence, result, built, crashes>>
  BY DEF AppendRow, IInv, Types
<1>1. At(progress, Len(built), g, k) /\ g <= Len(Plan) /\ Len(built) \in Nat /\ rows \in Seq(Seeds)
  BY <1>0 DEF IInv, Placed, Types, Busy
<1>2. Seed \in Seeds
  BY <1>1, AtIsOpen, SeedsAre DEF Seed
<1>3. /\ rows' \in Seq(Seeds) /\ Len(rows') = Len(rows) + 1 /\ Len(rows) \in Nat
      /\ \A j \in 1 .. Len(rows) : rows'[j] = rows[j]
      /\ rows'[Len(rows) + 1] = Seed
  BY <1>0, <1>1, <1>2
<1>4. Types'
  BY <1>0, <1>2, <1>3 DEF IInv, Types, Busy
<1>5. Placed'
  BY <1>0 DEF IInv, Placed, Busy
<1>6. Beside'
  BY <1>0 DEF IInv, Beside, Only, IsKept
<1>7. Paid'
  <2>1. \A e : HasRow(e) => HasRow(e)'
    BY <1>3 DEF HasRow
  <2>2. Seed' = Seed
    BY <1>0 DEF Seed
  <2>3. \E j \in 1 .. Len(rows') : rows'[j] = Seed'
    BY <1>3, <2>2
  <2>4. \A i \in 1 .. Len(progress) : \E j \in 1 .. Len(rows') : rows'[j] = progress[i].ep
    BY <1>3 DEF IInv, Paid, HasRow
  <2>. QED  BY <1>0, <2>3, <2>4 DEF Paid, HasRow
<1>. QED  BY <1>0, <1>4, <1>5, <1>6, <1>7, FilesStay DEF IInv

(* What storing the episode's programs in one root does to both.            *)
LEMMA StoringKeeps ==
    ASSUME IInv, pc \in Busy, NEW root \in Roots, NEW verdict \in BOOLEAN,
           stored' = [stored EXCEPT ![root] = @ \cup New(root, verdict)], UNCHANGED progress
    PROVE  /\ stored' \in [Roots -> SUBSET [id : Ids, admitted : BOOLEAN]]
           /\ stored'[root] = stored[root] \cup New(root, verdict)
           /\ \A other \in Roots \ {root} : stored'[other] = stored[other]
           /\ KeptAsReported'
<1>1. \A id \in InRoot(root, result) : ~IsKept(root, id) /\ id \in Ids
  BY NewIsNotKept
<1>2. New(root, verdict) \subseteq [id : Ids, admitted : BOOLEAN]
  BY <1>1 DEF New
<1>3. stored \in [Roots -> SUBSET [id : Ids, admitted : BOOLEAN]]
  BY DEF IInv, Types
<1>4. /\ stored'[root] = stored[root] \cup New(root, verdict)
      /\ \A other \in Roots \ {root} : stored'[other] = stored[other]
      /\ stored' \in [Roots -> SUBSET [id : Ids, admitted : BOOLEAN]]
  BY <1>2, <1>3
<1>5. \A p \in New(root, verdict) : ~IsKept(root, p.id)
  BY <1>1 DEF New
<1>6. \A any \in Roots : \A p : IsKept(any, p.id) => (p \in stored'[any] <=> p \in stored[any])
  BY <1>4, <1>5
<1>7. KeptAsReported'
  BY <1>6 DEF IInv, KeptAsReported, IsKept
<1>. QED  BY <1>4, <1>7

LEMMA CopyProgramIInv == IInv /\ CopyProgram => IInv'
<1>. SUFFICES ASSUME IInv, CopyProgram  PROVE IInv'
  OBVIOUS
<1>0. pc = "copy" /\ Free("two_sided") /\ pc \in Busy
  BY StoresAreFree DEF CopyProgram, Busy
<1>1. /\ stored' = [stored EXCEPT !["two_sided"] = @ \cup New("two_sided", result.admitted)] /\ pc' = "first"
      /\ UNCHANGED <<progress, progressTorn, rows, rowsTorn, manifests, g, k, occurrence, result, built,
                     crashes, appended>>
  BY <1>0 DEF CopyProgram, StoreOrRaise, New, ghosts
<1>2. result.admitted \in BOOLEAN /\ "two_sided" \in Roots /\ "positive_only" \in Roots \ {"two_sided"}
  BY ResultsAre DEF IInv, Types, Roots
<1>3. /\ stored' \in [Roots -> SUBSET [id : Ids, admitted : BOOLEAN]]
      /\ stored'["two_sided"] = stored["two_sided"] \cup New("two_sided", result.admitted)
      /\ stored'["positive_only"] = stored["positive_only"]
      /\ KeptAsReported'
  BY <1>0, <1>1, <1>2, StoringKeeps
<1>4. Types'
  BY <1>1, <1>3 DEF IInv, Types, Busy
<1>5. Placed'
  BY <1>0, <1>1 DEF IInv, Placed, Busy
<1>6. Logged(progress)' /\ Numbered' /\ Paid'
  BY <1>0, <1>1 DEF IInv, Logged, Numbered, Paid, HasRow, Seed, Busy
<1>7. Beside'
  <2>1. Only("two_sided") /\ Only("positive_only")
    BY <1>0 DEF IInv, Beside
  <2>2. OnlyAndNew("two_sided", result.admitted)'
    BY <1>1, <1>3, <2>1 DEF OnlyAndNew, Only, New, IsKept
  <2>3. Only("positive_only")'
    BY <1>1, <1>3, <2>1 DEF Only, IsKept
  <2>. QED  BY <1>1, <2>2, <2>3 DEF Beside
<1>. QED  BY <1>3, <1>4, <1>5, <1>6, <1>7 DEF IInv

LEMMA StoreFirstIInv == IInv /\ StoreFirst => IInv'
<1>. SUFFICES ASSUME IInv, StoreFirst  PROVE IInv'
  OBVIOUS
<1>0. pc = "first" /\ Free("positive_only") /\ pc \in Busy
  BY StoresAreFree DEF StoreFirst, Busy
<1>1. /\ stored' = [stored EXCEPT !["positive_only"] = @ \cup New("positive_only", FALSE)] /\ pc' = "gate"
      /\ UNCHANGED <<progress, progressTorn, rows, rowsTorn, manifests, g, k, occurrence, result, built,
                     crashes, appended>>
  BY <1>0 DEF StoreFirst, StoreOrRaise, New, ghosts
<1>2. FALSE \in BOOLEAN /\ "positive_only" \in Roots /\ "two_sided" \in Roots \ {"positive_only"}
  BY DEF Roots
<1>3. /\ stored' \in [Roots -> SUBSET [id : Ids, admitted : BOOLEAN]]
      /\ stored'["positive_only"] = stored["positive_only"] \cup New("positive_only", FALSE)
      /\ stored'["two_sided"] = stored["two_sided"]
      /\ KeptAsReported'
  BY <1>0, <1>1, <1>2, StoringKeeps
<1>4. Types'
  BY <1>1, <1>3 DEF IInv, Types, Busy
<1>5. Placed'
  BY <1>0, <1>1 DEF IInv, Placed, Busy
<1>6. Logged(progress)' /\ Numbered' /\ Paid'
  BY <1>0, <1>1 DEF IInv, Logged, Numbered, Paid, HasRow, Seed, Busy
<1>7. Beside'
  <2>1. OnlyAndNew("two_sided", result.admitted) /\ Only("positive_only")
    BY <1>0 DEF IInv, Beside
  <2>2. OnlyAndNew("positive_only", FALSE)'
    BY <1>1, <1>3, <2>1 DEF OnlyAndNew, Only, New, IsKept
  <2>3. OnlyAndNew("two_sided", result.admitted)'
    BY <1>1, <1>3, <2>1 DEF OnlyAndNew, New, IsKept
  <2>. QED  BY <1>1, <2>2, <2>3 DEF Beside
<1>. QED  BY <1>3, <1>4, <1>5, <1>6, <1>7 DEF IInv

(* The gate sets the status of the programs it has just stored.             *)
LEMMA GateFirstIInv == IInv /\ GateFirst => IInv'
<1>. SUFFICES ASSUME IInv, GateFirst  PROVE IInv'
  OBVIOUS
<1>. DEFINE Rec == [id : Ids, admitted : BOOLEAN]
            old == stored["positive_only"]
            firsts == InRoot("positive_only", result)
            Gated(p) == IF p.id \in firsts THEN [p EXCEPT !.admitted = result.first] ELSE p
<1>0. /\ pc = "gate" /\ pc \in Busy /\ pc' = "commit"
      /\ stored' = [stored EXCEPT !["positive_only"] = {Gated(p) : p \in old}]
      /\ UNCHANGED <<progress, progressTorn, rows, rowsTorn, manifests, g, k, occurrence, result, built,
                     crashes, appended>>
  BY DEF GateFirst, Busy, ghosts
<1>1. result.first \in BOOLEAN /\ stored \in [Roots -> SUBSET Rec] /\ old \subseteq Rec
      /\ "positive_only" \in Roots /\ "two_sided" \in Roots
  BY ResultsAre DEF IInv, Types, Roots
<1>2. \A id \in firsts : ~IsKept("positive_only", id) /\ id \in Ids
  BY <1>0, <1>1, NewIsNotKept
<1>3. /\ \A p \in old : IsKept("positive_only", p.id) \/ p \in New("positive_only", FALSE)
      /\ New("positive_only", FALSE) \subseteq old /\ OnlyAndNew("two_sided", result.admitted)
  BY <1>0 DEF IInv, Beside, OnlyAndNew
<1>4. \A p \in old : /\ p.id \in firsts => Gated(p) = [id |-> p.id, admitted |-> result.first]
                     /\ p.id \notin firsts => Gated(p) = p
  BY <1>1
<1>5. stored'["positive_only"] = {Gated(p) : p \in old} /\ stored'["two_sided"] = stored["two_sided"]
  BY <1>0, <1>1
<1>. HIDE DEF Gated
<1>6. \A q : q \in stored'["positive_only"] <=>
              (q \in old /\ q.id \notin firsts) \/ q \in New("positive_only", result.first)
  <2>1. ASSUME NEW q \in stored'["positive_only"]
        PROVE  (q \in old /\ q.id \notin firsts) \/ q \in New("positive_only", result.first)
    <3>1. PICK p \in old : q = Gated(p)
      BY <1>5, <2>1
    <3>. QED  BY <1>4, <3>1 DEF New
  <2>2. ASSUME NEW q \in old, q.id \notin firsts  PROVE q \in stored'["positive_only"]
    BY <1>4, <1>5, <2>2
  <2>3. ASSUME NEW q \in New("positive_only", result.first)  PROVE q \in stored'["positive_only"]
    <3>1. PICK id \in firsts : q = [id |-> id, admitted |-> result.first]
      BY <2>3 DEF New
    <3>2. [id |-> id, admitted |-> FALSE] \in old
      BY <1>3, <3>1 DEF New
    <3>3. Gated([id |-> id, admitted |-> FALSE]) = q
      BY <1>4, <3>1, <3>2
    <3>. QED  BY <1>5, <3>2, <3>3
  <2>. QED  BY <2>1, <2>2, <2>3
<1>7. New("positive_only", result.first) \subseteq Rec /\ \A p \in New("positive_only", result.first) : p.id \in firsts
  BY <1>1, <1>2 DEF New
<1>8. stored' \in [Roots -> SUBSET Rec]
  <2>1. stored'["positive_only"] \subseteq Rec
    BY <1>1, <1>6, <1>7
  <2>. QED  BY <1>0, <1>1, <1>5, <2>1
<1>9. KeptAsReported'
  <2>1. \A p : IsKept("positive_only", p.id) => (p \in stored'["positive_only"] <=> p \in old)
    BY <1>2, <1>6, <1>7
  <2>2. \A any \in Roots : \A p : IsKept(any, p.id) => (p \in stored'[any] <=> p \in stored[any])
    BY <1>5, <2>1 DEF Roots
  <2>. QED  BY <1>0, <2>2 DEF IInv, KeptAsReported, IsKept
<1>10. Types'
  BY <1>0, <1>8 DEF IInv, Types, Busy
<1>11. Placed'
  BY <1>0 DEF IInv, Placed, Busy
<1>12. Logged(progress)' /\ Numbered' /\ Paid'
  BY <1>0 DEF IInv, Logged, Numbered, Paid, HasRow, Seed, Busy
<1>13. Beside'
  <2>1. \A p \in stored'["positive_only"] : IsKept("positive_only", p.id) \/ p \in New("positive_only", result.first)
    <3>1. \A p \in New("positive_only", FALSE) : p.id \in firsts
      BY DEF New
    <3>. QED  BY <1>3, <1>6, <3>1
  <2>2. OnlyAndNew("positive_only", result.first)'
    BY <1>0, <1>6, <2>1 DEF OnlyAndNew, New, IsKept
  <2>3. OnlyAndNew("two_sided", result.admitted)'
    BY <1>0, <1>3, <1>5 DEF OnlyAndNew, New, IsKept
  <2>. QED  BY <1>0, <2>2, <2>3 DEF Beside
<1>. QED  BY <1>9, <1>10, <1>11, <1>12, <1>13 DEF IInv

(* The commit is the next entry of the log, for the seed the walk is at; it *)
(* makes the programs of the episode kept ones.                             *)
LEMMA CommitIInv == IInv /\ Commit => IInv'
<1>. SUFFICES ASSUME IInv, Commit  PROVE IInv'
  OBVIOUS
<1>. DEFINE n == Len(progress)
            entry == [ep |-> Seed, result |-> result]
<1>0. /\ pc = "commit" /\ pc \in Busy /\ pc' = "walk"
      /\ progress' = Append(progress, entry) /\ progressTorn' = FALSE
      /\ built' = Append(built, entry)
      /\ UNCHANGED <<rows, rowsTorn, stored, manifests, occurrence, result, crashes, appended>>
  BY DEF Commit, IInv, Types, Busy, ghosts
<1>1. IF result.admitted \/ k = Len(Plan[g])
      THEN g' = g + 1 /\ k' = 1
      ELSE g' = g /\ k' = k + 1
  BY DEF Commit, Advance
<1>2. /\ Len(built) = n /\ occurrence = n + 1 /\ g <= Len(Plan) /\ At(progress, n, g, k)
      /\ \A i \in 1 .. n : built[i] = progress[i]
      /\ \A root \in Roots : \A id \in InRoot(root, result) : id[1] = n + 1
  BY <1>0 DEF IInv, Placed
<1>3. progress \in Seq(Entries) /\ built \in Seq(Entries) /\ n \in Nat /\ result \in Results
  <2>1. progress \in Seq(Entries)
    BY DEF IInv, Types
  <2>2. built \in Seq(Entries)
    BY DEF IInv, Types
  <2>3. result \in Results
    BY DEF IInv, Types
  <2>4. Len(progress) \in Nat
    BY <2>1
  <2>. QED  BY <2>1, <2>2, <2>3, <2>4
<1>4. g \in 1 .. Len(Plan) /\ k \in 1 .. Len(Plan[g])
  BY <1>2, <1>3, AtIsOpen
<1>5. entry \in Entries
  BY <1>3, <1>4, SeedsAre DEF Entries, Seed
<1>6. /\ progress' \in Seq(Entries) /\ Len(progress') = n + 1
      /\ \A i \in 1 .. n : progress'[i] = progress[i]
      /\ progress'[n + 1] = entry
  BY <1>0, <1>3, <1>5
<1>7. /\ built' \in Seq(Entries) /\ Len(built') = n + 1
      /\ \A i \in 1 .. n : built'[i] = progress[i]
      /\ built'[n + 1] = entry
  BY <1>0, <1>2, <1>3, <1>5
<1>8. \A i \in 1 .. n + 1 : i \in 1 .. n \/ i = n + 1
  BY <1>3
<1>9. At(progress', n + 1, g', k')
  <2>1. progress'[n + 1].ep = Plan[g][k] /\ progress'[n + 1].result.admitted = result.admitted
    BY <1>6 DEF Seed
  <2>. HIDE DEF n, entry
  <2>. QED  BY <1>1, <1>2, <1>3, <1>6, <2>1, AtNext
<1>10. Types'
  <2>1. g' \in 1 .. Len(Plan) + 1
    BY <1>9 DEF At
  <2>2. k' \in Nat \ {0}
    <3>1. k \in Nat \ {0}
      BY DEF IInv, Types
    <3>2. k' = 1 \/ k' = k + 1
      BY <1>1
    <3>. QED  BY <3>1, <3>2
  <2>. QED  BY <1>0, <1>6, <1>7, <2>1, <2>2 DEF IInv, Types
<1>11. Placed'
  BY <1>0, <1>2, <1>3, <1>6, <1>7, <1>8, <1>9 DEF Placed, Busy
<1>12. Logged(progress)'
  <2>. SUFFICES ASSUME NEW i \in 1 .. n + 1
                PROVE  \E a \in 1 .. Len(Plan) : \E b \in 1 .. Len(Plan[a]) :
                           At(progress', i - 1, a, b) /\ progress'[i].ep = Plan[a][b]
    BY <1>6 DEF Logged
  <2>1. CASE i \in 1 .. n
    <3>1. PICK a \in 1 .. Len(Plan) : \E b \in 1 .. Len(Plan[a]) :
              At(progress, i - 1, a, b) /\ progress[i].ep = Plan[a][b]
      BY <2>1 DEF IInv, Logged
    <3>2. PICK b \in 1 .. Len(Plan[a]) : At(progress, i - 1, a, b) /\ progress[i].ep = Plan[a][b]
      BY <3>1
    <3>3. i - 1 \in Nat /\ \A j \in 1 .. i - 1 : progress'[j] = progress[j]
      BY <1>3, <1>6, <2>1
    <3>4. At(progress', i - 1, a, b)
      BY <3>2, <3>3, AtStays
    <3>. QED  BY <1>6, <2>1, <3>2, <3>4
  <2>2. CASE i = n + 1
    <3>1. At(progress', n, g, k)
      BY <1>2, <1>3, <1>6, AtStays
    <3>2. progress'[i].ep = Plan[g][k] /\ i - 1 = n
      BY <1>3, <1>6, <2>2 DEF Seed
    <3>. QED  BY <1>4, <3>1, <3>2
  <2>. QED  BY <1>8, <2>1, <2>2
<1>13. Numbered'
  BY <1>2, <1>6, <1>8 DEF IInv, Numbered
<1>14. \A root, id : IsKept(root, id)' <=> IsKept(root, id) \/ id \in InRoot(root, result)
  BY <1>3, <1>6, <1>8 DEF IsKept
<1>15. \A root \in Roots : \A id \in InRoot(root, result) : ~IsKept(root, id)
  BY <1>0, NewIsNotKept
<1>16. OnlyAndNew("two_sided", result.admitted) /\ OnlyAndNew("positive_only", result.first)
  BY <1>0 DEF IInv, Beside
<1>17. \A root \in Roots : OnlyAndNew(root, Verdict(root, result))
  BY <1>16 DEF Roots, Verdict
<1>18. KeptAsReported'
  <2>. SUFFICES ASSUME NEW root \in Roots, NEW p \in [id : Ids, admitted : BOOLEAN],
                       NEW i \in 1 .. n + 1, p.id \in InRoot(root, progress'[i].result)
                PROVE  p \in stored[root] <=> p.admitted = Verdict(root, progress'[i].result)
    BY <1>0, <1>6 DEF KeptAsReported, Verdict
  <2>1. CASE i \in 1 .. n
    BY <1>6, <2>1 DEF IInv, KeptAsReported
  <2>2. CASE i = n + 1
    <3>1. p.id \in InRoot(root, result) /\ progress'[i].result = result
      BY <1>6, <2>2
    <3>2. ~IsKept(root, p.id)
      BY <1>15, <3>1
    <3>3. p \in stored[root] <=> p \in New(root, Verdict(root, result))
      BY <1>17, <3>2 DEF OnlyAndNew
    <3>4. p \in New(root, Verdict(root, result)) <=> p.admitted = Verdict(root, result)
      <4>1. p = [id |-> p.id, admitted |-> p.admitted]
        OBVIOUS
      <4>. QED  BY <3>1, <4>1 DEF New
    <3>. QED  BY <3>1, <3>3, <3>4
  <2>. QED  BY <1>8, <2>1, <2>2
<1>19. Beside'
  <2>1. \A root, v : \A p \in New(root, v) : p.id \in InRoot(root, result)
    BY DEF New
  <2>2. \A root \in Roots : \A p \in stored[root] : IsKept(root, p.id)'
    BY <1>14, <1>17, <2>1 DEF OnlyAndNew
  <2>. QED  BY <1>0, <2>2 DEF Beside, Only, Roots
<1>20. Paid'
  <2>1. HasRow(Seed) /\ \A i \in 1 .. n : HasRow(progress[i].ep)
    BY <1>0 DEF IInv, Paid, Busy
  <2>2. \A i \in 1 .. n + 1 : HasRow(progress'[i].ep)
    BY <1>6, <1>8, <2>1
  <2>. QED  BY <1>0, <1>6, <2>2 DEF Paid, Busy, HasRow
<1>. QED  BY <1>10, <1>11, <1>12, <1>13, <1>18, <1>19, <1>20 DEF IInv

LEMMA WriteManifestIInv == ASSUME NEW root \in Roots PROVE IInv /\ WriteManifest(root) => IInv'
<1>. SUFFICES ASSUME IInv, WriteManifest(root)  PROVE IInv'
  OBVIOUS
<1>0. /\ UNCHANGED <<progress, progressTorn, rows, rowsTorn, stored, pc, g, k, occurrence, result, built,
                     crashes, appended>>
      /\ manifests' = manifests \cup {root}
  BY DEF WriteManifest, process, ghosts
<1>1. Types'
  BY <1>0 DEF IInv, Types
<1>2. Placed'
  BY <1>0 DEF IInv, Placed
<1>3. Beside' /\ Paid'
  BY <1>0 DEF IInv, Beside, Only, OnlyAndNew, New, IsKept, Paid, HasRow, Seed
<1>. QED  BY <1>0, <1>1, <1>2, <1>3, FilesStay DEF IInv

LEMMA ReportIInv == IInv /\ Report => IInv'
<1>. SUFFICES ASSUME IInv, Report  PROVE IInv'
  OBVIOUS
<1>0. /\ pc = "walk" /\ g > Len(Plan) /\ pc' = "done"
      /\ UNCHANGED <<progress, progressTorn, rows, rowsTorn, stored, manifests, g, k, occurrence, result,
                     built, crashes, appended>>
  BY DEF Report, files, ghosts
<1>1. Types'
  BY <1>0 DEF IInv, Types
<1>2. Placed'
  BY <1>0, EndOfTheLog DEF Placed, Busy, ClosedIn, RanIn, AdmittedIn
<1>3. Beside' /\ Paid'
  BY <1>0 DEF IInv, Beside, Only, IsKept, Paid, HasRow, Busy
<1>. QED  BY <1>0, <1>1, <1>2, <1>3, FilesStay DEF IInv

LEMMA CrashIInv ==
    ASSUME CanTear = FALSE, NEW tears \in BOOLEAN
    PROVE  IInv /\ Crash(tears) => IInv'
<1>. SUFFICES ASSUME IInv, Crash(tears)  PROVE IInv'
  OBVIOUS
<1>0. /\ crashes < MaxCrashes /\ crashes' = crashes + 1 /\ pc' = "down" /\ tears = FALSE
      /\ rowsTorn' = rowsTorn /\ progressTorn' = progressTorn
      /\ UNCHANGED <<progress, rows, stored, manifests, g, k, occurrence, result, built, appended>>
  BY DEF Crash, IInv, Types
<1>1. crashes' \in 0 .. MaxCrashes
  <2>1. MaxCrashes \in Nat
    BY BuildAssumption
  <2>2. crashes \in 0 .. MaxCrashes
    BY DEF IInv, Types
  <2>. QED  BY <1>0, <2>1, <2>2
<1>2. Types'
  BY <1>0, <1>1 DEF IInv, Types
<1>3. Placed' /\ Beside' /\ Paid'
  BY <1>0 DEF IInv, Placed, Beside, Paid, HasRow, Busy
<1>. QED  BY <1>0, <1>2, <1>3, FilesStay DEF IInv

LEMMA ResumeIInv == IInv /\ Resume => IInv'
<1>. SUFFICES ASSUME IInv, Resume  PROVE IInv'
  OBVIOUS
<1>0. /\ pc' = "clean two_sided" /\ g' = 1 /\ k' = 1 /\ occurrence' = 0 /\ result' = NoResult /\ built' = <<>>
      /\ UNCHANGED <<progress, progressTorn, rows, rowsTorn, stored, manifests, crashes, appended>>
  BY DEF Resume, files, ghosts
<1>1. Types'
  <2>1. g' \in 1 .. Len(Plan) + 1 /\ k' \in Nat \ {0} /\ occurrence' \in Nat
    <3>1. Len(Plan) \in Nat
      BY PlanIs
    <3>2. g' = 1 /\ k' = 1 /\ occurrence' = 0
      BY <1>0
    <3>3. 1 \in 1 .. Len(Plan) + 1
      BY <3>1
    <3>. QED  BY <3>2, <3>3
  <2>2. result' \in Results
    BY <1>0, NoResultIsOne
  <2>3. built' \in Seq(Entries)
    BY <1>0, EmptySeq
  <2>. QED  BY <1>0, <2>1, <2>2, <2>3 DEF IInv, Types
<1>2. Placed' /\ Beside' /\ Paid'
  BY <1>0 DEF IInv, Placed, Beside, Paid, HasRow, Busy
<1>. QED  BY <1>0, <1>1, <1>2, FilesStay DEF IInv

LEMMA CleanIInv == ASSUME NEW root \in Roots PROVE IInv /\ Clean(root) => IInv'
<1>. SUFFICES ASSUME IInv, Clean(root)  PROVE IInv'
  OBVIOUS
<1>. DEFINE Rec == [id : Ids, admitted : BOOLEAN]
            kept == {p \in stored[root] : p.id \in Kept(root)}
<1>0. /\ pc = IF root = "two_sided" THEN "clean two_sided" ELSE "clean positive_only"
      /\ pc' = IF root = "two_sided" THEN "clean positive_only" ELSE "walk"
      /\ stored' = [stored EXCEPT ![root] = kept]
      /\ UNCHANGED <<progress, progressTorn, rows, rowsTorn, manifests, g, k, occurrence, result, built,
                     crashes, appended>>
  BY DEF Clean, RemoveUncommitted, ghosts
<1>1. stored \in [Roots -> SUBSET Rec]
  BY DEF IInv, Types
<1>2. /\ stored'[root] = kept /\ \A other \in Roots \ {root} : stored'[other] = stored[other]
      /\ stored' \in [Roots -> SUBSET Rec]
  BY <1>0, <1>1
<1>3. \A p : p \in kept <=> p \in stored[root] /\ IsKept(root, p.id)
  BY KeptIs
<1>4. Types'
  BY <1>0, <1>2 DEF IInv, Types
<1>5. built = <<>> /\ g = 1 /\ k = 1 /\ occurrence = 0 /\ Len(built) = 0 /\ Len(progress) \in Nat
  <2>1. built = <<>> /\ g = 1 /\ k = 1 /\ occurrence = 0
    BY <1>0 DEF IInv, Placed
  <2>2. progress \in Seq(Entries)
    BY DEF IInv, Types
  <2>3. Len(progress) \in Nat
    BY <2>2
  <2>. QED  BY <2>1, <2>3
<1>6. Placed'
  <2>1. At(progress, 0, 1, 1)
    BY AtFirst
  <2>2. built' = <<>> /\ g' = 1 /\ k' = 1 /\ occurrence' = 0 /\ progress' = progress /\ Len(built') = 0
    BY <1>0, <1>5
  <2>3. pc' = "clean positive_only" \/ pc' = "walk"
    BY <1>0
  <2>4. (At(progress, Len(built), g, k))'
    BY <2>1, <2>2 DEF At, ClosedIn, AdmittedIn, RanIn
  <2>5. (Len(built) <= Len(progress) /\ \A i \in 1 .. Len(built) : built[i] = progress[i])'
    BY <1>5, <2>2
  <2>6. (occurrence = Len(built) /\ pc \notin Busy /\ pc # "done")'
    BY <2>2, <2>3 DEF Busy
  <2>. HIDE DEF At
  <2>. QED  BY <2>2, <2>4, <2>5, <2>6 DEF Placed
<1>7. KeptAsReported'
  <2>1. \A any \in Roots : \A p : IsKept(any, p.id) => (p \in stored'[any] <=> p \in stored[any])
    BY <1>2, <1>3
  <2>. QED  BY <1>0, <2>1 DEF IInv, KeptAsReported, IsKept
<1>8. Beside'
  <2>1. CASE root = "two_sided"
    BY <1>0, <1>2, <1>3, <2>1 DEF Beside, Only, IsKept
  <2>2. CASE root = "positive_only"
    <3>1. Only("two_sided") /\ "two_sided" \in Roots \ {root}
      BY <1>0, <2>2 DEF IInv, Beside, Roots
    <3>. QED  BY <1>0, <1>2, <1>3, <2>2, <3>1 DEF Beside, Only, IsKept
  <2>. QED  BY <2>1, <2>2 DEF Roots
<1>9. Logged(progress)' /\ Numbered' /\ Paid'
  BY <1>0 DEF IInv, Logged, Numbered, Paid, HasRow, Busy
<1>. QED  BY <1>4, <1>6, <1>7, <1>8, <1>9 DEF IInv

LEMMA StutterIInv == IInv /\ UNCHANGED vars => IInv'
<1>. SUFFICES ASSUME IInv, UNCHANGED vars  PROVE IInv'
  OBVIOUS
<1>0. UNCHANGED <<progress, progressTorn, rows, rowsTorn, stored, manifests, pc, g, k, occurrence, result,
                  built, crashes, appended>>
  BY DEF vars, files, process, ghosts
<1>1. Types'
  BY <1>0 DEF IInv, Types
<1>2. Placed'
  BY <1>0 DEF IInv, Placed
<1>3. Beside' /\ Paid'
  BY <1>0 DEF IInv, Beside, Only, OnlyAndNew, New, IsKept, Paid, HasRow, Seed
<1>. QED  BY <1>0, <1>1, <1>2, <1>3, FilesStay DEF IInv

LEMMA NextIInv == ASSUME CanTear = FALSE PROVE IInv /\ [Next]_vars => IInv'
<1>. SUFFICES ASSUME IInv, [Next]_vars  PROVE IInv'
  OBVIOUS
<1>1. CASE Step
  <2>1. ASSUME NEW r \in Results, RunEpisode(r)  PROVE IInv'
    BY <2>1, RunEpisodeIInv
  <2>2. ASSUME NEW root \in Roots, WriteManifest(root) \/ Clean(root)  PROVE IInv'
    BY <2>2, WriteManifestIInv, CleanIInv
  <2>. QED  BY <1>1, <2>1, <2>2, SkipIInv, AppendRowIInv, CopyProgramIInv, StoreFirstIInv, GateFirstIInv,
            CommitIInv, ReportIInv DEF Step
<1>2. CASE Resume
  BY <1>2, ResumeIInv
<1>3. ASSUME NEW tears \in BOOLEAN, Crash(tears)  PROVE IInv'
  BY <1>3, CrashIInv
<1>4. CASE UNCHANGED vars
  BY <1>4, StutterIInv
<1>. QED  BY <1>1, <1>2, <1>3, <1>4 DEF Next

LEMMA Invariance == ASSUME CanTear = FALSE PROVE Spec => []IInv
<1>1. Init => IInv
  BY InitIInv
<1>2. IInv /\ [Next]_vars => IInv'
  BY NextIInv
<1>. QED  BY <1>1, <1>2, PTL DEF Spec

-----------------------------------------------------------------------------
(* Type correctness, half lines included: whatever the files hold, the walk  *)
(* of one process never comes to a seed twice, so what it has counted is at  *)
(* most the number of seeds.                                                 *)

InStep ==
    /\ Logged(built)
    /\ pc \in {"walk"} \cup Busy => At(built, Len(built), g, k)
    /\ pc = "walk" => occurrence = Len(built)
    /\ pc \in Busy => occurrence = Len(built) + 1 /\ g <= Len(Plan)
    /\ pc \in {"clean two_sided", "clean positive_only"} =>
           built = <<>> /\ g = 1 /\ k = 1 /\ occurrence = 0

TInv == TypeOK /\ InStep

(* The seeds of a group, and of the plan, are finitely many.                *)
LEMMA SeedsAreFinite == IsFiniteSet(Seeds) /\ Cardinality(Seeds) \in Nat
<1>. DEFINE Group(h) == {Plan[h][j] : j \in 1 .. Len(Plan[h])}
            groups == {Group(h) : h \in 1 .. Len(Plan)}
            names == [h \in 1 .. Len(Plan) |-> Group(h)]
<1>1. names \in Surjection(1 .. Len(Plan), groups)
  BY DEF Surjection
<1>2. IsFiniteSet(1 .. Len(Plan))
  BY PlanIs, FS_Interval
<1>. HIDE DEF names
<1>3. IsFiniteSet(groups)
  BY <1>1, <1>2, FS_Surjection
<1>4. ASSUME NEW h \in 1 .. Len(Plan)  PROVE IsFiniteSet(Group(h))
  <2>. DEFINE seeds == [j \in 1 .. Len(Plan[h]) |-> Plan[h][j]]
  <2>1. seeds \in Surjection(1 .. Len(Plan[h]), Group(h))
    BY DEF Surjection
  <2>2. Len(Plan[h]) \in Int
    BY PlanIs
  <2>3. IsFiniteSet(1 .. Len(Plan[h]))
    BY <2>2, FS_Interval
  <2>. HIDE DEF seeds, Group
  <2>. QED  BY <2>1, <2>3, FS_Surjection
<1>5. \A T \in groups : IsFiniteSet(T)
  BY <1>4
<1>6. Seeds = UNION groups
  BY DEF Seeds
<1>. HIDE DEF groups
<1>7. IsFiniteSet(Seeds)
  BY <1>3, <1>5, <1>6, FS_UNION
<1>. QED  BY <1>7, FS_CardinalityType

(* While the walk is at a seed there is one more than it has been at.       *)
LEMMA WalkFits ==
    ASSUME NEW l \in Seq(Entries), Logged(l), NEW a, NEW b, At(l, Len(l), a, b), a <= Len(Plan)
    PROVE  Len(l) + 1 <= Cardinality(Seeds)
<1>. DEFINE n == Len(l)
            been == [i \in 1 .. n + 1 |-> IF i = n + 1 THEN Plan[a][b] ELSE l[i].ep]
<1>1. n \in Nat /\ n + 1 \in Nat
  OBVIOUS
<1>2. /\ a \in 1 .. Len(Plan) /\ b \in 1 .. Len(Plan[a])
      /\ ~RanIn(Plan[a][b], l, n)
  BY <1>1, AtIsOpen
<1>3. \A i \in 1 .. n + 1 : i = n + 1 \/ i \in 1 .. n
  BY <1>1
<1>4. \A i \in 1 .. n : l[i].ep \in Seeds
  <2>1. \A i \in 1 .. n : l[i] \in Entries
    OBVIOUS
  <2>. QED  BY <2>1 DEF Entries
<1>5. been \in [1 .. n + 1 -> Seeds]
  BY <1>2, <1>3, <1>4, SeedsAre
<1>6. \A i, j \in 1 .. n : l[i].ep = l[j].ep => i = j
  BY OnceEach
<1>7. \A i \in 1 .. n : l[i].ep # Plan[a][b]
  BY <1>2 DEF RanIn
<1>8. \A i, j \in 1 .. n + 1 : been[i] = been[j] => i = j
  <2>. SUFFICES ASSUME NEW i \in 1 .. n + 1, NEW j \in 1 .. n + 1, been[i] = been[j]  PROVE i = j
    OBVIOUS
  <2>1. been[i] = (IF i = n + 1 THEN Plan[a][b] ELSE l[i].ep)
        /\ been[j] = (IF j = n + 1 THEN Plan[a][b] ELSE l[j].ep)
    OBVIOUS
  <2>. HIDE DEF been, n
  <2>. QED  BY <1>3, <1>6, <1>7, <2>1
<1>9. been \in Injection(1 .. n + 1, Seeds)
  <2>. HIDE DEF been, n
  <2>. QED  BY <1>5, <1>8 DEF Injection, IsInjective
<1>10. Cardinality(1 .. n + 1) <= Cardinality(Seeds)
  <2>. HIDE DEF been, n
  <2>. QED  BY <1>9, SeedsAreFinite, FS_Injection
<1>11. Cardinality(1 .. n + 1) = n + 1
  <2>1. 1 \in Int /\ n + 1 \in Int /\ ~(1 > n + 1) /\ (n + 1) - 1 + 1 = n + 1
    BY <1>1
  <2>. HIDE DEF n
  <2>. QED  BY <2>1, FS_Interval
<1>. QED  BY <1>10, <1>11

(* A walk one entry longer, at the next place of the plan.                  *)
LEMMA WalkGoesOn ==
    ASSUME NEW entry \in Entries, TInv, pc \in {"walk"} \cup Busy, g <= Len(Plan),
           entry.ep = Seed, built' = Append(built, entry), Advance(entry.result.admitted)
    PROVE  /\ built' \in Seq(Entries) /\ Len(built') = Len(built) + 1 /\ Len(built) \in Nat
           /\ Logged(built') /\ At(built', Len(built'), g', k')
           /\ g' \in 1 .. Len(Plan) + 1 /\ k' \in Nat \ {0}
<1>. DEFINE n == Len(built)
<1>1. built \in Seq(Entries) /\ n \in Nat /\ At(built, n, g, k) /\ Logged(built) /\ k \in Nat \ {0}
  <2>1. built \in Seq(Entries) /\ k \in Nat \ {0}
    BY DEF TInv, TypeOK
  <2>2. At(built, n, g, k) /\ Logged(built)
    BY DEF TInv, InStep
  <2>3. n \in Nat
    BY <2>1
  <2>. QED  BY <2>1, <2>2, <2>3
<1>2. /\ built' \in Seq(Entries) /\ Len(built') = n + 1
      /\ \A i \in 1 .. n : built'[i] = built[i]
      /\ built'[n + 1] = entry
  BY <1>1
<1>3. IF entry.result.admitted \/ k = Len(Plan[g])
      THEN g' = g + 1 /\ k' = 1
      ELSE g' = g /\ k' = k + 1
  BY DEF Advance
<1>4. At(built', n + 1, g', k')
  <2>. HIDE DEF n
  <2>. QED  BY <1>1, <1>2, <1>3, AtNext DEF Seed
<1>5. Logged(built')
  <2>. SUFFICES ASSUME NEW i \in 1 .. n + 1
                PROVE  \E c \in 1 .. Len(Plan) : \E d \in 1 .. Len(Plan[c]) :
                           At(built', i - 1, c, d) /\ built'[i].ep = Plan[c][d]
    BY <1>2 DEF Logged
  <2>1. CASE i = n + 1
    <3>1. g \in 1 .. Len(Plan) /\ k \in 1 .. Len(Plan[g])
      BY <1>1, AtIsOpen
    <3>2. At(built', n, g, k)
      <4>. HIDE DEF n
      <4>. QED  BY <1>1, <1>2, AtStays
    <3>3. i - 1 = n /\ built'[i].ep = Plan[g][k]
      BY <1>1, <1>2, <2>1 DEF Seed
    <3>. QED  BY <3>1, <3>2, <3>3
  <2>2. CASE i \in 1 .. n
    <3>1. PICK c \in 1 .. Len(Plan) : \E d \in 1 .. Len(Plan[c]) :
              At(built, i - 1, c, d) /\ built[i].ep = Plan[c][d]
      BY <1>1, <2>2 DEF Logged
    <3>2. PICK d \in 1 .. Len(Plan[c]) : At(built, i - 1, c, d) /\ built[i].ep = Plan[c][d]
      BY <3>1
    <3>3. i - 1 \in Nat /\ \A j \in 1 .. i - 1 : built'[j] = built[j]
      BY <1>1, <1>2, <2>2
    <3>4. At(built', i - 1, c, d)
      BY <3>2, <3>3, AtStays
    <3>. QED  BY <1>2, <2>2, <3>2, <3>4
  <2>. QED  BY <1>1, <2>1, <2>2
<1>6. g' \in 1 .. Len(Plan) + 1
  BY <1>4 DEF At
<1>7. k' \in Nat \ {0}
  BY <1>1, <1>3
<1>. QED  BY <1>1, <1>2, <1>4, <1>5, <1>6, <1>7

LEMMA InitTInv == Init => TInv
<1>. SUFFICES ASSUME Init  PROVE TInv
  OBVIOUS
<1>0. progress = <<>> /\ rows = <<>> /\ built = <<>> /\ Len(built) = 0
  BY DEF Init
<1>1. TypeOK
  <2>1. g \in 1 .. Len(Plan) + 1 /\ crashes \in 0 .. MaxCrashes
    BY PlanIs, BuildAssumption DEF Init
  <2>2. result \in Results /\ stored \in [Roots -> SUBSET [id : Ids, admitted : BOOLEAN]]
    BY DEF Init, NoResult, Results
  <2>3. progress \in Seq(Entries) /\ rows \in Seq(Seeds) /\ built \in Seq(Entries)
    BY <1>0
  <2>4. occurrence \in 0 .. Cardinality(Seeds)
    BY SeedsAreFinite DEF Init
  <2>5. progressTorn \in BOOLEAN /\ rowsTorn \in BOOLEAN
    BY Zenon DEF Init
  <2>6. manifests \subseteq Roots /\ appended \subseteq Seeds
    BY DEF Init
  <2>7. k \in Nat \ {0} /\ pc = "walk"
    BY DEF Init
  <2>. QED  BY <2>1, <2>2, <2>3, <2>4, <2>5, <2>6, <2>7 DEF TypeOK
<1>2. InStep
  <2>1. At(built, Len(built), g, k)
    BY <1>0, AtFirst DEF Init
  <2>2. Logged(built)
    BY <1>0 DEF Logged
  <2>. QED  BY <1>0, <2>1, <2>2 DEF Init, InStep, Busy
<1>. QED  BY <1>1, <1>2 DEF TInv

(* A step that leaves the walk where it is.                                 *)
LEMMA WalkStays ==
    ASSUME TInv, UNCHANGED <<g, k, occurrence, built>>,
           \/ pc' = pc
           \/ pc \in Busy /\ pc' \in Busy
           \/ pc' \in {"done", "down"}
    PROVE  InStep'
<1>1. Logged(built')
  BY DEF TInv, InStep
<1>2. ASSUME pc' \in {"walk"} \cup Busy  PROVE At(built', Len(built'), g', k')
  <2>1. pc \in {"walk"} \cup Busy
    BY <1>2 DEF Busy
  <2>. QED  BY <2>1 DEF TInv, InStep
<1>3. (/\ pc = "walk" => occurrence = Len(built)
       /\ pc \in Busy => occurrence = Len(built) + 1 /\ g <= Len(Plan)
       /\ pc \in {"clean two_sided", "clean positive_only"} =>
              built = <<>> /\ g = 1 /\ k = 1 /\ occurrence = 0)'
  BY DEF TInv, InStep, Busy
<1>. QED  BY <1>1, <1>2, <1>3 DEF InStep

(* The seed of the walk, and what there is of it in the log.                *)
LEMMA SeedIs ==
    ASSUME TInv, pc \in {"walk"} \cup Busy, g <= Len(Plan)
    PROVE  /\ Seed \in Seeds
           /\ Len(built) + 1 <= Cardinality(Seeds)
           /\ Seed \in Committed => EntryOf(Seed) \in Entries /\ EntryOf(Seed).ep = Seed
<1>1. /\ At(built, Len(built), g, k) /\ built \in Seq(Entries) /\ Logged(built)
      /\ progress \in Seq(Entries) /\ Len(built) \in Nat
  <2>1. built \in Seq(Entries) /\ progress \in Seq(Entries)
    BY DEF TInv, TypeOK
  <2>2. At(built, Len(built), g, k) /\ Logged(built)
    BY DEF TInv, InStep
  <2>3. Len(built) \in Nat
    BY <2>1
  <2>. QED  BY <2>1, <2>2, <2>3
<1>2. Seed \in Seeds
  BY <1>1, AtIsOpen, SeedsAre DEF Seed
<1>3. Len(built) + 1 <= Cardinality(Seeds)
  BY <1>1, WalkFits
<1>4. ASSUME Seed \in Committed  PROVE EntryOf(Seed) \in Entries /\ EntryOf(Seed).ep = Seed
  <2>1. \A entry \in Entered : entry \in Entries
    BY <1>1 DEF Entered
  <2>2. \E entry \in Entered : entry.ep = Seed
    BY <1>4 DEF Committed
  <2>3. EntryOf(Seed) \in Entered /\ EntryOf(Seed).ep = Seed
    BY <2>2 DEF EntryOf
  <2>. QED  BY <2>1, <2>3
<1>. QED  BY <1>2, <1>3, <1>4

LEMMA SkipTInv == TInv /\ Skip => TInv'
<1>. SUFFICES ASSUME TInv, Skip  PROVE TInv'
  OBVIOUS
<1>. DEFINE entry == EntryOf(Seed)
<1>0. /\ pc = "walk" /\ g <= Len(Plan) /\ Seed \in Committed
      /\ occurrence' = occurrence + 1 /\ built' = Append(built, entry)
      /\ Advance(entry.result.admitted)
      /\ UNCHANGED <<progress, progressTorn, rows, rowsTorn, stored, manifests, pc, result, crashes, appended>>
  BY DEF Skip, Walking, files, ghosts
<1>1. entry \in Entries /\ entry.ep = Seed /\ Len(built) + 1 <= Cardinality(Seeds)
  BY <1>0, SeedIs
<1>. HIDE DEF entry
<1>2. /\ built' \in Seq(Entries) /\ Len(built') = Len(built) + 1 /\ Len(built) \in Nat
      /\ Logged(built') /\ At(built', Len(built'), g', k')
      /\ g' \in 1 .. Len(Plan) + 1 /\ k' \in Nat \ {0}
  BY <1>0, <1>1, WalkGoesOn
<1>3. occurrence = Len(built)
  BY <1>0 DEF TInv, InStep
<1>4. occurrence' \in 0 .. Cardinality(Seeds)
  BY <1>0, <1>1, <1>2, <1>3, SeedsAreFinite
<1>5. TypeOK'
  BY <1>0, <1>2, <1>4 DEF TInv, TypeOK
<1>6. InStep'
  BY <1>0, <1>2, <1>3 DEF InStep, Busy
<1>. QED  BY <1>5, <1>6 DEF TInv

LEMMA RunEpisodeTInv == ASSUME NEW r \in Results PROVE TInv /\ RunEpisode(r) => TInv'
<1>. SUFFICES ASSUME TInv, RunEpisode(r)  PROVE TInv'
  OBVIOUS
<1>0. /\ pc = "walk" /\ g <= Len(Plan) /\ occurrence' = occurrence + 1 /\ result' = r /\ pc' = "row"
      /\ UNCHANGED <<progress, progressTorn, rows, rowsTorn, stored, manifests, g, k, built, crashes, appended>>
  BY DEF RunEpisode, Walking, files, ghosts
<1>1. occurrence = Len(built) /\ Len(built) \in Nat /\ At(built, Len(built), g, k) /\ Logged(built)
  BY <1>0 DEF TInv, TypeOK, InStep
<1>2. occurrence' \in 0 .. Cardinality(Seeds)
  BY <1>0, <1>1, SeedIs, SeedsAreFinite
<1>3. TypeOK'
  BY <1>0, <1>2 DEF TInv, TypeOK
<1>4. (Logged(built) /\ At(built, Len(built), g, k))'
  BY <1>0, <1>1
<1>5. InStep'
  BY <1>0, <1>1, <1>4 DEF InStep, Busy
<1>. QED  BY <1>3, <1>5 DEF TInv

LEMMA AppendRowTInv == TInv /\ AppendRow => TInv'
<1>. SUFFICES ASSUME TInv, AppendRow  PROVE TInv'
  OBVIOUS
<1>0. /\ pc = "row" /\ pc' = "copy" /\ pc \in Busy /\ pc' \in Busy
      /\ rows' = (IF rowsTorn THEN rows ELSE Append(rows, Seed)) /\ rowsTorn' = FALSE
      /\ appended' = appended \cup {Seed}
      /\ UNCHANGED <<progress, progressTorn, stored, manifests, g, k, occurrence, result, built, crashes>>
  BY DEF AppendRow, Busy
<1>1. Seed \in Seeds /\ rows \in Seq(Seeds)
  BY <1>0, SeedIs DEF TInv, TypeOK, InStep
<1>2. rows' \in Seq(Seeds)
  BY <1>0, <1>1
<1>3. TypeOK'
  BY <1>0, <1>1, <1>2 DEF TInv, TypeOK
<1>. QED  BY <1>0, <1>3, WalkStays DEF TInv

(* Storing the episode's programs in a root, or being refused.              *)
LEMMA StoringTInv ==
    ASSUME NEW root \in Roots, NEW verdict \in BOOLEAN, NEW next \in Busy,
           TInv, pc \in Busy, StoreOrRaise(root, verdict, next)
    PROVE  TInv'
<1>. DEFINE new == {[id |-> id, admitted |-> verdict] : id \in InRoot(root, result)}
<1>0. /\ stored' = (IF Free(root) THEN [stored EXCEPT ![root] = @ \cup new] ELSE stored)
      /\ pc' = (IF Free(root) THEN next ELSE "down")
      /\ UNCHANGED <<progress, progressTorn, rows, rowsTorn, manifests, g, k, occurrence, result, built,
                     crashes, appended>>
  BY DEF StoreOrRaise, ghosts
<1>1. new \subseteq [id : Ids, admitted : BOOLEAN]
  <2>1. result \in Results
    BY DEF TInv, TypeOK
  <2>2. \A id \in InRoot(root, result) : id \in Ids
    BY <2>1, ResultsAre
  <2>. QED  BY <2>2
<1>. HIDE DEF new
<1>2. stored' \in [Roots -> SUBSET [id : Ids, admitted : BOOLEAN]]
  BY <1>0, <1>1 DEF TInv, TypeOK
<1>3. pc' \in Busy \/ pc' = "down"
  BY <1>0
<1>4. TypeOK'
  BY <1>0, <1>2, <1>3 DEF TInv, TypeOK, Busy
<1>. QED  BY <1>0, <1>3, <1>4, WalkStays DEF TInv

LEMMA GateFirstTInv == TInv /\ GateFirst => TInv'
<1>. SUFFICES ASSUME TInv, GateFirst  PROVE TInv'
  OBVIOUS
<1>. DEFINE Rec == [id : Ids, admitted : BOOLEAN]
            Gated(p) == IF p.id \in InRoot("positive_only", result) THEN [p EXCEPT !.admitted = result.first] ELSE p
<1>0. /\ pc = "gate" /\ pc' = "commit" /\ pc \in Busy /\ pc' \in Busy
      /\ stored' = [stored EXCEPT !["positive_only"] = {Gated(p) : p \in @}]
      /\ UNCHANGED <<progress, progressTorn, rows, rowsTorn, manifests, g, k, occurrence, result, built,
                     crashes, appended>>
  BY DEF GateFirst, Busy, ghosts
<1>1. result.first \in BOOLEAN /\ stored \in [Roots -> SUBSET Rec] /\ "positive_only" \in Roots
  BY ResultsAre DEF TInv, TypeOK, Roots
<1>2. \A p \in stored["positive_only"] : Gated(p) \in Rec
  BY <1>1
<1>. HIDE DEF Gated
<1>3. stored' \in [Roots -> SUBSET Rec]
  <2>1. {Gated(p) : p \in stored["positive_only"]} \in SUBSET Rec
    BY <1>2
  <2>. QED  BY <1>0, <1>1, <2>1
<1>4. TypeOK'
  BY <1>0, <1>3 DEF TInv, TypeOK
<1>. QED  BY <1>0, <1>4, WalkStays DEF TInv

LEMMA CommitTInv == TInv /\ Commit => TInv'
<1>. SUFFICES ASSUME TInv, Commit  PROVE TInv'
  OBVIOUS
<1>. DEFINE entry == [ep |-> Seed, result |-> result]
<1>0. /\ pc = "commit" /\ pc \in Busy /\ pc' = "walk"
      /\ progress' = (IF progressTorn THEN progress ELSE Append(progress, entry))
      /\ progressTorn' = FALSE /\ built' = Append(built, entry) /\ Advance(result.admitted)
      /\ UNCHANGED <<rows, rowsTorn, stored, manifests, occurrence, result, crashes, appended>>
  BY DEF Commit, Busy, ghosts
<1>1. g <= Len(Plan) /\ occurrence = Len(built) + 1 /\ result \in Results /\ progress \in Seq(Entries)
  BY <1>0 DEF TInv, TypeOK, InStep
<1>2. entry \in Entries /\ entry.ep = Seed /\ entry.result = result
  BY <1>0, <1>1, SeedIs DEF Entries
<1>. HIDE DEF entry
<1>3. /\ built' \in Seq(Entries) /\ Len(built') = Len(built) + 1
      /\ Logged(built') /\ At(built', Len(built'), g', k')
      /\ g' \in 1 .. Len(Plan) + 1 /\ k' \in Nat \ {0}
  BY <1>0, <1>1, <1>2, WalkGoesOn
<1>4. progress' \in Seq(Entries)
  BY <1>0, <1>1, <1>2
<1>5. TypeOK'
  BY <1>0, <1>3, <1>4 DEF TInv, TypeOK
<1>6. InStep'
  BY <1>0, <1>1, <1>3 DEF InStep, Busy
<1>. QED  BY <1>5, <1>6 DEF TInv

LEMMA EndTInv == ASSUME NEW root \in Roots PROVE TInv /\ (WriteManifest(root) \/ Report) => TInv'
<1>. SUFFICES ASSUME TInv, WriteManifest(root) \/ Report  PROVE TInv'
  OBVIOUS
<1>0. /\ UNCHANGED <<progress, progressTorn, rows, rowsTorn, stored, g, k, occurrence, result, built,
                     crashes, appended>>
      /\ manifests' \in {manifests, manifests \cup {root}}
      /\ pc' = pc \/ pc' = "done"
  BY DEF WriteManifest, Report, process, files, ghosts
<1>1. TypeOK'
  BY <1>0 DEF TInv, TypeOK
<1>. QED  BY <1>0, <1>1, WalkStays DEF TInv

LEMMA CrashTInv == ASSUME NEW tears \in BOOLEAN PROVE TInv /\ Crash(tears) => TInv'
<1>. SUFFICES ASSUME TInv, Crash(tears)  PROVE TInv'
  OBVIOUS
<1>0. /\ crashes < MaxCrashes /\ crashes' = crashes + 1 /\ pc' = "down"
      /\ rowsTorn' = (rowsTorn \/ (tears /\ pc = "row"))
      /\ progressTorn' = (progressTorn \/ (tears /\ pc = "commit"))
      /\ UNCHANGED <<progress, rows, stored, manifests, g, k, occurrence, result, built, appended>>
  BY DEF Crash
<1>1. crashes' \in 0 .. MaxCrashes
  <2>1. MaxCrashes \in Nat
    BY BuildAssumption
  <2>2. crashes \in 0 .. MaxCrashes
    BY DEF TInv, TypeOK
  <2>. QED  BY <1>0, <2>1, <2>2
<1>2. rowsTorn' \in BOOLEAN /\ progressTorn' \in BOOLEAN
  BY <1>0 DEF TInv, TypeOK
<1>3. TypeOK'
  BY <1>0, <1>1, <1>2 DEF TInv, TypeOK
<1>. QED  BY <1>0, <1>3, WalkStays DEF TInv

LEMMA ResumeTInv == TInv /\ Resume => TInv'
<1>. SUFFICES ASSUME TInv, Resume  PROVE TInv'
  OBVIOUS
<1>0. /\ pc' = "clean two_sided" /\ g' = 1 /\ k' = 1 /\ occurrence' = 0 /\ result' = NoResult /\ built' = <<>>
      /\ UNCHANGED <<progress, progressTorn, rows, rowsTorn, stored, manifests, crashes, appended>>
  BY DEF Resume, files, ghosts
<1>1. g' \in 1 .. Len(Plan) + 1 /\ k' \in Nat \ {0} /\ occurrence' \in 0 .. Cardinality(Seeds)
  <2>1. Len(Plan) \in Nat /\ Cardinality(Seeds) \in Nat
    BY PlanIs, SeedsAreFinite
  <2>2. g' = 1 /\ k' = 1 /\ occurrence' = 0
    BY <1>0
  <2>3. 1 \in 1 .. Len(Plan) + 1 /\ 0 \in 0 .. Cardinality(Seeds)
    BY <2>1
  <2>. QED  BY <2>2, <2>3
<1>2. result' \in Results /\ built' \in Seq(Entries) /\ Len(built') = 0
  <2>1. result' \in Results
    BY <1>0, NoResultIsOne
  <2>2. built' = <<>>
    BY <1>0
  <2>3. built' \in Seq(Entries) /\ Len(built') = 0
    BY <2>2, EmptySeq
  <2>. QED  BY <2>1, <2>3
<1>3. TypeOK'
  BY <1>0, <1>1, <1>2 DEF TInv, TypeOK
<1>4. Logged(built')
  BY <1>2 DEF Logged
<1>5. InStep'
  BY <1>0, <1>4 DEF InStep, Busy
<1>. QED  BY <1>3, <1>5 DEF TInv

LEMMA CleanTInv == ASSUME NEW root \in Roots PROVE TInv /\ Clean(root) => TInv'
<1>. SUFFICES ASSUME TInv, Clean(root)  PROVE TInv'
  OBVIOUS
<1>0. /\ pc \in {"clean two_sided", "clean positive_only"}
      /\ pc' \in {"clean positive_only", "walk"}
      /\ stored' = [stored EXCEPT ![root] = RemoveUncommitted(root)]
      /\ UNCHANGED <<progress, progressTorn, rows, rowsTorn, manifests, g, k, occurrence, result, built,
                     crashes, appended>>
  BY DEF Clean, ghosts
<1>1. stored' \in [Roots -> SUBSET [id : Ids, admitted : BOOLEAN]]
  BY <1>0 DEF TInv, TypeOK, RemoveUncommitted
<1>2. TypeOK'
  BY <1>0, <1>1 DEF TInv, TypeOK
<1>3. built = <<>> /\ Len(built) = 0 /\ g = 1 /\ k = 1 /\ occurrence = 0
  BY <1>0 DEF TInv, InStep
<1>4. built' = <<>> /\ Len(built') = 0 /\ g' = 1 /\ k' = 1 /\ occurrence' = 0
  BY <1>0, <1>3
<1>5. Logged(built') /\ At(built', Len(built'), g', k')
  BY <1>4, AtFirst DEF Logged
<1>6. InStep'
  <2>. HIDE DEF At, Logged
  <2>. QED  BY <1>0, <1>4, <1>5 DEF InStep, Busy
<1>. QED  BY <1>2, <1>6 DEF TInv

LEMMA NextTInv == TInv /\ [Next]_vars => TInv'
<1>. SUFFICES ASSUME TInv, [Next]_vars  PROVE TInv'
  OBVIOUS
<1>1. CASE Step
  <2>1. ASSUME NEW r \in Results, RunEpisode(r)  PROVE TInv'
    BY <2>1, RunEpisodeTInv
  <2>2. ASSUME NEW root \in Roots, WriteManifest(root) \/ Clean(root)  PROVE TInv'
    BY <2>2, EndTInv, CleanTInv
  <2>3. CASE CopyProgram
    <3>1. result.admitted \in BOOLEAN
      BY ResultsAre DEF TInv, TypeOK
    <3>. QED  BY <2>3, <3>1, StoringTInv DEF CopyProgram, Roots, Busy
  <2>4. CASE StoreFirst
    BY <2>4, StoringTInv DEF StoreFirst, Roots, Busy
  <2>5. CASE Report
    BY <2>5, EndTInv DEF Roots
  <2>. QED  BY <1>1, <2>1, <2>2, <2>3, <2>4, <2>5, SkipTInv, AppendRowTInv, GateFirstTInv, CommitTInv
            DEF Step
<1>2. CASE Resume
  BY <1>2, ResumeTInv
<1>3. ASSUME NEW tears \in BOOLEAN, Crash(tears)  PROVE TInv'
  BY <1>3, CrashTInv
<1>4. CASE UNCHANGED vars
  <2>0. UNCHANGED <<progress, progressTorn, rows, rowsTorn, stored, manifests, pc, g, k, occurrence, result,
                    built, crashes, appended>>
    BY <1>4 DEF vars, files, process, ghosts
  <2>1. TypeOK'
    BY <2>0 DEF TInv, TypeOK
  <2>. QED  BY <2>0, <2>1, WalkStays DEF TInv
<1>. QED  BY <1>1, <1>2, <1>3, <1>4 DEF Next

(* The build's state keeps its type over any plan, interruptions that leave *)
(* half a line included; what the process has counted, the number its next  *)
(* program is stored under, never passes the number of seeds.               *)
THEOREM TypeCorrect == Spec => []TypeOK
<1>1. Init => TInv
  BY InitTInv
<1>2. TInv /\ [Next]_vars => TInv'
  BY NextTInv
<1>3. TInv => TypeOK
  BY DEF TInv
<1>. QED  BY <1>1, <1>2, <1>3, PTL DEF Spec

-----------------------------------------------------------------------------
(* The rows the ledger loses.  An append that meets half a line is lost, and *)
(* repairs the file: a torn line is a loss to come, and an interruption      *)
(* leaves at most one.                                                       *)

Readable == {rows[i] : i \in 1 .. Len(rows)}

Lost == appended \ Readable

LossInv ==
    /\ TInv
    /\ Cardinality(Lost) + (IF rowsTorn THEN 1 ELSE 0) <= crashes
    /\ CanTear = FALSE => ~rowsTorn /\ Lost = {}

LEMMA LostIsFinite == TypeOK => IsFiniteSet(Lost) /\ Cardinality(Lost) \in Nat
<1>. SUFFICES ASSUME TypeOK  PROVE IsFiniteSet(Lost) /\ Cardinality(Lost) \in Nat
  OBVIOUS
<1>1. Lost \subseteq Seeds
  BY DEF TypeOK, Lost
<1>2. IsFiniteSet(Lost)
  BY <1>1, SeedsAreFinite, FS_Subset
<1>. QED  BY <1>2, FS_CardinalityType

LEMMA LedgerTypes ==
    TypeOK => /\ rows \in Seq(Seeds) /\ rowsTorn \in BOOLEAN /\ crashes \in Nat
              /\ IsFiniteSet(Lost) /\ Cardinality(Lost) \in Nat
<1>1. MaxCrashes \in Nat
  BY BuildAssumption
<1>2. TypeOK => rows \in Seq(Seeds) /\ rowsTorn \in BOOLEAN /\ crashes \in 0 .. MaxCrashes
  BY DEF TypeOK
<1>. QED  BY <1>1, <1>2, LostIsFinite

(* Only an append and an interruption touch the rows or what is owed them.   *)
LEMMA AppendRowLoses ==
    ASSUME LossInv, AppendRow
    PROVE  /\ Cardinality(Lost') + (IF rowsTorn' THEN 1 ELSE 0) <= crashes'
           /\ CanTear = FALSE => ~rowsTorn' /\ Lost' = {}
<1>1. /\ rows' = IF rowsTorn THEN rows ELSE Append(rows, Seed)
      /\ rowsTorn' = FALSE /\ appended' = appended \cup {Seed} /\ crashes' = crashes
  BY DEF AppendRow
<1>2. rows \in Seq(Seeds) /\ rowsTorn \in BOOLEAN /\ crashes \in Nat
  BY LedgerTypes DEF LossInv, TInv
<1>3. IsFiniteSet(Lost) /\ Cardinality(Lost) \in Nat
  BY LedgerTypes DEF LossInv, TInv
<1>4. CASE rowsTorn
  <2>1. Lost' \subseteq Lost \cup {Seed}
    BY <1>1, <1>4 DEF Lost, Readable
  <2>2. IsFiniteSet(Lost \cup {Seed}) /\ Cardinality(Lost \cup {Seed}) <= Cardinality(Lost) + 1
    BY <1>3, FS_AddElement
  <2>3. Cardinality(Lost') <= Cardinality(Lost \cup {Seed})
    BY <2>1, <2>2, FS_Subset
  <2>4. Cardinality(Lost') \in Nat
    BY <2>1, <2>2, FS_Subset, FS_CardinalityType
  <2>5. Cardinality(Lost \cup {Seed}) \in Nat
    BY <2>2, FS_CardinalityType
  <2>. QED  BY <1>1, <1>2, <1>3, <1>4, <2>2, <2>3, <2>4, <2>5 DEF LossInv
<1>5. CASE ~rowsTorn
  <2>1. rows' = Append(rows, Seed) /\ Len(rows) \in Nat
    BY <1>1, <1>2, <1>5
  <2>2. /\ Len(rows') = Len(rows) + 1 /\ rows'[Len(rows) + 1] = Seed
        /\ \A i \in 1 .. Len(rows) : rows'[i] = rows[i]
    BY <1>2, <2>1
  <2>3. Readable \cup {Seed} \subseteq Readable'
    BY <2>1, <2>2 DEF Readable
  <2>4. Lost' \subseteq Lost
    BY <1>1, <2>3 DEF Lost
  <2>5. Cardinality(Lost') <= Cardinality(Lost)
    BY <1>3, <2>4, FS_Subset
  <2>6. Cardinality(Lost') \in Nat
    BY <1>3, <2>4, FS_Subset, FS_CardinalityType
  <2>. QED  BY <1>1, <1>2, <1>3, <1>5, <2>4, <2>5, <2>6 DEF LossInv
<1>. QED  BY <1>4, <1>5

LEMMA CrashLoses ==
    ASSUME NEW tears \in BOOLEAN, LossInv, Crash(tears)
    PROVE  /\ Cardinality(Lost') + (IF rowsTorn' THEN 1 ELSE 0) <= crashes'
           /\ CanTear = FALSE => ~rowsTorn' /\ Lost' = {}
<1>1. /\ rows' = rows /\ appended' = appended /\ crashes' = crashes + 1
      /\ rowsTorn' = (rowsTorn \/ (tears /\ pc = "row"))
      /\ tears => CanTear
  BY DEF Crash
<1>2. crashes \in Nat /\ rowsTorn \in BOOLEAN
  BY LedgerTypes DEF LossInv, TInv
<1>3. Lost' = Lost
  BY <1>1 DEF Lost, Readable
<1>4. Cardinality(Lost) \in Nat
  BY LedgerTypes DEF LossInv, TInv
<1>5. Cardinality(Lost) <= crashes
  BY <1>2, <1>4 DEF LossInv
<1>6. Cardinality(Lost) + (IF rowsTorn' THEN 1 ELSE 0) <= crashes + 1
  BY <1>4, <1>5, <1>2
<1>7. CanTear = FALSE => ~rowsTorn' /\ Lost' = {}
  BY <1>1, <1>3 DEF LossInv
<1>. QED  BY <1>1, <1>3, <1>6, <1>7

LEMMA NextLosesNoMore == LossInv /\ [Next]_vars => LossInv'
<1>. SUFFICES ASSUME LossInv, [Next]_vars  PROVE LossInv'
  OBVIOUS
<1>1. TInv' /\ TypeOK'
  BY NextTInv DEF LossInv, TInv
<1>2. CASE AppendRow
  BY <1>1, <1>2, AppendRowLoses DEF LossInv
<1>3. ASSUME NEW tears \in BOOLEAN, Crash(tears)  PROVE LossInv'
  BY <1>1, <1>3, CrashLoses DEF LossInv
<1>4. CASE UNCHANGED <<rows, rowsTorn, appended, crashes>>
  <2>1. Lost' = Lost
    BY <1>4 DEF Lost, Readable
  <2>. QED  BY <1>1, <1>4, <2>1 DEF LossInv
<1>5. CASE Step
  <2>1. ASSUME NEW r \in Results, RunEpisode(r)  PROVE UNCHANGED <<rows, rowsTorn, appended, crashes>>
    BY <2>1 DEF RunEpisode, files, ghosts
  <2>2. ASSUME NEW root \in Roots, WriteManifest(root) \/ Clean(root)
        PROVE  UNCHANGED <<rows, rowsTorn, appended, crashes>>
    BY <2>2 DEF WriteManifest, Clean, process, ghosts
  <2>3. Skip \/ Report => UNCHANGED <<rows, rowsTorn, appended, crashes>>
    BY DEF Skip, Report, files, ghosts
  <2>4. CopyProgram \/ StoreFirst \/ GateFirst \/ Commit => UNCHANGED <<rows, rowsTorn, appended, crashes>>
    BY DEF CopyProgram, StoreFirst, StoreOrRaise, GateFirst, Commit, ghosts
  <2>. QED  BY <1>2, <1>4, <1>5, <2>1, <2>2, <2>3, <2>4 DEF Step
<1>6. CASE Resume
  BY <1>4, <1>6 DEF Resume, files, ghosts
<1>7. CASE UNCHANGED vars
  BY <1>4, <1>7 DEF vars, files, ghosts
<1>. QED  BY <1>3, <1>5, <1>6, <1>7 DEF Next

LEMMA LossInvariance == Spec => []LossInv
<1>1. Init => LossInv
  <2>. SUFFICES ASSUME Init  PROVE LossInv
    OBVIOUS
  <2>1. Lost = {} /\ rowsTorn = FALSE /\ crashes = 0
    BY DEF Init, Lost
  <2>2. Cardinality(Lost) = 0
    BY <2>1, FS_EmptySet
  <2>. QED  BY <2>1, <2>2, InitTInv DEF LossInv
<1>. QED  BY <1>1, NextLosesNoMore, PTL DEF Spec

(* What ledger.append loses: of the episodes whose row was appended, the     *)
(* ledger misses at most one for each interruption of the build.             *)
THEOREM LossIsBounded == Spec => [](Cardinality(Lost) <= crashes)
<1>1. LossInv => Cardinality(Lost) <= crashes
  <2>. SUFFICES ASSUME LossInv  PROVE Cardinality(Lost) <= crashes
    OBVIOUS
  <2>1. Cardinality(Lost) \in Nat /\ crashes \in Nat
    BY LedgerTypes DEF LossInv, TInv
  <2>. QED  BY <2>1 DEF LossInv
<1>. QED  BY <1>1, LossInvariance, PTL

(* Half a line is the only way to lose one: where no interruption leaves it, *)
(* the ledger has every row that was appended.                               *)
THEOREM RowsKeptUntorn == ASSUME CanTear = FALSE PROVE Spec => []RowsKept
<1>1. LossInv => RowsKept
  BY DEF LossInv, Lost, Readable, RowsKept
<1>. QED  BY <1>1, LossInvariance, PTL

-----------------------------------------------------------------------------

(* copytree's and Library.add's refusal of an id that is there: no process  *)
(* of a build ever meets it, whatever the ones before it left in the roots. *)
THEOREM NeverCollidesHolds == ASSUME CanTear = FALSE PROVE Spec => []NeverCollides
<1>1. IInv => NeverCollides
  BY StoresAreFree DEF NeverCollides
<1>. QED  BY <1>1, Invariance, PTL

(* What a build spent is in its ledger before the episode counts as done.   *)
THEOREM CommittedIsPaidForHolds == ASSUME CanTear = FALSE PROVE Spec => []CommittedIsPaidFor
<1>1. IInv => CommittedIsPaidFor
  BY DEF IInv, Paid, HasRow, CommittedIsPaidFor, Committed, Entered
<1>. QED  BY <1>1, Invariance, PTL

(* A finished build's two libraries are what it reports, in both roots, and *)
(* its report has every episode of the plan.                                *)
THEOREM ContentsAreTheReportHolds == ASSUME CanTear = FALSE PROVE Spec => []ContentsAreTheReport
<1>1. IInv => ContentsAreTheReport
  <2>. SUFFICES ASSUME IInv, pc = "done"
                PROVE  /\ built = progress /\ Walked!Complete(built)
                       /\ \A root \in Roots : stored[root] = Reported(root)
    BY DEF ContentsAreTheReport
  <2>1. built = progress /\ \A h \in 1 .. Len(Plan) : ClosedIn(h, progress, Len(progress))
    BY DEF IInv, Placed
  <2>2. Walked!Complete(built)
    <3>. SUFFICES ASSUME NEW h \in 1 .. Len(Plan)  PROVE Walked!Closed(Plan[h], progress)
      BY <2>1 DEF Walked!Complete
    <3>1. \A e : e \in Walked!Ran(progress) <=> RanIn(e, progress, Len(progress))
      BY DEF Walked!Ran, RanIn
    <3>2. \A e : e \in Walked!Admitting(progress) <=> AdmittedIn(e, progress, Len(progress))
      BY DEF Walked!Admitting, AdmittedIn
    <3>3. \A e : e \in Walked!Seeds(Plan[h]) <=> \E j \in 1 .. Len(Plan[h]) : e = Plan[h][j]
      BY DEF Walked!Seeds
    <3>. QED  BY <2>1, <3>1, <3>2, <3>3 DEF ClosedIn, Walked!Closed
  <2>3. ASSUME NEW root \in Roots  PROVE stored[root] = Reported(root)
    <3>. DEFINE Of(i) == {[id |-> id, admitted |-> Verdict(root, built[i].result)]
                             : id \in InRoot(root, built[i].result)}
    <3>1. Reported(root) = UNION {Of(i) : i \in 1 .. Len(built)}
      BY DEF Reported
    <3>2. \A p : p \in Reported(root) <=> \E i \in 1 .. Len(built) : p \in Of(i)
      <4>. HIDE DEF Of
      <4>. QED  BY <3>1
    <3>3. \A i \in 1 .. Len(built) : built[i].result \in Results
      <4>1. built \in Seq(Entries)
        BY DEF IInv, Types
      <4>2. \A i \in 1 .. Len(built) : built[i] \in Entries
        BY <4>1
      <4>. QED  BY <4>2 DEF Entries
    <3>4. \A i \in 1 .. Len(built) : Of(i) \subseteq [id : Ids, admitted : BOOLEAN]
      BY <3>3, ResultsAre DEF Verdict
    <3>5. stored[root] \subseteq [id : Ids, admitted : BOOLEAN]
      BY DEF IInv, Types
    <3>6. \A p \in stored[root] : IsKept(root, p.id)
      BY DEF IInv, Beside, Only, Roots
    <3>7. ASSUME NEW p \in stored[root]  PROVE p \in Reported(root)
      <4>1. PICK i \in 1 .. Len(progress) : p.id \in InRoot(root, progress[i].result)
        BY <3>6 DEF IsKept
      <4>2. p \in [id : Ids, admitted : BOOLEAN] /\ p = [id |-> p.id, admitted |-> p.admitted]
        BY <3>5
      <4>3. p.admitted = Verdict(root, progress[i].result)
        BY <4>1, <4>2 DEF IInv, KeptAsReported
      <4>4. p \in Of(i)
        BY <2>1, <4>1, <4>2, <4>3
      <4>. QED  BY <2>1, <3>2, <4>4
    <3>8. ASSUME NEW p \in Reported(root)  PROVE p \in stored[root]
      <4>1. PICK i \in 1 .. Len(built) : p \in Of(i)
        BY <3>2
      <4>2. p \in [id : Ids, admitted : BOOLEAN]
        BY <3>4, <4>1
      <4>3. p.id \in InRoot(root, progress[i].result) /\ p.admitted = Verdict(root, progress[i].result)
        BY <2>1, <4>1
      <4>. QED  BY <2>1, <4>2, <4>3 DEF IInv, KeptAsReported
    <3>. QED  BY <3>7, <3>8
  <2>. QED  BY <2>1, <2>2, <2>3
<1>. QED  BY <1>1, Invariance, PTL

(* However often it is interrupted, a build's commits are those of one      *)
(* build that was not: build_library's order of resolutions and seeds, with *)
(* a fallback seed run exactly if no seed before it admitted.               *)
THEOREM CommitsFollowThePlanHolds == ASSUME CanTear = FALSE PROVE Spec => CommitsFollowThePlan
<1>1. Init => Log!Init
  BY DEF Init, Log!Init
<1>2. IInv /\ [Next]_vars => [Log!Next]_progress
  <2>. SUFFICES ASSUME IInv, [Next]_vars  PROVE Log!Next \/ progress' = progress
    OBVIOUS
  <2>1. CASE Commit
    <3>. DEFINE n == Len(progress)
    <3>0. /\ At(progress, n, g, k) /\ g <= Len(Plan) /\ n \in Nat /\ result \in Results
          /\ progress' = Append(progress, [ep |-> Plan[g][k], result |-> result])
      BY <2>1 DEF IInv, Placed, Types, Busy, Commit, Seed
    <3>1. g \in 1 .. Len(Plan) /\ k \in 1 .. Len(Plan[g]) /\ ~RanIn(Plan[g][k], progress, n)
          /\ ~ClosedIn(g, progress, n)
      BY <3>0, AtIsOpen
    <3>2. \A e : e \in Log!Ran(progress) <=> RanIn(e, progress, n)
      BY DEF Log!Ran, RanIn
    <3>3. \A e : e \in Log!Admitting(progress) <=> AdmittedIn(e, progress, n)
      BY DEF Log!Admitting, AdmittedIn
    <3>4. \A h \in 1 .. Len(Plan) : Log!Closed(Plan[h], progress) <=> ClosedIn(h, progress, n)
      <4>1. \A h \in 1 .. Len(Plan) : \A e :
                e \in Log!Seeds(Plan[h]) <=> \E j \in 1 .. Len(Plan[h]) : e = Plan[h][j]
        BY DEF Log!Seeds
      <4>. SUFFICES ASSUME NEW h \in 1 .. Len(Plan)
                    PROVE  Log!Closed(Plan[h], progress) <=> ClosedIn(h, progress, n)
        OBVIOUS
      <4>2. (Log!Seeds(Plan[h]) \cap Log!Admitting(progress) # {})
                <=> \E j \in 1 .. Len(Plan[h]) : AdmittedIn(Plan[h][j], progress, n)
        <5>1. \A e : e \in Log!Seeds(Plan[h]) \cap Log!Admitting(progress)
                  <=> (\E j \in 1 .. Len(Plan[h]) : e = Plan[h][j]) /\ AdmittedIn(e, progress, n)
          BY <3>3, <4>1
        <5>. QED  BY <5>1, Zenon
      <4>3. (Log!Seeds(Plan[h]) \subseteq Log!Ran(progress))
                <=> \A j \in 1 .. Len(Plan[h]) : RanIn(Plan[h][j], progress, n)
        <5>1. \A e : e \in Log!Seeds(Plan[h]) <=> \E j \in 1 .. Len(Plan[h]) : e = Plan[h][j]
          BY <4>1
        <5>2. Log!Seeds(Plan[h]) \subseteq Log!Ran(progress)
                  <=> \A e : e \in Log!Seeds(Plan[h]) => RanIn(e, progress, n)
          BY <3>2, Zenon
        <5>. QED  BY <5>1, <5>2, Zenon
      <4>. QED  BY <4>2, <4>3 DEF Log!Closed, ClosedIn
    <3>5. \A h \in 1 .. g - 1 : h \in 1 .. Len(Plan) /\ h < g
      BY <3>1, PlanIs
    <3>6. \A h \in 1 .. g - 1 : Log!Closed(Plan[h], progress)
      BY <3>0, <3>4, <3>5 DEF At
    <3>7. \A j \in 1 .. k - 1 : Plan[g][j] \in Log!Ran(progress)
      BY <3>0, <3>2 DEF At
    <3>8. Log!Due(Plan[g][k], progress)
      BY <3>1, <3>2, <3>4, <3>6, <3>7 DEF Log!Due
    <3>. QED  BY <3>0, <3>1, <3>8 DEF Log!Next
  <2>2. CASE UNCHANGED vars
    BY <2>2 DEF vars, files
  <2>3. CASE Resume \/ \E tears \in BOOLEAN : Crash(tears)
    BY <2>3 DEF Resume, Crash, files
  <2>4. CASE Step /\ ~Commit
    BY <2>4 DEF Step, Skip, RunEpisode, AppendRow, CopyProgram, StoreFirst, StoreOrRaise, GateFirst,
       WriteManifest, Clean, Report, files
  <2>. QED  BY <2>1, <2>2, <2>3, <2>4 DEF Next
<1>. QED  BY <1>1, <1>2, Invariance, PTL DEF Spec, CommitsFollowThePlan, Log!Spec

=============================================================================
