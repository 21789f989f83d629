---------------------------- MODULE MCContents_proofs --------------------------
(***************************************************************************)
(* The proofs of Generations, Documents and Partitions, and what they say  *)
(* of the machines that MCContents runs side by side: each takes only      *)
(* steps of its own module or none, so what is proved there holds here.    *)
(*                                                                         *)
(* Generations, for any names, bakes and crashes: the files have their     *)
(* types and material that was paid for is baked; where one request works  *)
(* beside the runs, what is served is never deleted under its reader; and  *)
(* where a collection has one other name to go to, the link resolves and   *)
(* the generation before can be gone back to.                              *)
(* Documents, for any titles, answers and modes: what was decided of a     *)
(* document holds, and an answer changes only what it is about.            *)
(* Partitions, for any titles, sweeps and targets: while no title comes    *)
(* before the first key, the list stays in the order of its keys and every *)
(* title has one partition; and if a list is cut anew only while its keys  *)
(* say what they hold, a mark is earned.                                   *)
(***************************************************************************)
EXTENDS MCContents, Lists_proofs, FiniteSetTheorems

\* What a run and what a request may be doing.
Bakes(t) == [at : {"none", "fetching", "building", "switching", "linking", "pruning"},
          date : 0..t, before : 0..t, old : SUBSET (1..t)]

Asked(t) == [job : {"none", "rollback", "delete", "rename"},
          at : {"none", "checked", "found", "unlinking", "copying", "moving", "removing",
                "undoing", "undoing link"},
          name : Names, to : Names, live : 0..t,
          gens : SUBSET (1..t), staged : SUBSET (1..t),
          made : SUBSET (1..t), moved : SUBSET (1..t)]

TypesInv ==
    /\ gens \in [Names -> SUBSET (1..today)]
    /\ link \in [Names -> 0..today]
    /\ staged \in [Names -> SUBSET (1..today)]
    /\ today \in 0..LAST /\ earlier \in 0..today /\ home \in Names /\ kept \in BOOLEAN
    /\ bake \in [Names -> Bakes(today)]
    /\ request \in [Requests -> Asked(today)]

\* Only the present name is baked; what a run has still to do says what it has done, and
\* no rollback or deletion of its name is on once its build is over.
RunInv(n) ==
    /\ bake[n] # F!NoBake => n = home
    /\ bake[n].at = "none" => bake[n] = F!NoBake
    /\ bake[n].at \in {"building", "switching", "linking", "pruning"} => bake[n].date # 0
    /\ bake[n].at \in {"switching", "linking", "pruning"} =>
          \A r \in Requests : request[r].job \in {"rollback", "delete"} => request[r].name # n
    /\ bake[n].at = "linking" => bake[n].before = link[n]
    /\ bake[n].at = "pruning" => link[n] = bake[n].date

BakeInv == \A n \in Names : RunInv(n)

\* At most one rename goes on, away from the present name, and no run beside it.
RenameInv ==
    /\ \A r \in Requests : request[r].job = "rename" =>
          request[r].name = home /\ request[r].to # home /\ \A n \in Names : bake[n] = F!NoBake
    /\ \A r, s \in Requests : request[r].job = "rename" /\ request[s].job = "rename" => r = s

Base == TypesInv /\ BakeInv /\ RenameInv

\* What a bake placed stays until it is closed, with what was served before it.
KeepsInv ==
    \A n \in Names :
        /\ bake[n].at \in {"linking", "pruning"} => bake[n].date \in gens[n]
        /\ bake[n].at = "pruning" => bake[n].date \notin bake[n].old /\ earlier \notin bake[n].old

\* What a rollback found is there still; what is served while a deletion goes on is the
\* present name, and not what is deleted.
RequestInv ==
    \A r \in Requests :
        /\ request[r].job = "rollback" /\ request[r].at = "found" =>
              request[r].live \in gens[request[r].name]
        /\ request[r].job = "delete" /\ kept => home # request[r].name /\ F!Resolves(home)
        /\ request[r].job = "delete" /\ earlier # 0 => kept /\ earlier \in gens[home]

\* Until the old link is taken away a rename leaves the old name as it was and makes
\* nothing under the new one but copies of it; then the new one is complete.
Moves(q) ==
    /\ q.at = "checked" => q.made = {}
    /\ q.at \in {"copying", "moving", "undoing", "undoing link"} =>
          /\ gens[q.name] = q.gens /\ link[q.name] = q.live
          /\ gens[q.to] \subseteq q.gens /\ link[q.to] \in {0, q.live}
          /\ q.live # 0 => q.live \in q.gens
    /\ q.at = "copying" => q.made \subseteq gens[q.to]
    /\ q.at = "moving" => q.gens \subseteq gens[q.to] /\ link[q.to] = q.live
    /\ q.at = "removing" =>
          /\ link[q.name] = 0 /\ link[q.to] = q.live
          /\ q.live # 0 => q.live \in gens[q.to]

MoveInv == \A r \in Requests : request[r].job = "rename" => Moves(request[r])

\* The app sends one such request after the other.
OneThread == \A r, s \in Requests : r = s

TwoNames == \A x, y, z \in Names : x = y \/ y = z \/ x = z

-----------------------------------------------------------------------------
\* The greatest and the least of a set of dates are in it.

LEMMA MinIn == ASSUME NEW S \in SUBSET Nat, S # {} PROVE F!Min(S) \in S
  <1>1. \E x \in S : \A y \in S : x <= y
    BY LeastOf
  <1> QED BY <1>1 DEF F!Min

LEMMA MaxIn == ASSUME NEW k \in Nat, NEW S \in SUBSET (1..k), S # {} PROVE F!Max(S) \in S
  <1> DEFINE T == {k - x : x \in S}
  <1>1. T \in SUBSET Nat /\ T # {}
    <2>1. \A x \in S : x \in Nat /\ k - x \in Nat
      OBVIOUS
    <2> QED BY <2>1
  <1>2. PICK t \in T : \A u \in T : t <= u
    <2> HIDE DEF T
    <2> QED BY <1>1, LeastOf
  <1>3. PICK x \in S : t = k - x
    BY <1>2
  <1>4. \A y \in S : k - x <= k - y
    BY <1>2, <1>3
  <1>5. \A y \in S : x >= y
    BY <1>4
  <1> QED BY <1>5 DEF F!Max

-----------------------------------------------------------------------------

BakeAts == {"none", "fetching", "building", "switching", "linking", "pruning"}

LEMMA BakeShape ==
    ASSUME NEW t \in Nat, NEW b \in Bakes(t)
    PROVE  /\ b.at \in BakeAts /\ b.date \in 0..t /\ b.before \in 0..t /\ b.old \in SUBSET (1..t)
           /\ \A a \in BakeAts : [b EXCEPT !.at = a] \in Bakes(t)
           /\ \A a \in BakeAts, d \in 0..t : [b EXCEPT !.at = a, !.date = d] \in Bakes(t)
           /\ \A a \in BakeAts, d \in 0..t : [b EXCEPT !.at = a, !.before = d] \in Bakes(t)
           /\ \A a \in BakeAts, O \in SUBSET (1..t) : [b EXCEPT !.at = a, !.old = O] \in Bakes(t)
           /\ \A O \in SUBSET (1..t) : [b EXCEPT !.old = O] \in Bakes(t)
           /\ F!NoBake \in Bakes(t)
  <1>1. /\ b.at \in BakeAts /\ b.date \in 0..t /\ b.before \in 0..t /\ b.old \in SUBSET (1..t)
           /\ \A a \in BakeAts : [b EXCEPT !.at = a] \in Bakes(t)
    BY DEF Bakes, BakeAts
  <1>2. \A a \in BakeAts, d \in 0..t : [b EXCEPT !.at = a, !.date = d] \in Bakes(t)
    BY DEF Bakes, BakeAts
  <1>3. \A a \in BakeAts, d \in 0..t : [b EXCEPT !.at = a, !.before = d] \in Bakes(t)
    BY DEF Bakes, BakeAts
  <1>4. \A a \in BakeAts, O \in SUBSET (1..t) : [b EXCEPT !.at = a, !.old = O] \in Bakes(t)
    BY DEF Bakes, BakeAts
  <1>5. \A O \in SUBSET (1..t) : [b EXCEPT !.old = O] \in Bakes(t)
    BY DEF Bakes, BakeAts
  <1>6. F!NoBake \in Bakes(t)
    BY DEF Bakes, BakeAts, F!NoBake
  <1> QED BY <1>1, <1>2, <1>3, <1>4, <1>5, <1>6

LEMMA LaterBakes == ASSUME NEW t \in Nat PROVE Bakes(t) \subseteq Bakes(t + 1)
  BY DEF Bakes

LEMMA LaterAsked == ASSUME NEW t \in Nat PROVE Asked(t) \subseteq Asked(t + 1)
  <1>1. \A x \in 0..t : x \in 0..t + 1
    OBVIOUS
  <1>2. \A O \in SUBSET (1..t) : O \in SUBSET (1..t + 1)
    OBVIOUS
  <1> QED BY <1>1, <1>2 DEF Asked

\* The changes of one run, of one request, that steps make: the result has its type.
BakeEdits(f, n, t) ==
    /\ \A a \in BakeAts : [f EXCEPT ![n].at = a] \in [Names -> Bakes(t)]
    /\ \A a \in BakeAts, d \in 0..t :
          [f EXCEPT ![n].at = a, ![n].date = d] \in [Names -> Bakes(t)]
    /\ \A a \in BakeAts, d \in 0..t :
          [f EXCEPT ![n].at = a, ![n].before = d] \in [Names -> Bakes(t)]
    /\ \A a \in BakeAts, O \in SUBSET (1..t) :
          [f EXCEPT ![n].at = a, ![n].old = O] \in [Names -> Bakes(t)]
    /\ \A O \in SUBSET (1..t) : [f EXCEPT ![n].old = O] \in [Names -> Bakes(t)]
    /\ [f EXCEPT ![n] = F!NoBake] \in [Names -> Bakes(t)]

LEMMA BakesTyped ==
    ASSUME NEW t \in Nat, NEW f \in [Names -> Bakes(t)], NEW n \in Names
    PROVE  BakeEdits(f, n, t)
  <1>0. f[n] \in Bakes(t)
    OBVIOUS
  <1>1. \A a \in BakeAts : [f EXCEPT ![n].at = a] \in [Names -> Bakes(t)]
    BY <1>0, BakeShape
  <1>2. \A a \in BakeAts, d \in 0..t :
           [f EXCEPT ![n].at = a, ![n].date = d] \in [Names -> Bakes(t)]
    BY <1>0, BakeShape
  <1>3. \A a \in BakeAts, d \in 0..t :
           [f EXCEPT ![n].at = a, ![n].before = d] \in [Names -> Bakes(t)]
    BY <1>0, BakeShape
  <1>4. \A a \in BakeAts, O \in SUBSET (1..t) :
           [f EXCEPT ![n].at = a, ![n].old = O] \in [Names -> Bakes(t)]
    BY <1>0, BakeShape
  <1>5. \A O \in SUBSET (1..t) : [f EXCEPT ![n].old = O] \in [Names -> Bakes(t)]
    BY <1>0, BakeShape
  <1>6. [f EXCEPT ![n] = F!NoBake] \in [Names -> Bakes(t)]
    BY <1>0, BakeShape
  <1> QED BY <1>1, <1>2, <1>3, <1>4, <1>5, <1>6 DEF BakeEdits

AskedAts == {"none", "checked", "found", "unlinking", "copying", "moving", "removing",
             "undoing", "undoing link"}

Jobs == {"none", "rollback", "delete", "rename"}

LEMMA AskedShape ==
    ASSUME NEW t \in Nat, NEW q \in Asked(t)
    PROVE  /\ q.job \in Jobs /\ q.at \in AskedAts /\ q.name \in Names /\ q.to \in Names
           /\ q.live \in 0..t /\ q.gens \in SUBSET (1..t) /\ q.staged \in SUBSET (1..t)
           /\ q.made \in SUBSET (1..t) /\ q.moved \in SUBSET (1..t)
  BY DEF Asked, AskedAts, Jobs

RequestEdits(f, r, t) ==
    /\ \A a \in AskedAts : [f EXCEPT ![r].at = a] \in [Requests -> Asked(t)]
    /\ \A a \in AskedAts, d \in 0..t :
          [f EXCEPT ![r].at = a, ![r].live = d] \in [Requests -> Asked(t)]
    /\ \A a \in AskedAts, d \in 0..t, G, H \in SUBSET (1..t) :
          [f EXCEPT ![r].at = a, ![r].live = d, ![r].gens = G, ![r].staged = H]
             \in [Requests -> Asked(t)]
    /\ \A d \in 0..t : [f EXCEPT ![r].live = d] \in [Requests -> Asked(t)]
    /\ \A G \in SUBSET (1..t) : [f EXCEPT ![r].gens = G] \in [Requests -> Asked(t)]
    /\ \A G \in SUBSET (1..t) : [f EXCEPT ![r].staged = G] \in [Requests -> Asked(t)]
    /\ \A G \in SUBSET (1..t) : [f EXCEPT ![r].made = G] \in [Requests -> Asked(t)]
    /\ \A G \in SUBSET (1..t) : [f EXCEPT ![r].moved = G] \in [Requests -> Asked(t)]
    /\ \A G, H \in SUBSET (1..t) :
          [f EXCEPT ![r].staged = G, ![r].moved = H] \in [Requests -> Asked(t)]
    /\ [f EXCEPT ![r] = F!NoRequest] \in [Requests -> Asked(t)]
    /\ \A job \in Jobs, n, m \in Names :
          [f EXCEPT ![r] = [F!NoRequest EXCEPT !.job = job, !.at = "checked", !.name = n, !.to = m]]
             \in [Requests -> Asked(t)]

LEMMA AskedTyped ==
    ASSUME NEW t \in Nat, NEW f \in [Requests -> Asked(t)], NEW r \in Requests,
           FirstName \in Names
    PROVE  RequestEdits(f, r, t)
  <1>0. f[r] \in Asked(t)
    OBVIOUS
  <1>1. \A a \in AskedAts :
           [f EXCEPT ![r].at = a] \in [Requests -> Asked(t)]
    <2>1. \A a \in AskedAts : [f[r] EXCEPT !.at = a] \in Asked(t)
      BY <1>0 DEF Asked, AskedAts
    <2> QED BY <1>0, <2>1
  <1>2. \A a \in AskedAts, d \in 0..t :
           [f EXCEPT ![r].at = a, ![r].live = d] \in [Requests -> Asked(t)]
    <2>1. \A a \in AskedAts, d \in 0..t : [f[r] EXCEPT !.at = a, !.live = d] \in Asked(t)
      BY <1>0 DEF Asked, AskedAts
    <2> QED BY <1>0, <2>1
  <1>3. ASSUME NEW a \in AskedAts, NEW d \in 0..t, NEW G \in SUBSET (1..t), NEW H \in SUBSET (1..t)
        PROVE  [f EXCEPT ![r].at = a, ![r].live = d, ![r].gens = G, ![r].staged = H]
                  \in [Requests -> Asked(t)]
    <2> DEFINE q == [f[r] EXCEPT !.at = a, !.live = d, !.gens = G, !.staged = H]
    <2>1. q \in Asked(t)
      BY <1>0 DEF Asked, AskedAts
    <2>2. [f EXCEPT ![r].at = a, ![r].live = d, ![r].gens = G, ![r].staged = H]
             = [f EXCEPT ![r] = q]
      <3>1. \A s \in Requests : s # r => [f EXCEPT ![r].at = a, ![r].live = d, ![r].gens = G, ![r].staged = H][s] = f[s]
        OBVIOUS
      <3>2. [f EXCEPT ![r].at = a, ![r].live = d, ![r].gens = G, ![r].staged = H][r] = q
        OBVIOUS
      <3> QED BY <3>1, <3>2
    <2> HIDE DEF q
    <2> QED BY <1>0, <2>1, <2>2
  <1>4. \A d \in 0..t :
           [f EXCEPT ![r].live = d] \in [Requests -> Asked(t)]
    <2>1. \A d \in 0..t : [f[r] EXCEPT !.live = d] \in Asked(t)
      BY <1>0 DEF Asked, AskedAts
    <2> QED BY <1>0, <2>1
  <1>5. \A G \in SUBSET (1..t) :
           [f EXCEPT ![r].gens = G] \in [Requests -> Asked(t)]
    <2>1. \A G \in SUBSET (1..t) : [f[r] EXCEPT !.gens = G] \in Asked(t)
      BY <1>0 DEF Asked, AskedAts
    <2> QED BY <1>0, <2>1
  <1>6. \A G \in SUBSET (1..t) :
           [f EXCEPT ![r].staged = G] \in [Requests -> Asked(t)]
    <2>1. \A G \in SUBSET (1..t) : [f[r] EXCEPT !.staged = G] \in Asked(t)
      BY <1>0 DEF Asked, AskedAts
    <2> QED BY <1>0, <2>1
  <1>7. \A G \in SUBSET (1..t) :
           [f EXCEPT ![r].made = G] \in [Requests -> Asked(t)]
    <2>1. \A G \in SUBSET (1..t) : [f[r] EXCEPT !.made = G] \in Asked(t)
      BY <1>0 DEF Asked, AskedAts
    <2> QED BY <1>0, <2>1
  <1>8. \A G \in SUBSET (1..t) :
           [f EXCEPT ![r].moved = G] \in [Requests -> Asked(t)]
    <2>1. \A G \in SUBSET (1..t) : [f[r] EXCEPT !.moved = G] \in Asked(t)
      BY <1>0 DEF Asked, AskedAts
    <2> QED BY <1>0, <2>1
  <1>9. \A G, H \in SUBSET (1..t) :
           [f EXCEPT ![r].staged = G, ![r].moved = H] \in [Requests -> Asked(t)]
    <2>1. \A G, H \in SUBSET (1..t) : [f[r] EXCEPT !.staged = G, !.moved = H] \in Asked(t)
      BY <1>0 DEF Asked, AskedAts
    <2> QED BY <1>0, <2>1
  <1>10. F!NoRequest \in Asked(t)
    <2>1. 0 \in 0..t /\ {} \in SUBSET (1..t)
      OBVIOUS
    <2> QED BY <2>1 DEF F!NoRequest, Asked
  <1>11. \A job \in Jobs, n, m \in Names :
            [F!NoRequest EXCEPT !.job = job, !.at = "checked", !.name = n, !.to = m] \in Asked(t)
    BY <1>10 DEF Asked, Jobs
  <1>12. [f EXCEPT ![r] = F!NoRequest] \in [Requests -> Asked(t)]
    BY <1>10
  <1>13. \A job \in Jobs, n, m \in Names :
          [f EXCEPT ![r] = [F!NoRequest EXCEPT !.job = job, !.at = "checked", !.name = n, !.to = m]]
             \in [Requests -> Asked(t)]
    BY <1>11
  <1> QED BY <1>1, <1>2, <1>3, <1>4, <1>5, <1>6, <1>7, <1>8, <1>9, <1>12, <1>13 DEF RequestEdits

LEMMA InitBase == ASSUME F!GenerationsAssumption, F!Init PROVE Base
  <1>0. FirstName \in Names /\ LAST \in Nat /\ today = 0
    BY DEF F!GenerationsAssumption, F!Init
  <1>1. F!NoBake \in Bakes(0) /\ F!NoRequest \in Asked(0)
    BY <1>0 DEF F!NoBake, F!NoRequest, Bakes, Asked
  <1>2. gens \in [Names -> SUBSET (1..0)] /\ staged \in [Names -> SUBSET (1..0)]
    BY DEF F!Init
  <1>3. link \in [Names -> 0..0]
    BY DEF F!Init
  <1>4. bake \in [Names -> Bakes(0)] /\ request \in [Requests -> Asked(0)]
    BY <1>1 DEF F!Init
  <1>5. earlier = 0 /\ home \in Names /\ kept = FALSE
    BY <1>0 DEF F!Init
  <1>6. TypesInv
    <2> USE <1>0, <1>2, <1>3, <1>4, <1>5
    <2>1. LAST \in Nat /\ today \in 0..LAST /\ earlier \in 0..today
      OBVIOUS
    <2>2. gens \in [Names -> SUBSET (1..today)] /\ staged \in [Names -> SUBSET (1..today)]
      OBVIOUS
    <2>3. link \in [Names -> 0..today]
      OBVIOUS
    <2>4. bake \in [Names -> Bakes(today)] /\ request \in [Requests -> Asked(today)]
      OBVIOUS
    <2> QED BY <2>1, <2>2, <2>3, <2>4 DEF TypesInv
  <1>7. BakeInv /\ RenameInv
    BY DEF F!Init, BakeInv, RunInv, RenameInv, F!NoBake, F!NoRequest
  <1> QED BY <1>6, <1>7 DEF Base

LEMMA NextTypes == ASSUME F!GenerationsAssumption, Base, [F!Next]_F!vars PROVE TypesInv'
  <1>0. TypesInv /\ LAST \in Nat /\ FirstName \in Names /\ today \in Nat
    BY DEF Base, F!GenerationsAssumption, TypesInv
  <1>t. /\ \A n \in Names : gens[n] \in SUBSET (1..today) /\ staged[n] \in SUBSET (1..today)
        /\ \A n \in Names : link[n] \in 0..today /\ bake[n] \in Bakes(today)
    BY <1>0 DEF TypesInv
  <1>d. \A n \in Names : bake[n].date \in 0..today /\ bake[n].before \in 0..today
                         /\ bake[n].old \in SUBSET (1..today)
    BY <1>0, <1>t, BakeShape
  <1>f. ASSUME NEW n \in Names, F!Fetch(n) PROVE TypesInv'
    <2>1. CASE staged[n] # {}
      <3>1. F!Max(staged[n]) \in staged[n]
        BY <2>1, <1>0, <1>t, MaxIn
      <3>2. F!Max(staged[n]) \in 0..today
        BY <3>1, <1>t
      <3>3. BakeEdits(bake, n, today)
        BY <1>0, BakesTyped DEF TypesInv
      <3>4. bake' \in [Names -> Bakes(today)]
        <4> DEFINE d == F!Max(staged[n])
        <4>1. bake' = [bake EXCEPT ![n].at = "building", ![n].date = d]
          BY <2>1, <1>f DEF F!Fetch
        <4> HIDE DEF d
        <4>2. d \in 0..today
          BY <3>2 DEF d
        <4> QED BY <3>3, <4>1, <4>2 DEF BakeEdits, BakeAts
      <3> QED BY <3>4, <2>1, <1>f, <1>0 DEF F!Fetch, TypesInv
    <2>2. CASE staged[n] = {}
      <3>1. today' = today + 1 /\ today' \in 0..LAST
        BY <2>2, <1>f, <1>0 DEF F!Fetch, TypesInv
      <3>2. bake \in [Names -> Bakes(today + 1)] /\ request \in [Requests -> Asked(today + 1)]
        BY <1>0, LaterBakes, LaterAsked DEF TypesInv
      <3>7. today + 1 \in Nat /\ today + 1 \in 0..today + 1
        BY <1>0
      <3>8. BakeEdits(bake, n, today + 1)
        BY <3>2, <3>7, BakesTyped
      <3>3. bake' \in [Names -> Bakes(today + 1)]
        <4> DEFINE d == today + 1
        <4>1. bake' = [bake EXCEPT ![n].at = "building", ![n].date = d]
          BY <3>1, <2>2, <1>f DEF F!Fetch
        <4>2. BakeEdits(bake, n, d) /\ d \in 0..d
          BY <3>7, <3>8
        <4> HIDE DEF d
        <4>3. bake' \in [Names -> Bakes(d)]
          BY <4>1, <4>2 DEF BakeEdits, BakeAts
        <4> QED BY <4>3 DEF d
      <3>4. staged' \in [Names -> SUBSET (1..today + 1)]
        BY <2>2, <1>f, <1>0 DEF F!Fetch, TypesInv
      <3>5. gens \in [Names -> SUBSET (1..today + 1)] /\ link \in [Names -> 0..today + 1]
        BY <1>0 DEF TypesInv
      <3>6. earlier \in 0..today + 1
        BY <1>0 DEF TypesInv
      <3> QED BY <3>1, <3>2, <3>3, <3>4, <3>5, <3>6, <2>2, <1>f, <1>0 DEF F!Fetch, TypesInv
    <2> QED BY <2>1, <2>2
  <1>b. ASSUME NEW n \in Names, F!BakeStep(n) PROVE TypesInv'
    <2>e. BakeEdits(bake, n, today)
      BY <1>0, BakesTyped DEF TypesInv
    <2>0. CASE F!Fetch(n)
      BY <2>0, <1>f
    <2>1. CASE F!Start(n)
      <3>1. today' = today /\ bake' \in [Names -> Bakes(today)]
        BY <2>1, <2>e, <1>t, <1>d DEF F!Start, F!Baking, BakeAts, BakeEdits
      <3>2. gens' \in [Names -> SUBSET (1..today)] /\ staged' \in [Names -> SUBSET (1..today)]
        BY <2>1, <1>0, <1>t, <1>d DEF F!Start, F!files, TypesInv
      <3>3. link' \in [Names -> 0..today] /\ earlier' \in 0..today /\ kept' \in BOOLEAN
        BY <2>1, <1>0, <1>t, <1>d DEF F!Start, F!files, TypesInv
      <3> QED BY <3>1, <3>2, <3>3, <2>1, <1>0 DEF F!Start, TypesInv
    <2>2. CASE F!FetchFails(n)
      <3>1. today' = today /\ bake' \in [Names -> Bakes(today)]
        BY <2>2, <2>e, <1>t, <1>d DEF F!FetchFails, F!Baking, BakeAts, BakeEdits
      <3>2. gens' \in [Names -> SUBSET (1..today)] /\ staged' \in [Names -> SUBSET (1..today)]
        BY <2>2, <1>0, <1>t, <1>d DEF F!FetchFails, F!files, TypesInv
      <3>3. link' \in [Names -> 0..today] /\ earlier' \in 0..today /\ kept' \in BOOLEAN
        BY <2>2, <1>0, <1>t, <1>d DEF F!FetchFails, F!files, TypesInv
      <3> QED BY <3>1, <3>2, <3>3, <2>2, <1>0 DEF F!FetchFails, TypesInv
    <2>3. CASE F!Build(n)
      <3>1. today' = today /\ bake' \in [Names -> Bakes(today)]
        BY <2>3, <2>e, <1>t, <1>d DEF F!Build, F!Baking, BakeAts, BakeEdits
      <3>2. gens' \in [Names -> SUBSET (1..today)] /\ staged' \in [Names -> SUBSET (1..today)]
        BY <2>3, <1>0, <1>t, <1>d DEF F!Build, F!files, TypesInv
      <3>3. link' \in [Names -> 0..today] /\ earlier' \in 0..today /\ kept' \in BOOLEAN
        BY <2>3, <1>0, <1>t, <1>d DEF F!Build, F!files, TypesInv
      <3> QED BY <3>1, <3>2, <3>3, <2>3, <1>0 DEF F!Build, TypesInv
    <2>4. CASE F!StopBuild(n)
      <3>1. today' = today /\ bake' \in [Names -> Bakes(today)]
        BY <2>4, <2>e, <1>t, <1>d DEF F!StopBuild, F!Baking, BakeAts, BakeEdits
      <3>2. gens' \in [Names -> SUBSET (1..today)] /\ staged' \in [Names -> SUBSET (1..today)]
        BY <2>4, <1>0, <1>t, <1>d DEF F!StopBuild, F!files, TypesInv
      <3>3. link' \in [Names -> 0..today] /\ earlier' \in 0..today /\ kept' \in BOOLEAN
        BY <2>4, <1>0, <1>t, <1>d DEF F!StopBuild, F!files, TypesInv
      <3> QED BY <3>1, <3>2, <3>3, <2>4, <1>0 DEF F!StopBuild, TypesInv
    <2>5. CASE F!BreakBuild(n)
      <3>1. today' = today /\ bake' \in [Names -> Bakes(today)]
        BY <2>5, <2>e, <1>t, <1>d DEF F!BreakBuild, F!Baking, BakeAts, BakeEdits
      <3>2. gens' \in [Names -> SUBSET (1..today)] /\ staged' \in [Names -> SUBSET (1..today)]
        BY <2>5, <1>0, <1>t, <1>d DEF F!BreakBuild, F!files, TypesInv
      <3>3. link' \in [Names -> 0..today] /\ earlier' \in 0..today /\ kept' \in BOOLEAN
        BY <2>5, <1>0, <1>t, <1>d DEF F!BreakBuild, F!files, TypesInv
      <3> QED BY <3>1, <3>2, <3>3, <2>5, <1>0 DEF F!BreakBuild, TypesInv
    <2>6. CASE F!Place(n)
      <3>1. today' = today /\ bake' \in [Names -> Bakes(today)]
        BY <2>6, <2>e, <1>t, <1>d DEF F!Place, F!Baking, BakeAts, BakeEdits
      <3>2. gens' \in [Names -> SUBSET (1..today)] /\ staged' \in [Names -> SUBSET (1..today)]
        <4>1. bake[n].date \in 1..today
          BY <2>6, <1>0, <1>d DEF F!Place, Base, BakeInv, RunInv
        <4> QED BY <4>1, <2>6, <1>0, <1>t DEF F!Place, TypesInv
      <3>3. link' \in [Names -> 0..today] /\ earlier' \in 0..today /\ kept' \in BOOLEAN
        BY <2>6, <1>0, <1>t, <1>d DEF F!Place, F!files, TypesInv
      <3> QED BY <3>1, <3>2, <3>3, <2>6, <1>0 DEF F!Place, TypesInv
    <2>7. CASE F!Link(n)
      <3>1. today' = today /\ bake' \in [Names -> Bakes(today)]
        BY <2>7, <2>e, <1>t, <1>d DEF F!Link, F!Baking, BakeAts, BakeEdits
      <3>2. gens' \in [Names -> SUBSET (1..today)] /\ staged' \in [Names -> SUBSET (1..today)]
        BY <2>7, <1>0, <1>t, <1>d DEF F!Link, F!files, TypesInv
      <3>3. link' \in [Names -> 0..today] /\ earlier' \in 0..today /\ kept' \in BOOLEAN
        BY <2>7, <1>0, <1>t, <1>d DEF F!Link, F!files, TypesInv
      <3> QED BY <3>1, <3>2, <3>3, <2>7, <1>0 DEF F!Link, TypesInv
    <2>8. CASE F!Prune(n)
      <3>1. today' = today /\ bake' \in [Names -> Bakes(today)]
        <4>1. PICK d \in bake[n].old : bake' = [bake EXCEPT ![n].old = @ \ {d}]
          BY <2>8 DEF F!Prune
        <4>2. bake[n].old \ {d} \in SUBSET (1..today)
          BY <1>d
        <4>3. bake' = [bake EXCEPT ![n].old = bake[n].old \ {d}]
          BY <4>1
        <4>4. bake' \in [Names -> Bakes(today)]
          BY <4>2, <4>3, <2>e DEF BakeEdits
        <4> QED BY <4>4, <2>8 DEF F!Prune
      <3>2. gens' \in [Names -> SUBSET (1..today)] /\ staged' \in [Names -> SUBSET (1..today)]
        BY <2>8, <1>0, <1>t, <1>d DEF F!Prune, F!files, TypesInv
      <3>3. link' \in [Names -> 0..today] /\ earlier' \in 0..today /\ kept' \in BOOLEAN
        BY <2>8, <1>0, <1>t, <1>d DEF F!Prune, F!files, TypesInv
      <3> QED BY <3>1, <3>2, <3>3, <2>8, <1>0 DEF F!Prune, TypesInv
    <2>9. CASE F!Close(n)
      <3>1. today' = today /\ bake' \in [Names -> Bakes(today)]
        BY <2>9, <2>e, <1>t, <1>d DEF F!Close, F!Baking, BakeAts, BakeEdits
      <3>2. gens' \in [Names -> SUBSET (1..today)] /\ staged' \in [Names -> SUBSET (1..today)]
        BY <2>9, <1>0, <1>t, <1>d DEF F!Close, F!files, TypesInv
      <3>3. link' \in [Names -> 0..today] /\ earlier' \in 0..today /\ kept' \in BOOLEAN
        BY <2>9, <1>0, <1>t, <1>d DEF F!Close, F!files, TypesInv
      <3> QED BY <3>1, <3>2, <3>3, <2>9, <1>0 DEF F!Close, TypesInv
    <2> QED BY <1>b, <2>0, <2>1, <2>2, <2>3, <2>4, <2>5, <2>6, <2>7, <2>8, <2>9 DEF F!BakeStep
  <1>r. ASSUME NEW r \in Requests, F!RequestStep(r) PROVE TypesInv'
    <2>q. /\ request[r] \in Asked(today) /\ request[r].name \in Names /\ request[r].to \in Names
          /\ request[r].live \in 0..today /\ request[r].gens \in SUBSET (1..today)
          /\ request[r].staged \in SUBSET (1..today) /\ request[r].made \in SUBSET (1..today)
          /\ request[r].moved \in SUBSET (1..today)
      BY <1>0, AskedShape DEF TypesInv
    <2>e. RequestEdits(request, r, today)
      BY <1>0, AskedTyped DEF TypesInv
    <2>a. F!Answer(r) => request' \in [Requests -> Asked(today)]
      BY <2>e DEF F!Answer, RequestEdits
    <2>1. CASE \E n \in Names : F!RollBack(r, n) \/ F!Delete(r, n) \/ \E m \in Names : F!Rename(r, n, m)
      <3>1. request' \in [Requests -> Asked(today)]
        <4>1. PICK job \in Jobs, n \in Names, m \in Names : F!Accept(r, job, n, m)
          BY <2>1 DEF F!RollBack, F!Delete, F!Rename, Jobs
        <4> QED BY <4>1, <2>e DEF F!Accept, RequestEdits
      <3>2. UNCHANGED <<F!files, bake, today, home>> /\ earlier' \in 0..today /\ kept' \in BOOLEAN
        <4>1. UNCHANGED <<F!files, bake, today, home>>
          BY <2>1 DEF F!RollBack, F!Delete, F!Rename
        <4>2. earlier' \in {earlier, 0} /\ kept' \in {kept, FALSE}
          BY <2>1 DEF F!RollBack, F!Delete, F!Rename
        <4>3. earlier' \in 0..today
          <5>1. 0 \in 0..today /\ earlier \in 0..today
            BY <1>0 DEF TypesInv
          <5> QED BY <5>1, <4>2
        <4>4. kept' \in BOOLEAN
          BY <4>2, <1>0 DEF TypesInv
        <4> QED BY <4>1, <4>3, <4>4
      <3> QED BY <3>1, <3>2, <1>0 DEF F!files, TypesInv
    <2>2. CASE F!FindEarlier(r)
      <3>1. request' \in [Requests -> Asked(today)]
        <4> DEFINE others == gens[request[r].name] \ {link[request[r].name]}
                   d == F!Max(others)
        <4>1. \/ F!Answer(r)
              \/ others # {} /\ request' = [request EXCEPT ![r].at = "found", ![r].live = d]
          BY <2>2 DEF F!FindEarlier
        <4>2. others \in SUBSET (1..today)
          BY <2>q, <1>t
        <4> HIDE DEF others
        <4>3. ASSUME others # {} PROVE d \in 0..today
          <5>1. F!Max(others) \in others
            BY <4>2, <4>3, <1>0, MaxIn
          <5>2. d \in 1..today
            BY <5>1, <4>2
          <5> HIDE DEF d
          <5> QED BY <5>2, <1>0
        <4> HIDE DEF d
        <4>4. \A c \in 0..today :
                 [request EXCEPT ![r].at = "found", ![r].live = c] \in [Requests -> Asked(today)]
          BY <2>e DEF RequestEdits, AskedAts
        <4> QED BY <4>1, <4>3, <4>4, <2>a
      <3>2. gens' \in [Names -> SUBSET (1..today)] /\ staged' \in [Names -> SUBSET (1..today)]
        BY <2>2, <2>q, <1>0, <1>t DEF F!FindEarlier, F!files, TypesInv
      <3>3. link' \in [Names -> 0..today] /\ home' \in Names
        BY <2>2, <2>q, <1>0, <1>t DEF F!FindEarlier, F!files, TypesInv
      <3> QED BY <3>1, <3>2, <3>3, <2>2, <1>0 DEF F!FindEarlier, TypesInv
    <2>3. CASE F!PointBack(r)
      <3>1. request' \in [Requests -> Asked(today)]
        BY <2>3, <2>e, <2>q, <1>t DEF F!PointBack, F!Answer, F!Step, AskedAts, RequestEdits
      <3>2. gens' \in [Names -> SUBSET (1..today)] /\ staged' \in [Names -> SUBSET (1..today)]
        BY <2>3, <2>q, <1>0, <1>t DEF F!PointBack, F!files, TypesInv
      <3>3. link' \in [Names -> 0..today] /\ home' \in Names
        BY <2>3, <2>q, <1>0, <1>t DEF F!PointBack, F!files, TypesInv
      <3> QED BY <3>1, <3>2, <3>3, <2>3, <1>0 DEF F!PointBack, TypesInv
    <2>4. CASE F!ListToDelete(r)
      <3>1. request' \in [Requests -> Asked(today)]
        BY <2>4, <2>e, <2>q, <1>t DEF F!ListToDelete, F!Answer, F!Step, AskedAts, RequestEdits
      <3>2. gens' \in [Names -> SUBSET (1..today)] /\ staged' \in [Names -> SUBSET (1..today)]
        BY <2>4, <2>q, <1>0, <1>t DEF F!ListToDelete, F!files, TypesInv
      <3>3. link' \in [Names -> 0..today] /\ home' \in Names
        BY <2>4, <2>q, <1>0, <1>t DEF F!ListToDelete, F!files, TypesInv
      <3> QED BY <3>1, <3>2, <3>3, <2>4, <1>0 DEF F!ListToDelete, TypesInv
    <2>5. CASE F!UnlinkLink(r)
      <3>1. request' \in [Requests -> Asked(today)]
        <4>1. 0 \in 0..today /\ request' = [request EXCEPT ![r].live = 0]
          BY <2>5, <1>0 DEF F!UnlinkLink
        <4> QED BY <4>1, <2>e DEF RequestEdits
      <3>2. gens' \in [Names -> SUBSET (1..today)] /\ staged' \in [Names -> SUBSET (1..today)]
        BY <2>5, <2>q, <1>0, <1>t DEF F!UnlinkLink, F!files, TypesInv
      <3>3. link' \in [Names -> 0..today] /\ home' \in Names
        BY <2>5, <2>q, <1>0, <1>t DEF F!UnlinkLink, F!files, TypesInv
      <3> QED BY <3>1, <3>2, <3>3, <2>5, <1>0 DEF F!UnlinkLink, TypesInv
    <2>6. CASE F!UnlinkGeneration(r)
      <3>1. request' \in [Requests -> Asked(today)]
        <4>1. PICK d : request' = [request EXCEPT ![r].gens = request[r].gens \ {d}]
          BY <2>6 DEF F!UnlinkGeneration
        <4>2. request[r].gens \ {d} \in SUBSET (1..today)
          BY <2>q
        <4> QED BY <4>1, <4>2, <2>e DEF RequestEdits
      <3>2. gens' \in [Names -> SUBSET (1..today)] /\ staged' \in [Names -> SUBSET (1..today)]
        BY <2>6, <2>q, <1>0, <1>t DEF F!UnlinkGeneration, F!files, TypesInv
      <3>3. link' \in [Names -> 0..today] /\ home' \in Names
        BY <2>6, <2>q, <1>0, <1>t DEF F!UnlinkGeneration, F!files, TypesInv
      <3> QED BY <3>1, <3>2, <3>3, <2>6, <1>0 DEF F!UnlinkGeneration, TypesInv
    <2>7. CASE F!UnlinkMaterial(r)
      <3>1. request' \in [Requests -> Asked(today)]
        <4>1. \/ \E d : request' = [request EXCEPT ![r].staged = request[r].staged \ {d}]
              \/ F!Answer(r)
          BY <2>7 DEF F!UnlinkMaterial
        <4>2. \A d : request[r].staged \ {d} \in SUBSET (1..today)
          BY <2>q
        <4>3. \A G \in SUBSET (1..today) :
                 [request EXCEPT ![r].staged = G] \in [Requests -> Asked(today)]
          BY <2>e DEF RequestEdits
        <4> QED BY <4>1, <4>2, <4>3, <2>a
      <3>2. gens' \in [Names -> SUBSET (1..today)] /\ staged' \in [Names -> SUBSET (1..today)]
        BY <2>7, <2>q, <1>0, <1>t DEF F!UnlinkMaterial, F!files, TypesInv
      <3>3. link' \in [Names -> 0..today] /\ home' \in Names
        BY <2>7, <2>q, <1>0, <1>t DEF F!UnlinkMaterial, F!files, TypesInv
      <3> QED BY <3>1, <3>2, <3>3, <2>7, <1>0 DEF F!UnlinkMaterial, TypesInv
    <2>8. CASE F!ListToRename(r)
      <3>1. request' \in [Requests -> Asked(today)]
        <4> DEFINE n == request[r].name
        <4>0. F!MayRename(n, request[r].to) \/ F!Answer(r)
          BY <2>8 DEF F!ListToRename
        <4>1. F!MayRename(n, request[r].to) =>
                 request' = [request EXCEPT ![r].at = "copying", ![r].live = link[n],
                                            ![r].gens = gens[n], ![r].staged = staged[n]]
          BY <2>8 DEF F!ListToRename
        <4>2. /\ link[n] \in 0..today
              /\ gens[n] \in SUBSET (1..today) /\ staged[n] \in SUBSET (1..today)
          BY <2>q, <1>t
        <4> HIDE DEF n
        <4>3. \A c \in 0..today, G, H \in SUBSET (1..today) :
                 [request EXCEPT ![r].at = "copying", ![r].live = c, ![r].gens = G, ![r].staged = H]
                    \in [Requests -> Asked(today)]
          BY <2>e DEF RequestEdits, AskedAts
        <4>4. F!MayRename(n, request[r].to) => request' \in [Requests -> Asked(today)]
          <5>1. [request EXCEPT ![r].at = "copying", ![r].live = link[n],
                                ![r].gens = gens[n], ![r].staged = staged[n]]
                   \in [Requests -> Asked(today)]
            BY <4>2, <4>3, Zenon
          <5> QED BY <5>1, <4>1, Zenon
        <4> QED BY <4>0, <4>4, <2>a
      <3>2. gens' \in [Names -> SUBSET (1..today)] /\ staged' \in [Names -> SUBSET (1..today)]
        BY <2>8, <2>q, <1>0, <1>t DEF F!ListToRename, F!files, TypesInv
      <3>3. link' \in [Names -> 0..today] /\ home' \in Names
        BY <2>8, <2>q, <1>0, <1>t DEF F!ListToRename, F!files, TypesInv
      <3> QED BY <3>1, <3>2, <3>3, <2>8, <1>0 DEF F!ListToRename, TypesInv
    <2>9. CASE F!Copy(r)
      <3>1. request' \in [Requests -> Asked(today)]
        <4> DEFINE d == F!Min(request[r].gens \ request[r].made)
        <4>1. d \in request[r].gens /\ request' = [request EXCEPT ![r].made = request[r].made \cup {d}]
          <5>1. request[r].gens \ request[r].made \in SUBSET Nat
            BY <2>q
          <5>2. d \in request[r].gens \ request[r].made
            BY <5>1, <2>9, MinIn DEF F!Copy
          <5> QED BY <5>2, <2>9 DEF F!Copy
        <4> HIDE DEF d
        <4>2. request[r].made \cup {d} \in SUBSET (1..today)
          BY <4>1, <2>q
        <4> QED BY <4>1, <4>2, <2>e DEF RequestEdits
      <3>2. gens' \in [Names -> SUBSET (1..today)] /\ staged' \in [Names -> SUBSET (1..today)]
        BY <2>9, <2>q, <1>0, <1>t DEF F!Copy, F!files, TypesInv
      <3>3. link' \in [Names -> 0..today] /\ home' \in Names
        BY <2>9, <2>q, <1>0, <1>t DEF F!Copy, F!files, TypesInv
      <3> QED BY <3>1, <3>2, <3>3, <2>9, <1>0 DEF F!Copy, TypesInv
    <2>10. CASE F!PointNewLink(r)
      <3>1. request' \in [Requests -> Asked(today)]
        BY <2>10, <2>e, <2>q, <1>t DEF F!PointNewLink, F!Answer, F!Step, AskedAts, RequestEdits
      <3>2. gens' \in [Names -> SUBSET (1..today)] /\ staged' \in [Names -> SUBSET (1..today)]
        BY <2>10, <2>q, <1>0, <1>t DEF F!PointNewLink, F!files, TypesInv
      <3>3. link' \in [Names -> 0..today] /\ home' \in Names
        BY <2>10, <2>q, <1>0, <1>t DEF F!PointNewLink, F!files, TypesInv
      <3> QED BY <3>1, <3>2, <3>3, <2>10, <1>0 DEF F!PointNewLink, TypesInv
    <2>11. CASE F!MoveMaterial(r)
      <3>1. request' \in [Requests -> Asked(today)]
        <4>1. PICK d \in request[r].staged :
                 request' = [request EXCEPT ![r].staged = request[r].staged \ {d},
                                            ![r].moved = request[r].moved \cup {d}]
          BY <2>11 DEF F!MoveMaterial
        <4>2. /\ request[r].staged \ {d} \in SUBSET (1..today)
              /\ request[r].moved \cup {d} \in SUBSET (1..today)
          BY <2>q
        <4> QED BY <4>1, <4>2, <2>e DEF RequestEdits
      <3>2. gens' \in [Names -> SUBSET (1..today)] /\ staged' \in [Names -> SUBSET (1..today)]
        BY <2>11, <2>q, <1>0, <1>t DEF F!MoveMaterial, F!files, TypesInv
      <3>3. link' \in [Names -> 0..today] /\ home' \in Names
        BY <2>11, <2>q, <1>0, <1>t DEF F!MoveMaterial, F!files, TypesInv
      <3> QED BY <3>1, <3>2, <3>3, <2>11, <1>0 DEF F!MoveMaterial, TypesInv
    <2>12. CASE F!RemoveOldLink(r)
      <3>1. request' \in [Requests -> Asked(today)]
        BY <2>12, <2>e, <2>q, <1>t DEF F!RemoveOldLink, F!Answer, F!Step, AskedAts, RequestEdits
      <3>2. gens' \in [Names -> SUBSET (1..today)] /\ staged' \in [Names -> SUBSET (1..today)]
        BY <2>12, <2>q, <1>0, <1>t DEF F!RemoveOldLink, F!files, TypesInv
      <3>3. link' \in [Names -> 0..today] /\ home' \in Names
        BY <2>12, <2>q, <1>0, <1>t DEF F!RemoveOldLink, F!files, TypesInv
      <3> QED BY <3>1, <3>2, <3>3, <2>12, <1>0 DEF F!RemoveOldLink, TypesInv
    <2>13. CASE F!RemoveOld(r)
      <3>1. request' \in [Requests -> Asked(today)]
        <4>1. \/ \E d : request' = [request EXCEPT ![r].gens = request[r].gens \ {d}]
              \/ F!Answer(r)
          BY <2>13 DEF F!RemoveOld
        <4>2. \A d : request[r].gens \ {d} \in SUBSET (1..today)
          BY <2>q
        <4>3. \A G \in SUBSET (1..today) :
                 [request EXCEPT ![r].gens = G] \in [Requests -> Asked(today)]
          BY <2>e DEF RequestEdits
        <4> QED BY <4>1, <4>2, <4>3, <2>a
      <3>2. gens' \in [Names -> SUBSET (1..today)] /\ staged' \in [Names -> SUBSET (1..today)]
        BY <2>13, <2>q, <1>0, <1>t DEF F!RemoveOld, F!files, TypesInv
      <3>3. link' \in [Names -> 0..today] /\ home' \in Names
        BY <2>13, <2>q, <1>0, <1>t DEF F!RemoveOld, F!files, TypesInv
      <3> QED BY <3>1, <3>2, <3>3, <2>13, <1>0 DEF F!RemoveOld, TypesInv
    <2>14. CASE F!RenameFails(r)
      <3>1. request' \in [Requests -> Asked(today)]
        BY <2>14, <2>e, <2>q, <1>t DEF F!RenameFails, F!Answer, F!Step, AskedAts, RequestEdits
      <3>2. gens' \in [Names -> SUBSET (1..today)] /\ staged' \in [Names -> SUBSET (1..today)]
        BY <2>14, <2>q, <1>0, <1>t DEF F!RenameFails, F!files, TypesInv
      <3>3. link' \in [Names -> 0..today] /\ home' \in Names
        BY <2>14, <2>q, <1>0, <1>t DEF F!RenameFails, F!files, TypesInv
      <3> QED BY <3>1, <3>2, <3>3, <2>14, <1>0 DEF F!RenameFails, TypesInv
    <2>15. CASE F!Undo(r)
      <3> DEFINE n == request[r].name
                 m == request[r].to
                 q == request[r]
                 d == F!Min(q.made)
      <3>0. n \in Names /\ m \in Names
        BY <2>q
      <3>1. CASE /\ gens' = [gens EXCEPT ![m] = @ \ {d}]
                 /\ request' = [request EXCEPT ![r].made = @ \ {d}]
                 /\ UNCHANGED <<link, staged>>
        <4> HIDE DEF d
        <4>1. q.made \ {d} \in SUBSET (1..today) /\ gens[m] \ {d} \in SUBSET (1..today)
          BY <2>q, <1>t, <3>0
        <4>2. request' = [request EXCEPT ![r].made = q.made \ {d}]
          BY <3>1
        <4>3. request' \in [Requests -> Asked(today)]
          BY <4>1, <4>2, <2>e DEF RequestEdits
        <4> HIDE DEF n, m, q
        <4>4. gens' \in [Names -> SUBSET (1..today)]
          BY <4>1, <3>0, <3>1, <1>0 DEF TypesInv
        <4> QED BY <4>3, <4>4, <3>1, <2>15, <1>0 DEF F!Undo, TypesInv
      <3>2. CASE /\ link' = [link EXCEPT ![m] = 0]
                 /\ F!Step(r, "undoing")
                 /\ UNCHANGED <<gens, staged>>
        <4>1. request' \in [Requests -> Asked(today)]
          BY <3>2, <2>e DEF F!Step, AskedAts, RequestEdits
        <4> HIDE DEF n, m, q, d
        <4>2. link' \in [Names -> 0..today]
          BY <3>0, <3>2, <1>0 DEF TypesInv
        <4> QED BY <4>1, <4>2, <3>2, <2>15, <1>0 DEF F!Undo, TypesInv
      <3>3. CASE /\ \E c \in q.moved :
                       /\ staged' = [staged EXCEPT ![m] = @ \ {c}, ![n] = @ \cup {c}]
                       /\ request' = [request EXCEPT ![r].moved = @ \ {c}]
                 /\ UNCHANGED <<gens, link>>
        <4>1. PICK c \in q.moved :
                       /\ staged' = [staged EXCEPT ![m] = @ \ {c}, ![n] = @ \cup {c}]
                       /\ request' = [request EXCEPT ![r].moved = @ \ {c}]
          BY <3>3
        <4>2. q.moved \ {c} \in SUBSET (1..today) /\ c \in 1..today
          BY <2>q
        <4>3. request' = [request EXCEPT ![r].moved = q.moved \ {c}]
          BY <4>1
        <4>4. request' \in [Requests -> Asked(today)]
          BY <4>2, <4>3, <2>e DEF RequestEdits
        <4> HIDE DEF n, m, q, d
        <4>5. staged' \in [Names -> SUBSET (1..today)]
          BY <4>1, <4>2, <3>0, <1>0 DEF TypesInv
        <4> QED BY <4>4, <4>5, <3>3, <2>15, <1>0 DEF F!Undo, TypesInv
      <3>4. CASE F!Answer(r) /\ UNCHANGED F!files
        <4>1. request' \in [Requests -> Asked(today)]
          BY <3>4, <2>e DEF F!Answer, RequestEdits
        <4> HIDE DEF n, m, q, d
        <4> QED BY <4>1, <3>4, <2>15, <1>0 DEF F!Undo, F!files, TypesInv
      <3> QED BY <3>1, <3>2, <3>3, <3>4, <2>15 DEF F!Undo
    <2> QED BY <1>r, <2>1, <2>2, <2>3, <2>4, <2>5, <2>6, <2>7, <2>8, <2>9, <2>10, <2>11, <2>12, <2>13, <2>14, <2>15 DEF F!RequestStep
  <1>s. CASE F!Restart
    <2>1. F!NoBake \in Bakes(today) /\ F!NoRequest \in Asked(today)
      BY <1>0 DEF F!NoBake, Bakes, F!NoRequest, Asked
    <2>2. bake' \in [Names -> Bakes(today)] /\ request' \in [Requests -> Asked(today)]
      BY <2>1, <1>s DEF F!Restart
    <2> QED BY <2>2, <1>s, <1>0 DEF F!Restart, TypesInv, F!files
  <1>u. CASE UNCHANGED F!vars
    BY <1>u, <1>0 DEF F!vars, TypesInv
  <1> QED BY <1>b, <1>r, <1>s, <1>u DEF F!Next

\* What a step of request r leaves of what was asked: it is answered, or goes on, or
\* something else is asked.
Accepts(r) ==
    /\ request[r].job = "none"
    /\ \/ \E job \in {"rollback", "delete"}, n \in Names : ~F!Running(n) /\ F!Accept(r, job, n, n)
       \/ \E m \in Names : F!Rename(r, home, m)

GoesOn(r) ==
    /\ \A s \in Requests \ {r} : request'[s] = request[s]
    /\ request'[r].job = request[r].job
    /\ request'[r].name = request[r].name
    /\ request'[r].to = request[r].to

LEMMA RequestKinds ==
    ASSUME TypesInv, NEW r \in Requests, F!RequestStep(r)
    PROVE  /\ UNCHANGED <<bake, today>>
           /\ Accepts(r) \/ GoesOn(r) \/ F!Answer(r)
  <1>0. request \in [Requests -> Asked(today)] /\ request[r] \in Asked(today)
    BY DEF TypesInv
  <1>1. CASE \E n \in Names : F!RollBack(r, n) \/ F!Delete(r, n) \/ \E m \in Names : F!Rename(r, n, m)
    BY <1>1 DEF F!RollBack, F!Delete, F!Rename, Accepts
  <1>a. ASSUME NEW at, F!Step(r, at)
        PROVE  GoesOn(r)
    <2>1. \A s \in Requests \ {r} : request'[s] = request[s]
      BY <1>a, <1>0 DEF F!Step
    <2>2. request'[r] = [request[r] EXCEPT !.at = at]
      BY <1>a, <1>0 DEF F!Step
    <2> QED BY <2>1, <2>2, <1>0 DEF GoesOn, Asked
  <1>b. ASSUME NEW at, NEW d,
               request' = [request EXCEPT ![r].at = at, ![r].live = d]
        PROVE  GoesOn(r)
    <2>1. \A s \in Requests \ {r} : request'[s] = request[s]
      BY <1>b, <1>0
    <2>2. request'[r] = [request[r] EXCEPT !.at = at, !.live = d]
      BY <1>b, <1>0
    <2>3. [request[r] EXCEPT !.at = at, !.live = d].job = request[r].job
      BY <1>0 DEF Asked
    <2>4. [request[r] EXCEPT !.at = at, !.live = d].name = request[r].name
      BY <1>0 DEF Asked
    <2>5. [request[r] EXCEPT !.at = at, !.live = d].to = request[r].to
      BY <1>0 DEF Asked
    <2> QED BY <2>1, <2>2, <2>3, <2>4, <2>5 DEF GoesOn
  <1>c. ASSUME NEW at, NEW d, NEW G, NEW H,
               request' = [request EXCEPT ![r].at = at, ![r].live = d, ![r].gens = G, ![r].staged = H]
        PROVE  GoesOn(r)
    <2>1. \A s \in Requests \ {r} : request'[s] = request[s]
      BY <1>c, <1>0
    <2>2. request'[r] = [request[r] EXCEPT !.at = at, !.live = d, !.gens = G, !.staged = H]
      BY <1>c, <1>0
    <2>3. [request[r] EXCEPT !.at = at, !.live = d, !.gens = G, !.staged = H].job = request[r].job
      BY <1>0 DEF Asked
    <2>4. [request[r] EXCEPT !.at = at, !.live = d, !.gens = G, !.staged = H].name = request[r].name
      BY <1>0 DEF Asked
    <2>5. [request[r] EXCEPT !.at = at, !.live = d, !.gens = G, !.staged = H].to = request[r].to
      BY <1>0 DEF Asked
    <2> QED BY <2>1, <2>2, <2>3, <2>4, <2>5 DEF GoesOn
  <1>d. ASSUME NEW d,
               request' = [request EXCEPT ![r].live = d]
        PROVE  GoesOn(r)
    BY <1>d, <1>0 DEF GoesOn, Asked
  <1>e. ASSUME NEW G,
               request' = [request EXCEPT ![r].gens = G]
        PROVE  GoesOn(r)
    BY <1>e, <1>0 DEF GoesOn, Asked
  <1>f. ASSUME NEW G,
               request' = [request EXCEPT ![r].staged = G]
        PROVE  GoesOn(r)
    BY <1>f, <1>0 DEF GoesOn, Asked
  <1>g. ASSUME NEW G, NEW H,
               request' = [request EXCEPT ![r].staged = G, ![r].moved = H]
        PROVE  GoesOn(r)
    <2>1. \A s \in Requests \ {r} : request'[s] = request[s]
      BY <1>g, <1>0
    <2>2. request'[r] = [request[r] EXCEPT !.staged = G, !.moved = H]
      BY <1>g, <1>0
    <2>3. [request[r] EXCEPT !.staged = G, !.moved = H].job = request[r].job
      BY <1>0 DEF Asked
    <2>4. [request[r] EXCEPT !.staged = G, !.moved = H].name = request[r].name
      BY <1>0 DEF Asked
    <2>5. [request[r] EXCEPT !.staged = G, !.moved = H].to = request[r].to
      BY <1>0 DEF Asked
    <2> QED BY <2>1, <2>2, <2>3, <2>4, <2>5 DEF GoesOn
  <1>h. ASSUME NEW G,
               request' = [request EXCEPT ![r].moved = G]
        PROVE  GoesOn(r)
    <2>1. \A s \in Requests \ {r} : request'[s] = request[s]
      BY <1>h, <1>0
    <2>2. request'[r] = [request[r] EXCEPT !.moved = G]
      BY <1>h, <1>0
    <2>3. [request[r] EXCEPT !.moved = G].job = request[r].job
      BY <1>0 DEF Asked
    <2>4. [request[r] EXCEPT !.moved = G].name = request[r].name
      BY <1>0 DEF Asked
    <2>5. [request[r] EXCEPT !.moved = G].to = request[r].to
      BY <1>0 DEF Asked
    <2> QED BY <2>1, <2>2, <2>3, <2>4, <2>5 DEF GoesOn
  <1>i. ASSUME NEW G,
               request' = [request EXCEPT ![r].made = G]
        PROVE  GoesOn(r)
    BY <1>i, <1>0 DEF GoesOn, Asked
  <1>2. CASE F!FindEarlier(r)
    BY <1>2, <1>b DEF F!FindEarlier
  <1>3. CASE F!PointBack(r)
    BY <1>3 DEF F!PointBack
  <1>4. CASE F!ListToDelete(r)
    BY <1>4, <1>c DEF F!ListToDelete
  <1>5. CASE F!UnlinkLink(r)
    BY <1>5, <1>d DEF F!UnlinkLink
  <1>6. CASE F!UnlinkGeneration(r)
    BY <1>6, <1>e DEF F!UnlinkGeneration
  <1>7. CASE F!UnlinkMaterial(r)
    BY <1>7, <1>f DEF F!UnlinkMaterial
  <1>8. CASE F!ListToRename(r)
    <2> DEFINE d == link[request[r].name]
               G == gens[request[r].name]
               H == staged[request[r].name]
    <2>1. F!MayRename(request[r].name, request[r].to) \/ F!Answer(r)
      BY <1>8 DEF F!ListToRename
    <2>2. F!MayRename(request[r].name, request[r].to) =>
             request' = [request EXCEPT ![r].at = "copying", ![r].live = d,
                                        ![r].gens = G, ![r].staged = H]
      BY <1>8 DEF F!ListToRename
    <2>3. UNCHANGED <<bake, today>>
      BY <1>8 DEF F!ListToRename
    <2> HIDE DEF d, G, H
    <2>4. F!MayRename(request[r].name, request[r].to) => GoesOn(r)
      <3>1. CASE F!MayRename(request[r].name, request[r].to)
        <4>1. request' = [request EXCEPT ![r].at = "copying", ![r].live = d,
                                         ![r].gens = G, ![r].staged = H]
          BY <2>2, <3>1
        <4> QED BY <4>1, <1>c
      <3> QED BY <3>1
    <2> QED BY <2>1, <2>3, <2>4
  <1>9. CASE F!Copy(r)
    BY <1>9, <1>i DEF F!Copy
  <1>10. CASE F!PointNewLink(r)
    BY <1>10, <1>a DEF F!PointNewLink
  <1>11. CASE F!MoveMaterial(r)
    BY <1>11, <1>g DEF F!MoveMaterial
  <1>12. CASE F!RemoveOldLink(r)
    BY <1>12, <1>a DEF F!RemoveOldLink
  <1>13. CASE F!RemoveOld(r)
    BY <1>13, <1>e DEF F!RemoveOld
  <1>14. CASE F!RenameFails(r)
    BY <1>14, <1>a DEF F!RenameFails
  <1>15. CASE F!Undo(r)
    <2>1. \/ F!Answer(r) \/ F!Step(r, "undoing")
          \/ \E O : request' = [request EXCEPT ![r].made = O]
          \/ \E O : request' = [request EXCEPT ![r].moved = O]
      BY <1>15 DEF F!Undo
    <2> QED BY <2>1, <1>15, <1>a, <1>h, <1>i DEF F!Undo
  <1> QED BY <1>1, <1>2, <1>3, <1>4, <1>5, <1>6, <1>7, <1>8, <1>9, <1>10, <1>11, <1>12, <1>13, <1>14, <1>15 DEF F!RequestStep

\* A step of a run does nothing to another name, and nothing to the requests; what is
\* known of the run after it.
LEMMA BakeKinds ==
    ASSUME Base, NEW n \in Names, F!BakeStep(n)
    PROVE  /\ \A m \in Names \ {n} : /\ bake'[m] = bake[m] /\ gens'[m] = gens[m]
                                     /\ link'[m] = link[m] /\ staged'[m] = staged[m]
           /\ UNCHANGED <<request, home>> /\ n = home
           /\ RunInv(n)'
  <1>0. /\ bake \in [Names -> Bakes(today)] /\ link \in [Names -> 0..today] /\ today \in Nat
        /\ gens \in [Names -> SUBSET (1..today)] /\ staged \in [Names -> SUBSET (1..today)]
    BY DEF Base, TypesInv
  <1>1. RunInv(n)
    BY DEF Base, BakeInv
  <1>2. CASE F!Start(n)
    <2>1. \A m \in Names \ {n} : /\ bake'[m] = bake[m] /\ gens'[m] = gens[m]
                                /\ link'[m] = link[m] /\ staged'[m] = staged[m]
      BY <1>2, <1>0 DEF F!Start, F!Baking, F!files
    <2>2. UNCHANGED <<request, home>> /\ n = home
      BY <1>2, <1>1 DEF RunInv, F!Start, F!NoBake
    <2>3. RunInv(n)'
      BY <1>2, <1>0, <1>1, <2>2 DEF RunInv, F!Start, F!Baking, F!BuildsLongerThanRequests, F!Running, F!files, F!NoBake, Bakes
    <2> QED BY <2>1, <2>2, <2>3
  <1>3. CASE F!FetchFails(n)
    <2>1. \A m \in Names \ {n} : /\ bake'[m] = bake[m] /\ gens'[m] = gens[m]
                                /\ link'[m] = link[m] /\ staged'[m] = staged[m]
      BY <1>3, <1>0 DEF F!FetchFails, F!Baking, F!files
    <2>2. UNCHANGED <<request, home>> /\ n = home
      BY <1>3, <1>1 DEF RunInv, F!FetchFails, F!NoBake
    <2>3. RunInv(n)'
      BY <1>3, <1>0, <1>1, <2>2 DEF RunInv, F!FetchFails, F!Baking, F!BuildsLongerThanRequests, F!Running, F!files, F!NoBake, Bakes
    <2> QED BY <2>1, <2>2, <2>3
  <1>4. CASE F!Build(n)
    <2>1. \A m \in Names \ {n} : /\ bake'[m] = bake[m] /\ gens'[m] = gens[m]
                                /\ link'[m] = link[m] /\ staged'[m] = staged[m]
      BY <1>4, <1>0 DEF F!Build, F!Baking, F!files
    <2>2. UNCHANGED <<request, home>> /\ n = home
      BY <1>4, <1>1 DEF RunInv, F!Build, F!NoBake
    <2>3. RunInv(n)'
      BY <1>4, <1>0, <1>1, <2>2 DEF RunInv, F!Build, F!Baking, F!BuildsLongerThanRequests, F!Running, F!files, F!NoBake, Bakes
    <2> QED BY <2>1, <2>2, <2>3
  <1>5. CASE F!StopBuild(n)
    <2>1. \A m \in Names \ {n} : /\ bake'[m] = bake[m] /\ gens'[m] = gens[m]
                                /\ link'[m] = link[m] /\ staged'[m] = staged[m]
      BY <1>5, <1>0 DEF F!StopBuild, F!Baking, F!files
    <2>2. UNCHANGED <<request, home>> /\ n = home
      BY <1>5, <1>1 DEF RunInv, F!StopBuild, F!NoBake
    <2>3. RunInv(n)'
      BY <1>5, <1>0, <1>1, <2>2 DEF RunInv, F!StopBuild, F!Baking, F!BuildsLongerThanRequests, F!Running, F!files, F!NoBake, Bakes
    <2> QED BY <2>1, <2>2, <2>3
  <1>6. CASE F!BreakBuild(n)
    <2>1. \A m \in Names \ {n} : /\ bake'[m] = bake[m] /\ gens'[m] = gens[m]
                                /\ link'[m] = link[m] /\ staged'[m] = staged[m]
      BY <1>6, <1>0 DEF F!BreakBuild, F!Baking, F!files
    <2>2. UNCHANGED <<request, home>> /\ n = home
      BY <1>6, <1>1 DEF RunInv, F!BreakBuild, F!NoBake
    <2>3. RunInv(n)'
      BY <1>6, <1>0, <1>1, <2>2 DEF RunInv, F!BreakBuild, F!Baking, F!BuildsLongerThanRequests, F!Running, F!files, F!NoBake, Bakes
    <2> QED BY <2>1, <2>2, <2>3
  <1>7. CASE F!Place(n)
    <2>1. \A m \in Names \ {n} : /\ bake'[m] = bake[m] /\ gens'[m] = gens[m]
                                /\ link'[m] = link[m] /\ staged'[m] = staged[m]
      BY <1>7, <1>0 DEF F!Place, F!Baking, F!files
    <2>2. UNCHANGED <<request, home>> /\ n = home
      BY <1>7, <1>1 DEF RunInv, F!Place, F!NoBake
    <2>3. RunInv(n)'
      BY <1>7, <1>0, <1>1, <2>2 DEF RunInv, F!Place, F!Baking, F!BuildsLongerThanRequests, F!Running, F!files, F!NoBake, Bakes
    <2> QED BY <2>1, <2>2, <2>3
  <1>8. CASE F!Link(n)
    <2>1. \A m \in Names \ {n} : /\ bake'[m] = bake[m] /\ gens'[m] = gens[m]
                                /\ link'[m] = link[m] /\ staged'[m] = staged[m]
      BY <1>8, <1>0 DEF F!Link, F!Baking, F!files
    <2>2. UNCHANGED <<request, home>> /\ n = home
      BY <1>8, <1>1 DEF RunInv, F!Link, F!NoBake
    <2>3. RunInv(n)'
      BY <1>8, <1>0, <1>1, <2>2 DEF RunInv, F!Link, F!Baking, F!BuildsLongerThanRequests, F!Running, F!files, F!NoBake, Bakes
    <2> QED BY <2>1, <2>2, <2>3
  <1>9. CASE F!Prune(n)
    <2>1. \A m \in Names \ {n} : /\ bake'[m] = bake[m] /\ gens'[m] = gens[m]
                                /\ link'[m] = link[m] /\ staged'[m] = staged[m]
      BY <1>9, <1>0 DEF F!Prune, F!Baking, F!files
    <2>2. UNCHANGED <<request, home>> /\ n = home
      BY <1>9, <1>1 DEF RunInv, F!Prune, F!NoBake
    <2>3. RunInv(n)'
      BY <1>9, <1>0, <1>1, <2>2 DEF RunInv, F!Prune, F!Baking, F!BuildsLongerThanRequests, F!Running, F!files, F!NoBake, Bakes
    <2> QED BY <2>1, <2>2, <2>3
  <1>10. CASE F!Close(n)
    <2>1. \A m \in Names \ {n} : /\ bake'[m] = bake[m] /\ gens'[m] = gens[m]
                                /\ link'[m] = link[m] /\ staged'[m] = staged[m]
      BY <1>10, <1>0 DEF F!Close, F!Baking, F!files
    <2>2. UNCHANGED <<request, home>> /\ n = home
      BY <1>10, <1>1 DEF RunInv, F!Close, F!NoBake
    <2>3. RunInv(n)'
      BY <1>10, <1>0, <1>1, <2>2 DEF RunInv, F!Close, F!Baking, F!BuildsLongerThanRequests, F!Running, F!files, F!NoBake, Bakes
    <2> QED BY <2>1, <2>2, <2>3
  <1>11. CASE F!Fetch(n)
    <2>1. \A m \in Names \ {n} : /\ bake'[m] = bake[m] /\ gens'[m] = gens[m]
                                /\ link'[m] = link[m] /\ staged'[m] = staged[m]
      BY <1>11, <1>0 DEF F!Fetch, F!Baking, F!files
    <2>2. UNCHANGED <<request, home>> /\ n = home
      BY <1>11, <1>1 DEF RunInv, F!Fetch, F!NoBake
    <2>3. RunInv(n)'
      <3>1. \E d \in Nat \ {0} : bake' = [bake EXCEPT ![n].at = "building", ![n].date = d]
        <4>1. ASSUME staged[n] # {} PROVE F!Max(staged[n]) \in Nat \ {0}
          <5>1. staged[n] \in SUBSET (1..today)
            BY <1>0
          <5>2. F!Max(staged[n]) \in staged[n]
            BY <5>1, <4>1, <1>0, MaxIn
          <5> QED BY <5>1, <5>2
        <4>2. CASE staged[n] # {}
          BY <4>1, <4>2, <1>11 DEF F!Fetch
        <4>3. CASE staged[n] = {}
          <5>1. today + 1 \in Nat \ {0}
            BY <1>0
          <5> QED BY <5>1, <4>3, <1>11 DEF F!Fetch
        <4> QED BY <4>2, <4>3
      <3> QED BY <3>1, <2>2, <1>0, <1>1 DEF RunInv, F!NoBake, Bakes
    <2> QED BY <2>1, <2>2, <2>3
  <1> QED BY <1>2, <1>3, <1>4, <1>5, <1>6, <1>7, <1>8, <1>9, <1>10, <1>11 DEF F!BakeStep

\* The present name changes at the end of a rename only; a rollback or a deletion moves
\* no link but that of its name.
LEMMA RequestLinks ==
    ASSUME TypesInv, NEW r \in Requests, F!RequestStep(r)
    PROVE  /\ home' = home \/ (request[r].job = "rename" /\ F!Answer(r))
           /\ request[r].job = "rename" \/
                 \A n \in Names : link'[n] = link[n]
                                  \/ (n = request[r].name /\ request[r].job \in {"rollback", "delete"})
  <1>0. link \in [Names -> 0..today]
    BY DEF TypesInv
  <1>1. CASE \E n \in Names : F!RollBack(r, n) \/ F!Delete(r, n) \/ \E m \in Names : F!Rename(r, n, m)
    BY <1>1 DEF F!RollBack, F!Delete, F!Rename, F!files
  <1>2. CASE F!FindEarlier(r)
    BY <1>2, <1>0 DEF F!FindEarlier, F!files
  <1>3. CASE F!PointBack(r)
    BY <1>3, <1>0 DEF F!PointBack, F!files
  <1>4. CASE F!ListToDelete(r)
    BY <1>4, <1>0 DEF F!ListToDelete, F!files
  <1>5. CASE F!UnlinkLink(r)
    BY <1>5, <1>0 DEF F!UnlinkLink, F!files
  <1>6. CASE F!UnlinkGeneration(r)
    BY <1>6, <1>0 DEF F!UnlinkGeneration, F!files
  <1>7. CASE F!UnlinkMaterial(r)
    BY <1>7, <1>0 DEF F!UnlinkMaterial, F!files
  <1>8. CASE F!ListToRename(r)
    BY <1>8, <1>0 DEF F!ListToRename, F!files
  <1>9. CASE F!Copy(r)
    BY <1>9, <1>0 DEF F!Copy, F!files
  <1>10. CASE F!PointNewLink(r)
    BY <1>10, <1>0 DEF F!PointNewLink, F!files
  <1>11. CASE F!MoveMaterial(r)
    BY <1>11, <1>0 DEF F!MoveMaterial, F!files
  <1>12. CASE F!RemoveOldLink(r)
    BY <1>12, <1>0 DEF F!RemoveOldLink, F!files
  <1>13. CASE F!RemoveOld(r)
    BY <1>13, <1>0 DEF F!RemoveOld, F!files
  <1>14. CASE F!RenameFails(r)
    BY <1>14, <1>0 DEF F!RenameFails, F!files
  <1>15. CASE F!Undo(r)
    BY <1>15, <1>0 DEF F!Undo, F!files
  <1> QED BY <1>1, <1>2, <1>3, <1>4, <1>5, <1>6, <1>7, <1>8, <1>9, <1>10, <1>11, <1>12, <1>13, <1>14, <1>15 DEF F!RequestStep

LEMMA NextBase == ASSUME F!GenerationsAssumption, Base, [F!Next]_F!vars PROVE Base'
  <1>0. TypesInv /\ TypesInv'
    BY NextTypes DEF Base
  <1>1. BakeInv /\ RenameInv
    BY DEF Base
  <1>r. request \in [Requests -> Asked(today)] /\ home \in Names
    BY <1>0 DEF TypesInv
  <1>2. ASSUME NEW n \in Names, F!BakeStep(n)
        PROVE  BakeInv' /\ RenameInv'
    <2>1. /\ \A m \in Names \ {n} : bake'[m] = bake[m] /\ link'[m] = link[m]
          /\ UNCHANGED <<request, home>> /\ n = home /\ RunInv(n)'
      BY <1>2, BakeKinds
    <2>2. BakeInv'
      BY <2>1, <1>1 DEF BakeInv, RunInv
    <2>3. \A r \in Requests : request[r].job # "rename"
      <3>1. bake[n].at = "none" => ~F!Renaming(n)
        BY <1>2 DEF F!BakeStep, F!Start, F!Fetch, F!FetchFails, F!Build, F!StopBuild, F!BreakBuild, F!Place, F!Link, F!Prune, F!Close
      <3>2. bake[n] = F!NoBake => bake[n].at = "none"
        BY DEF F!NoBake
      <3> QED BY <3>1, <3>2, <2>1, <1>1 DEF RenameInv, F!Renaming
    <2> QED BY <2>1, <2>2, <2>3 DEF RenameInv
  <1>3. ASSUME NEW r \in Requests, F!RequestStep(r)
        PROVE  BakeInv' /\ RenameInv'
    <2>1. /\ bake' = bake
          /\ Accepts(r) \/ GoesOn(r) \/ F!Answer(r)
      BY <1>0, <1>3, RequestKinds
    <2>2. /\ home' = home \/ (request[r].job = "rename" /\ F!Answer(r))
          /\ request[r].job = "rename" \/
                \A n \in Names : link'[n] = link[n]
                             \/ (n = request[r].name /\ request[r].job \in {"rollback", "delete"})
      BY <1>0, <1>3, RequestLinks
    <2>3. CASE F!Answer(r)
      <3>1. /\ \A s \in Requests \ {r} : request'[s] = request[s]
            /\ request'[r].job = "none"
        BY <2>3, <1>r DEF F!Answer, F!NoRequest
      <3>2. RenameInv'
        BY <3>1, <2>1, <2>2, <1>1 DEF RenameInv
      <3>3. BakeInv'
        BY <3>1, <2>1, <2>2, <1>1 DEF RenameInv, BakeInv, RunInv, F!NoBake
      <3> QED BY <3>2, <3>3
    <2>4. CASE GoesOn(r) /\ home' = home
      <3>1. RenameInv'
        BY <2>1, <2>4, <1>1 DEF RenameInv, GoesOn
      <3>2. BakeInv'
        BY <2>1, <2>2, <2>4, <1>1 DEF RenameInv, BakeInv, RunInv, F!NoBake, GoesOn
      <3> QED BY <3>1, <3>2
    <2>5. CASE Accepts(r) /\ home' = home
      <3>1. link' = link
        BY <2>5, <2>2, <1>0, <1>3 DEF Accepts, TypesInv
      <3>2. \A s \in Requests \ {r} : request'[s] = request[s]
        BY <2>5, <1>r DEF Accepts, F!Rename, F!Accept
      <3>3. CASE \E job \in {"rollback", "delete"}, n \in Names : ~F!Running(n) /\ F!Accept(r, job, n, n)
        <4>1. PICK n \in Names : /\ ~F!Running(n) /\ request'[r].name = n
                                 /\ request'[r].job \in {"rollback", "delete"}
          BY <3>3, <1>r DEF F!Accept, F!NoRequest
        <4>2. RenameInv'
          BY <4>1, <3>2, <2>1, <2>5, <1>1 DEF RenameInv
        <4>3. BakeInv'
          BY <4>1, <3>1, <3>2, <2>1, <2>5, <1>1 DEF BakeInv, RunInv, F!Running
        <4> QED BY <4>2, <4>3
      <3>4. CASE \E m \in Names : F!Rename(r, home, m)
        <4>1. PICK m \in Names : /\ request'[r].name = home /\ request'[r].to = m
                                 /\ request'[r].job = "rename"
                                 /\ m # home /\ ~F!Running(home) /\ ~F!Renaming(home)
          BY <3>4, <1>r DEF F!Rename, F!Accept, F!NoRequest
        <4>2. \A n \in Names : bake[n] = F!NoBake
          BY <4>1, <1>1, <1>r DEF BakeInv, RunInv, F!Running
        <4>3. \A s \in Requests : request[s].job # "rename"
          BY <4>1, <1>1 DEF RenameInv, F!Renaming
        <4>4. RenameInv'
          BY <4>1, <4>2, <4>3, <3>2, <2>1, <2>5 DEF RenameInv
        <4>5. BakeInv'
          BY <4>1, <4>2, <3>2, <2>1 DEF BakeInv, RunInv, F!NoBake
        <4> QED BY <4>4, <4>5
      <3> QED BY <3>3, <3>4, <2>5 DEF Accepts
    <2>6. home' = home \/ F!Answer(r)
      BY <2>2
    <2> QED BY <2>1, <2>3, <2>4, <2>5, <2>6
  <1>4. CASE F!Restart
    <2>1. (\A n \in Names : bake'[n] = F!NoBake) /\ (\A r \in Requests : request'[r].job = "none")
      BY <1>4 DEF F!Restart, F!NoRequest
    <2>2. BakeInv'
      BY <2>1 DEF BakeInv, RunInv, F!NoBake
    <2>3. RenameInv'
      BY <2>1 DEF RenameInv
    <2> QED BY <2>2, <2>3, <1>0 DEF Base
  <1>5. CASE UNCHANGED F!vars
    <2>1. BakeInv'
      BY <1>5, <1>1 DEF F!vars, BakeInv, RunInv
    <2>2. RenameInv'
      BY <1>5, <1>1 DEF F!vars, RenameInv
    <2> QED BY <2>1, <2>2, <1>0 DEF Base
  <1> QED BY <1>0, <1>2, <1>3, <1>4, <1>5 DEF F!Next, Base

LEMMA BaseInvariant == ASSUME F!GenerationsAssumption PROVE F!Spec => []Base
  BY InitBase, NextBase, PTL DEF F!Spec

\* Whatever requests and runs do side by side, under any number of names.
THEOREM FilesTyped == ASSUME F!GenerationsAssumption PROVE F!Spec => []F!TypeOK
  <1>1. Base => F!TypeOK
    <2> SUFFICES ASSUME Base PROVE F!TypeOK
      OBVIOUS
    <2>1. \A n \in Names : bake[n].at \in {"building", "switching", "linking", "pruning"}
                              => bake[n].date \in 1..today
      <3>1. \A n \in Names : bake[n].date \in 0..today
        <4>1. today \in Nat /\ \A n \in Names : bake[n] \in Bakes(today)
          BY DEF Base, TypesInv, F!GenerationsAssumption
        <4> QED BY <4>1, BakeShape
      <3>2. today \in Nat
        BY DEF Base, TypesInv, F!GenerationsAssumption
      <3> QED BY <3>1, <3>2 DEF Base, BakeInv, RunInv
    <2>2. \A n \in Names : bake[n] # F!NoBake => n = home
      BY DEF Base, BakeInv, RunInv
    <2> QED BY <2>1, <2>2 DEF Base, TypesInv, F!TypeOK
  <1> QED BY <1>1, BaseInvariant, PTL

\* Material that was paid for leaves the directory only when it is served, cannot be
\* built, moves with its collection, or is deleted.
THEOREM MaterialIsKept == ASSUME F!GenerationsAssumption PROVE F!Spec => F!MaterialKept
  <1> DEFINE Goes == \A n \in Names : \A d \in staged[n] \ staged'[n] :
                        \/ link[n] = d
                        \/ bake[n].at = "building" /\ bake[n].date = d
                        \/ \E m \in Names : d \in staged'[m]
                        \/ \E r \in Requests : request[r].job = "delete" /\ request[r].name = n
  <1>1. ASSUME Base, [F!Next]_F!vars PROVE [Goes]_F!vars
    <2>0. /\ staged \in [Names -> SUBSET (1..today)] /\ request \in [Requests -> Asked(today)]
          /\ \A r \in Requests : request[r].name \in Names /\ request[r].to \in Names
      <3>1. /\ staged \in [Names -> SUBSET (1..today)] /\ request \in [Requests -> Asked(today)]
            /\ today \in Nat
        BY <1>1 DEF Base, TypesInv, F!GenerationsAssumption
      <3> QED BY <3>1, AskedShape
    <2>1. ASSUME NEW n \in Names, F!BakeStep(n) PROVE staged' = staged \/ Goes
      BY <2>1, <2>0, <1>1 DEF F!BakeStep, F!Start, F!Fetch, F!FetchFails, F!Build, F!StopBuild, F!BreakBuild, F!Place, F!Link,
            F!Prune, F!Close, F!files, Base, BakeInv, RunInv
    <2>2. ASSUME NEW r \in Requests, F!RequestStep(r) PROVE staged' = staged \/ Goes
      <3>1. CASE F!UnlinkMaterial(r)
        BY <3>1, <2>0 DEF F!UnlinkMaterial
      <3>2. CASE F!MoveMaterial(r)
        BY <3>2, <2>0, <1>1 DEF F!MoveMaterial, Base, RenameInv
      <3>3. CASE F!Undo(r)
        <4> DEFINE n == request[r].name
                   m == request[r].to
        <4>1. n \in Names /\ m \in Names /\ n # m
          BY <3>3, <2>0, <1>1 DEF F!Undo, Base, RenameInv
        <4>2. staged' = staged
              \/ \E d : staged' = [staged EXCEPT ![m] = @ \ {d}, ![n] = @ \cup {d}]
          BY <3>3 DEF F!Undo, F!files
        <4>3. ASSUME NEW d, staged' = [staged EXCEPT ![m] = @ \ {d}, ![n] = @ \cup {d}]
              PROVE  Goes
          <5>1. /\ d \in staged'[n] /\ staged'[m] = staged[m] \ {d}
                /\ \A x \in Names \ {m} : staged[x] \subseteq staged'[x]
            BY <4>1, <4>3, <2>0
          <5> QED BY <5>1, <4>1
        <4> QED BY <4>2, <4>3
      <3> QED BY <3>1, <3>2, <3>3, <2>2 DEF F!RequestStep, F!RollBack, F!Delete, F!Rename, F!FindEarlier, F!PointBack,
            F!ListToDelete, F!UnlinkLink, F!UnlinkGeneration, F!ListToRename, F!Copy, F!PointNewLink, F!RemoveOldLink,
            F!RemoveOld, F!RenameFails, F!files
    <2>3. CASE F!Restart
      BY <2>3 DEF F!Restart, F!files
    <2>4. CASE UNCHANGED F!vars
      BY <2>4
    <2>5. staged' = staged => Goes
      OBVIOUS
    <2> QED BY <2>1, <2>2, <2>3, <2>4, <2>5, <1>1 DEF F!Next
  <1> QED BY <1>1, BaseInvariant, PTL DEF F!Spec, F!MaterialKept

-----------------------------------------------------------------------------
\* With one request thread: what is served stays.

LEMMA BaseFacts ==
    ASSUME Base, F!GenerationsAssumption
    PROVE  /\ today \in Nat /\ earlier \in 0..today /\ home \in Names
           /\ bake \in [Names -> Bakes(today)] /\ request \in [Requests -> Asked(today)]
           /\ gens \in [Names -> SUBSET (1..today)] /\ link \in [Names -> 0..today]
           /\ \A n \in Names : /\ gens[n] \in SUBSET (1..today) /\ 0 \notin gens[n]
                               /\ bake[n].old \in SUBSET (1..today) /\ 0 \notin bake[n].old
           /\ \A r \in Requests : request[r].name \in Names /\ request[r].to \in Names
  <1>1. /\ today \in Nat /\ earlier \in 0..today /\ home \in Names
        /\ bake \in [Names -> Bakes(today)] /\ request \in [Requests -> Asked(today)]
        /\ gens \in [Names -> SUBSET (1..today)] /\ link \in [Names -> 0..today]
    BY DEF Base, TypesInv, F!GenerationsAssumption
  <1>2. \A n \in Names : bake[n].old \in SUBSET (1..today)
    BY <1>1, BakeShape
  <1>3. \A r \in Requests : request[r].name \in Names /\ request[r].to \in Names
    BY <1>1, AskedShape
  <1> QED BY <1>1, <1>2, <1>3

LEMMA AcceptShape ==
    ASSUME Base, F!GenerationsAssumption, NEW r \in Requests, NEW job, NEW n, NEW m,
           F!Accept(r, job, n, m)
    PROVE  /\ request'[r].job = job /\ request'[r].name = n
           /\ request'[r].at = "checked" /\ request'[r].made = {}
  <1>1. request'[r] = [F!NoRequest EXCEPT !.job = job, !.at = "checked", !.name = n, !.to = m]
    BY BaseFacts DEF F!Accept
  <1> QED BY <1>1 DEF F!NoRequest

LEMMA NoRenameWhileBaking ==
    ASSUME Base, NEW n \in Names, F!BakeStep(n)
    PROVE  \A r \in Requests : request[r].job # "rename"
  <1>1. bake[n].at = "none" => ~F!Renaming(n)
    BY DEF F!BakeStep, F!Start, F!Fetch, F!FetchFails, F!Build, F!StopBuild, F!BreakBuild, F!Place, F!Link, F!Prune, F!Close
  <1>2. bake[n] = F!NoBake => bake[n].at = "none"
    BY DEF F!NoBake
  <1>3. n = home
    BY BakeKinds
  <1> QED BY <1>1, <1>2, <1>3 DEF Base, RenameInv, F!Renaming

\* What a step of a run does to the generations and the link of its name.
LEMMA BakeFiles ==
    ASSUME F!GenerationsAssumption, Base, KeepsInv, NEW n \in Names, F!BakeStep(n)
    PROVE  \/ UNCHANGED <<gens, link, kept, earlier>>
           \/ /\ bake[n].at = "switching" /\ gens[n] \subseteq gens'[n]
              /\ UNCHANGED <<link, kept, earlier>>
           \/ /\ bake[n].at = "linking" /\ UNCHANGED gens
              /\ link'[n] = bake[n].date /\ bake[n].date \in gens[n] /\ kept' = TRUE
              /\ earlier' = 0 \/ (kept /\ earlier' = link[n] /\ link[n] # bake[n].date)
           \/ /\ bake[n].at = "pruning" /\ link[n] \in gens'[n] /\ gens'[n] \subseteq gens[n]
              /\ earlier \in gens[n] => earlier \in gens'[n]
              /\ UNCHANGED <<link, kept, earlier>>
  <1>1. KeepsInv!(n) /\ RunInv(n)
    BY DEF KeepsInv, Base, BakeInv
  <1>2. /\ bake \in [Names -> Bakes(today)] /\ gens \in [Names -> SUBSET (1..today)]
        /\ link \in [Names -> 0..today]
    BY BaseFacts
  <1>3. CASE F!Start(n)
    BY <1>3 DEF F!Start, F!files
  <1>4. CASE F!Fetch(n)
    BY <1>4 DEF F!Fetch, F!files
  <1>5. CASE F!FetchFails(n)
    BY <1>5 DEF F!FetchFails, F!files
  <1>6. CASE F!Build(n)
    BY <1>6 DEF F!Build, F!files
  <1>7. CASE F!StopBuild(n)
    BY <1>7 DEF F!StopBuild, F!files
  <1>8. CASE F!BreakBuild(n)
    BY <1>8 DEF F!BreakBuild, F!files
  <1>9. CASE F!Place(n)
    BY <1>9, <1>1, <1>2 DEF F!Place, F!files
  <1>10. CASE F!Link(n)
    BY <1>10, <1>1, <1>2 DEF F!Link, F!files, RunInv
  <1>11. CASE F!Prune(n)
    BY <1>11, <1>1, <1>2 DEF F!Prune, F!files, RunInv
  <1>12. CASE F!Close(n)
    BY <1>12 DEF F!Close, F!files
  <1> QED BY <1>3, <1>4, <1>5, <1>6, <1>7, <1>8, <1>9, <1>10, <1>11, <1>12 DEF F!BakeStep

LEMMA KeepsStep ==
    ASSUME F!GenerationsAssumption, Base, KeepsInv, [F!Next]_F!vars
    PROVE  KeepsInv'
  <1>1. ASSUME NEW n \in Names, F!BakeStep(n) PROVE KeepsInv'
    <2>1. \A m \in Names \ {n} : bake'[m] = bake[m] /\ gens'[m] = gens[m]
      BY <1>1, BakeKinds
    <2>2. \A m \in Names \ {n} : bake[m].at = "none"
      <3>1. n = home
        BY <1>1, BakeKinds
      <3> QED BY <3>1 DEF Base, BakeInv, RunInv, F!NoBake
    <2>3. KeepsInv!(n)'
      <3>0. KeepsInv!(n) /\ RunInv(n)
        BY DEF KeepsInv, Base, BakeInv
      <3>a. /\ bake \in [Names -> Bakes(today)] /\ gens \in [Names -> SUBSET (1..today)]
            /\ link \in [Names -> 0..today] /\ 0 \notin gens[n]
        BY BaseFacts
      <3>1. CASE F!Start(n)
        BY <3>1, <3>0, <3>a DEF F!Start, F!Baking, F!files, F!NoBake, Bakes, RunInv, F!Keep
      <3>2. CASE F!Fetch(n)
        BY <3>2, <3>0, <3>a DEF F!Fetch, F!Baking, F!files, F!NoBake, Bakes, RunInv, F!Keep
      <3>3. CASE F!FetchFails(n)
        BY <3>3, <3>0, <3>a DEF F!FetchFails, F!Baking, F!files, F!NoBake, Bakes, RunInv, F!Keep
      <3>4. CASE F!Build(n)
        BY <3>4, <3>0, <3>a DEF F!Build, F!Baking, F!files, F!NoBake, Bakes, RunInv, F!Keep
      <3>5. CASE F!StopBuild(n)
        BY <3>5, <3>0, <3>a DEF F!StopBuild, F!Baking, F!files, F!NoBake, Bakes, RunInv, F!Keep
      <3>6. CASE F!BreakBuild(n)
        BY <3>6, <3>0, <3>a DEF F!BreakBuild, F!Baking, F!files, F!NoBake, Bakes, RunInv, F!Keep
      <3>7. CASE F!Place(n)
        BY <3>7, <3>0, <3>a DEF F!Place, F!Baking, F!files, F!NoBake, Bakes, RunInv, F!Keep
      <3>8. CASE F!Link(n)
        BY <3>8, <3>0, <3>a DEF F!Link, F!Baking, F!files, F!NoBake, Bakes, RunInv, F!Keep
      <3>9. CASE F!Prune(n)
        BY <3>9, <3>0, <3>a DEF F!Prune, F!Baking, F!files, F!NoBake, Bakes, RunInv, F!Keep
      <3>10. CASE F!Close(n)
        BY <3>10, <3>0, <3>a DEF F!Close, F!Baking, F!files, F!NoBake, Bakes, RunInv, F!Keep
      <3> QED BY <1>1, <3>1, <3>2, <3>3, <3>4, <3>5, <3>6, <3>7, <3>8, <3>9, <3>10 DEF F!BakeStep
    <2> QED BY <2>1, <2>2, <2>3 DEF KeepsInv
  <1>2. ASSUME NEW r \in Requests, F!RequestStep(r) PROVE KeepsInv'
    <2>1. bake' = bake
      BY <1>2, RequestKinds DEF Base
    <2>2. /\ \A n \in Names : gens[n] \ gens'[n] # {} /\ request[r].job # "rename" =>
                request[r].job = "delete" /\ request[r].name = n
          /\ earlier' \in {earlier, 0}
      BY <1>2, BaseFacts DEF F!RequestStep, F!RollBack, F!Delete, F!Rename, F!FindEarlier, F!PointBack,
            F!ListToDelete, F!UnlinkLink, F!UnlinkGeneration, F!UnlinkMaterial, F!ListToRename, F!Copy,
            F!PointNewLink, F!MoveMaterial, F!RemoveOldLink, F!RemoveOld, F!RenameFails, F!Undo, F!files
    <2> QED BY <2>1, <2>2, BaseFacts DEF KeepsInv, Base, BakeInv, RunInv, RenameInv, F!NoBake
  <1>3. CASE F!Restart
    BY <1>3 DEF F!Restart, KeepsInv, F!NoBake
  <1>4. CASE UNCHANGED F!vars
    BY <1>4 DEF F!vars, KeepsInv
  <1> QED BY <1>1, <1>2, <1>3, <1>4 DEF F!Next

LEMMA RequestInvStep ==
    ASSUME F!GenerationsAssumption, Base, KeepsInv, RequestInv, OneThread, [F!Next]_F!vars
    PROVE  RequestInv'
  <1>1. ASSUME NEW n \in Names, F!BakeStep(n) PROVE RequestInv'
    <2>1. /\ \A m \in Names \ {n} : gens'[m] = gens[m] /\ link'[m] = link[m]
          /\ UNCHANGED <<request, home>> /\ n = home /\ RunInv(n)
      BY <1>1, BakeKinds DEF Base, BakeInv
    <2>2. \A r \in Requests : request[r].name \in Names
      BY BaseFacts
    <2>3. CASE UNCHANGED <<gens, link, kept, earlier>>
      BY <2>1, <2>3 DEF RequestInv, F!Resolves
    <2>4. CASE /\ bake[n].at = "switching" /\ gens[n] \subseteq gens'[n]
               /\ UNCHANGED <<link, kept, earlier>>
      BY <2>1, <2>2, <2>4 DEF RequestInv, F!Resolves, RunInv
    <2>5. CASE /\ bake[n].at = "linking" /\ UNCHANGED gens
               /\ link'[n] = bake[n].date /\ bake[n].date \in gens[n] /\ kept' = TRUE
               /\ earlier' = 0 \/ (kept /\ earlier' = link[n] /\ link[n] # bake[n].date)
      BY <2>1, <2>2, <2>5 DEF RequestInv, F!Resolves, RunInv
    <2>6. CASE /\ bake[n].at = "pruning" /\ link[n] \in gens'[n] /\ gens'[n] \subseteq gens[n]
               /\ earlier \in gens[n] => earlier \in gens'[n]
               /\ UNCHANGED <<link, kept, earlier>>
      BY <2>1, <2>2, <2>6 DEF RequestInv, F!Resolves, RunInv
    <2> QED BY <1>1, <2>3, <2>4, <2>5, <2>6, BakeFiles
  <1>2. ASSUME NEW r \in Requests, F!RequestStep(r) PROVE RequestInv'
    <2>0. /\ today \in Nat /\ request \in [Requests -> Asked(today)] /\ request[r] \in Asked(today)
          /\ gens \in [Names -> SUBSET (1..today)] /\ link \in [Names -> 0..today]
          /\ request[r].name \in Names /\ home \in Names
      BY BaseFacts
    <2>a. Requests = {r}
      BY DEF OneThread
    <2>b. F!Answer(r) => RequestInv'
      BY <2>0, <2>a DEF F!Answer, F!NoRequest, RequestInv
    <2>c. RequestInv!(r)
      BY DEF RequestInv
    <2>d. request[r].job = "rename" => RequestInv'
      <3>1. F!Answer(r) \/ GoesOn(r) \/ Accepts(r)
        BY <1>2, RequestKinds DEF Base
      <3> QED BY <3>1, <2>a, <2>b DEF GoesOn, Accepts, RequestInv
    <2>1. CASE \E n \in Names : F!RollBack(r, n) \/ F!Delete(r, n) \/ \E m \in Names : F!Rename(r, n, m)
      <3>1. request'[r].job \in {"rollback", "delete", "rename"} /\ request'[r].at = "checked"
        BY <2>1, AcceptShape DEF F!RollBack, F!Delete, F!Rename
      <3>2. request'[r].job = "delete" => kept' = FALSE /\ earlier' = 0
        BY <2>1, AcceptShape DEF F!RollBack, F!Delete, F!Rename
      <3> QED BY <3>1, <3>2, <2>a DEF RequestInv
    <2>2. CASE F!FindEarlier(r)
      <3> DEFINE others == gens[request[r].name] \ {link[request[r].name]}
      <3>1. CASE F!Answer(r)
        BY <3>1, <2>b
      <3>2. CASE /\ others # {}
                 /\ request' = [request EXCEPT ![r].at = "found", ![r].live = F!Max(others)]
        <4>1. others \in SUBSET (1..today)
          BY <2>0
        <4> HIDE DEF others
        <4>2. F!Max(others) \in others
          BY <4>1, <3>2, <2>0, MaxIn
        <4>3. F!Max(others) \in gens[request[r].name]
          BY <4>2 DEF others
        <4> DEFINE d == F!Max(others)
        <4>4. request' = [request EXCEPT ![r].at = "found", ![r].live = d] /\ d \in gens[request[r].name]
          BY <4>3, <3>2
        <4> HIDE DEF d
        <4>5. /\ request'[r].job = request[r].job /\ request'[r].name = request[r].name
              /\ request'[r].live = d
          BY <4>4, <2>0 DEF Asked
        <4>6. request[r].job = "rollback" /\ UNCHANGED gens
          BY <2>2 DEF F!FindEarlier, F!files
        <4> QED BY <4>4, <4>5, <4>6, <2>a DEF RequestInv
      <3> QED BY <3>1, <3>2, <2>2 DEF F!FindEarlier
    <2>3. CASE F!PointBack(r)
      BY <2>3, <2>b DEF F!PointBack
    <2>4. CASE F!ListToDelete(r)
      <3>1. /\ request[r].job = "delete" /\ UNCHANGED <<home, kept, earlier>> /\ UNCHANGED <<gens, link>>
        BY <2>4, <2>0 DEF F!ListToDelete, F!files
      <3>2. F!Answer(r) \/ (request'[r].job = "delete" /\ request'[r].name = request[r].name)
        <4>1. F!Answer(r) \/ GoesOn(r) \/ Accepts(r)
          BY <1>2, RequestKinds DEF Base
        <4> QED BY <4>1, <3>1 DEF GoesOn, Accepts
      <3> QED BY <3>1, <3>2, <2>a, <2>b, <2>c, <2>0 DEF RequestInv, F!Resolves
    <2>5. CASE F!UnlinkLink(r)
      <3>1. /\ request[r].job = "delete" /\ UNCHANGED <<home, kept, earlier>> /\ UNCHANGED gens
                /\ \A n \in Names \ {request[r].name} : link'[n] = link[n]
        BY <2>5, <2>0 DEF F!UnlinkLink, F!files
      <3>2. F!Answer(r) \/ (request'[r].job = "delete" /\ request'[r].name = request[r].name)
        <4>1. F!Answer(r) \/ GoesOn(r) \/ Accepts(r)
          BY <1>2, RequestKinds DEF Base
        <4> QED BY <4>1, <3>1 DEF GoesOn, Accepts
      <3> QED BY <3>1, <3>2, <2>a, <2>b, <2>c, <2>0 DEF RequestInv, F!Resolves
    <2>6. CASE F!UnlinkGeneration(r)
      <3>1. /\ request[r].job = "delete" /\ UNCHANGED <<home, kept, earlier>> /\ UNCHANGED link
                /\ \A n \in Names \ {request[r].name} : gens'[n] = gens[n]
        BY <2>6, <2>0 DEF F!UnlinkGeneration, F!files
      <3>2. F!Answer(r) \/ (request'[r].job = "delete" /\ request'[r].name = request[r].name)
        <4>1. F!Answer(r) \/ GoesOn(r) \/ Accepts(r)
          BY <1>2, RequestKinds DEF Base
        <4> QED BY <4>1, <3>1 DEF GoesOn, Accepts
      <3> QED BY <3>1, <3>2, <2>a, <2>b, <2>c, <2>0 DEF RequestInv, F!Resolves
    <2>7. CASE F!UnlinkMaterial(r)
      <3>1. /\ request[r].job = "delete" /\ UNCHANGED <<home, kept, earlier>> /\ UNCHANGED <<gens, link>>
        BY <2>7, <2>0 DEF F!UnlinkMaterial, F!files
      <3>2. F!Answer(r) \/ (request'[r].job = "delete" /\ request'[r].name = request[r].name)
        <4>1. F!Answer(r) \/ GoesOn(r) \/ Accepts(r)
          BY <1>2, RequestKinds DEF Base
        <4> QED BY <4>1, <3>1 DEF GoesOn, Accepts
      <3> QED BY <3>1, <3>2, <2>a, <2>b, <2>c, <2>0 DEF RequestInv, F!Resolves
    <2>8. CASE F!ListToRename(r)
      BY <2>8, <2>d DEF F!ListToRename
    <2>9. CASE F!Copy(r)
      BY <2>9, <2>d DEF F!Copy
    <2>10. CASE F!PointNewLink(r)
      BY <2>10, <2>d DEF F!PointNewLink
    <2>11. CASE F!MoveMaterial(r)
      BY <2>11, <2>d DEF F!MoveMaterial
    <2>12. CASE F!RemoveOldLink(r)
      BY <2>12, <2>d DEF F!RemoveOldLink
    <2>13. CASE F!RemoveOld(r)
      BY <2>13, <2>d DEF F!RemoveOld
    <2>14. CASE F!RenameFails(r)
      BY <2>14, <2>d DEF F!RenameFails
    <2>15. CASE F!Undo(r)
      BY <2>15, <2>d DEF F!Undo
    <2> QED BY <1>2, <2>1, <2>2, <2>3, <2>4, <2>5, <2>6, <2>7, <2>8, <2>9, <2>10, <2>11, <2>12, <2>13, <2>14, <2>15 DEF F!RequestStep
  <1>3. CASE F!Restart
    BY <1>3 DEF F!Restart, RequestInv, F!NoRequest
  <1>4. CASE UNCHANGED F!vars
    BY <1>4 DEF F!vars, RequestInv, F!Resolves
  <1> QED BY <1>1, <1>2, <1>3, <1>4 DEF F!Next

LEMMA MoveStep ==
    ASSUME F!GenerationsAssumption, Base, MoveInv, OneThread, [F!Next]_F!vars
    PROVE  MoveInv'
  <1>1. ASSUME NEW n \in Names, F!BakeStep(n) PROVE MoveInv'
    <2>1. \A r \in Requests : request'[r].job # "rename"
      BY <1>1, NoRenameWhileBaking, BakeKinds
    <2> QED BY <2>1 DEF MoveInv
  <1>2. ASSUME NEW r \in Requests, F!RequestStep(r) PROVE MoveInv'
    <2> DEFINE q == request[r]
               n == request[r].name
               m == request[r].to
    <2>0. /\ today \in Nat /\ request \in [Requests -> Asked(today)] /\ q \in Asked(today)
          /\ gens \in [Names -> SUBSET (1..today)] /\ link \in [Names -> 0..today]
          /\ n \in Names /\ m \in Names
      BY BaseFacts
    <2>n. q.job = "rename" => n # m
      BY DEF Base, RenameInv
    <2>a. Requests = {r}
      BY DEF OneThread
    <2>b. F!Answer(r) => MoveInv'
      <3>1. F!Answer(r) => request'[r].job = "none"
        BY <2>0 DEF F!Answer, F!NoRequest
      <3> QED BY <3>1, <2>a DEF MoveInv
    <2>c. q.job = "rename" => Moves(q)
      BY DEF MoveInv
    <2>d. q.job \in {"rollback", "delete"} => MoveInv'
      <3>1. F!Answer(r) \/ GoesOn(r) \/ Accepts(r)
        BY <1>2, RequestKinds DEF Base
      <3> QED BY <3>1, <2>a, <2>b DEF GoesOn, Accepts, MoveInv
    <2>e. ASSUME NEW at, F!Step(r, at)
          PROVE  /\ request'[r].at = at /\ request'[r].name = n /\ request'[r].to = m
                 /\ request'[r].live = q.live /\ request'[r].gens = q.gens
                 /\ request'[r].made = q.made
      <3>1. request'[r] = [q EXCEPT !.at = at]
        BY <2>e, <2>0 DEF F!Step
      <3> QED BY <3>1, <2>0 DEF Asked
    <2>f. MoveInv' = (request'[r].job = "rename" => Moves(request[r])')
      BY <2>a DEF MoveInv
    <2>1. CASE \E x \in Names : F!RollBack(r, x) \/ F!Delete(r, x) \/ \E y \in Names : F!Rename(r, x, y)
      <3>1. request'[r].at = "checked" /\ request'[r].made = {}
        BY <2>1, AcceptShape DEF F!RollBack, F!Delete, F!Rename
      <3> QED BY <3>1, <2>a DEF MoveInv, Moves
    <2>2. CASE F!FindEarlier(r)
      BY <2>2, <2>d DEF F!FindEarlier
    <2>3. CASE F!PointBack(r)
      BY <2>3, <2>d DEF F!PointBack
    <2>4. CASE F!ListToDelete(r)
      BY <2>4, <2>d DEF F!ListToDelete
    <2>5. CASE F!UnlinkLink(r)
      BY <2>5, <2>d DEF F!UnlinkLink
    <2>6. CASE F!UnlinkGeneration(r)
      BY <2>6, <2>d DEF F!UnlinkGeneration
    <2>7. CASE F!UnlinkMaterial(r)
      BY <2>7, <2>d DEF F!UnlinkMaterial
    <2>8. CASE F!ListToRename(r)
      <3>1. CASE F!Answer(r)
        BY <3>1, <2>b
      <3>2. CASE ~F!Answer(r)
        <4> DEFINE d == link[n]
                   G == gens[n]
                   H == staged[n]
        <4>1. /\ q.job = "rename" /\ q.at = "checked" /\ F!MayRename(n, m)
              /\ UNCHANGED <<gens, link>>
          BY <2>8, <3>2 DEF F!ListToRename, F!files
        <4>2. request' = [request EXCEPT ![r].at = "copying", ![r].live = d, ![r].gens = G, ![r].staged = H]
          BY <2>8, <3>2 DEF F!ListToRename
        <4> HIDE DEF d, G, H, n, m
        <4>3. request'[r] = [q EXCEPT !.at = "copying", !.live = d, !.gens = G, !.staged = H]
          BY <4>2, <2>0
        <4>4. /\ request'[r].at = "copying" /\ request'[r].name = q.name /\ request'[r].to = q.to
              /\ request'[r].live = d /\ request'[r].gens = G /\ request'[r].made = q.made
          BY <4>3, <2>0 DEF Asked
        <4>5. q.made = {}
          BY <2>c, <4>1 DEF Moves
        <4>6. /\ d = link[n] /\ G = gens[n] /\ n = q.name /\ m = q.to
              /\ d # 0 => d \in G
              /\ link[m] = 0 /\ gens[m] = {}
          BY <4>1 DEF F!MayRename, F!HasFiles, F!Resolves, d, G, n, m
        <4> QED BY <4>1, <4>4, <4>5, <4>6, <2>f DEF Moves
      <3> QED BY <3>1, <3>2
    <2>9. CASE F!Copy(r)
      <3> DEFINE d == F!Min(q.gens \ q.made)
      <3>1. /\ q.job = "rename" /\ q.at = "copying" /\ UNCHANGED link
            /\ q.gens \ q.made # {} /\ q.gens \ q.made \in SUBSET Nat
        BY <2>9, <2>0, AskedShape DEF F!Copy
      <3>2. d \in q.gens
        BY <3>1, MinIn
      <3>3. /\ gens' = [gens EXCEPT ![m] = @ \cup {d}]
            /\ request' = [request EXCEPT ![r].made = @ \cup {d}]
        BY <2>9 DEF F!Copy
      <3> HIDE DEF d
      <3>4. gens'[n] = gens[n] /\ gens'[m] = gens[m] \cup {d}
        BY <3>1, <3>3, <2>0, <2>n
      <3>5. request'[r] = [q EXCEPT !.made = q.made \cup {d}]
        BY <3>3, <2>0
      <3>6. /\ request'[r].at = "copying" /\ request'[r].name = n /\ request'[r].to = m
            /\ request'[r].live = q.live /\ request'[r].gens = q.gens
            /\ request'[r].made = q.made \cup {d}
        BY <3>1, <3>5, <2>0 DEF Asked
      <3> QED BY <3>1, <3>2, <3>4, <3>6, <2>c, <2>f DEF Moves
    <2>10. CASE F!PointNewLink(r)
      <3>1. /\ q.job = "rename" /\ q.at = "copying" /\ q.gens = q.made /\ UNCHANGED gens
            /\ F!Step(r, "moving")
            /\ link' = IF q.live = 0 THEN link ELSE [link EXCEPT ![m] = q.live]
        BY <2>10 DEF F!PointNewLink
      <3>2. link'[n] = link[n] /\ (link'[m] = q.live \/ (q.live = 0 /\ link'[m] = link[m]))
        BY <3>1, <2>0, <2>n
      <3>3. /\ request'[r].at = "moving" /\ request'[r].name = n /\ request'[r].to = m
            /\ request'[r].live = q.live /\ request'[r].gens = q.gens
        BY <3>1, <2>e
      <3> QED BY <3>1, <3>2, <3>3, <2>c, <2>f DEF Moves
    <2>11. CASE F!MoveMaterial(r)
      <3>1. PICK G, H : request' = [request EXCEPT ![r].staged = G, ![r].moved = H]
        BY <2>11 DEF F!MoveMaterial
      <3>2. q.job = "rename" /\ q.at = "moving" /\ UNCHANGED <<gens, link>>
        BY <2>11 DEF F!MoveMaterial
      <3>3. request'[r] = [q EXCEPT !.staged = G, !.moved = H]
        BY <3>1, <2>0
      <3>4. /\ request'[r].at = q.at /\ request'[r].name = n /\ request'[r].to = m
            /\ request'[r].live = q.live /\ request'[r].gens = q.gens /\ request'[r].made = q.made
        BY <3>3, <2>0 DEF Asked
      <3> QED BY <3>2, <3>4, <2>c, <2>f DEF Moves
    <2>12. CASE F!RemoveOldLink(r)
      <3>1. /\ q.job = "rename" /\ q.at = "moving" /\ UNCHANGED gens /\ F!Step(r, "removing")
            /\ link' = [link EXCEPT ![n] = 0]
        BY <2>12 DEF F!RemoveOldLink
      <3>2. link'[n] = 0 /\ link'[m] = link[m]
        BY <3>1, <2>0, <2>n
      <3>3. /\ request'[r].at = "removing" /\ request'[r].name = n /\ request'[r].to = m
            /\ request'[r].live = q.live /\ request'[r].gens = q.gens
        BY <3>1, <2>e
      <3> QED BY <3>1, <3>2, <3>3, <2>c, <2>f DEF Moves
    <2>13. CASE F!RemoveOld(r)
      <3>1. CASE F!Answer(r)
        BY <3>1, <2>b
      <3>2. CASE ~F!Answer(r)
        <4>1. /\ q.job = "rename" /\ q.at = "removing" /\ UNCHANGED link
              /\ \E d : /\ gens' = [gens EXCEPT ![n] = @ \ {d}]
                        /\ request' = [request EXCEPT ![r].gens = @ \ {d}]
          BY <2>13, <3>2 DEF F!RemoveOld
        <4>2. PICK d : /\ gens' = [gens EXCEPT ![n] = @ \ {d}]
                       /\ request' = [request EXCEPT ![r].gens = @ \ {d}]
          BY <4>1
        <4>3. gens'[m] = gens[m]
          BY <4>1, <4>2, <2>0, <2>n
        <4>4. request'[r] = [q EXCEPT !.gens = q.gens \ {d}]
          BY <4>2, <2>0
        <4>5. /\ request'[r].at = "removing" /\ request'[r].name = n /\ request'[r].to = m
              /\ request'[r].live = q.live
          BY <4>1, <4>4, <2>0 DEF Asked
        <4> QED BY <4>1, <4>3, <4>5, <2>c, <2>f DEF Moves
      <3> QED BY <3>1, <3>2
    <2>14. CASE F!RenameFails(r)
      <3>1. /\ q.job = "rename" /\ q.at \in {"copying", "moving"} /\ UNCHANGED <<gens, link>>
            /\ F!Step(r, "undoing") \/ F!Step(r, "undoing link")
        BY <2>14 DEF F!RenameFails, F!files
      <3>2. /\ request'[r].at \in {"undoing", "undoing link"}
            /\ request'[r].name = n /\ request'[r].to = m
            /\ request'[r].live = q.live /\ request'[r].gens = q.gens
        BY <3>1, <2>e
      <3> QED BY <3>1, <3>2, <2>c, <2>f DEF Moves
    <2>15. CASE F!Undo(r)
      <3>1. q.job = "rename" /\ q.at \in {"undoing", "undoing link"}
        BY <2>15 DEF F!Undo
      <3>2. CASE \E d : /\ gens' = [gens EXCEPT ![m] = @ \ {d}]
                        /\ request' = [request EXCEPT ![r].made = @ \ {d}]
                        /\ UNCHANGED link
        <4>1. PICK d : /\ gens' = [gens EXCEPT ![m] = @ \ {d}]
                       /\ request' = [request EXCEPT ![r].made = @ \ {d}]
          BY <3>2
        <4>2. gens'[n] = gens[n] /\ gens'[m] = gens[m] \ {d}
          BY <4>1, <3>1, <2>0, <2>n
        <4>3. request'[r] = [q EXCEPT !.made = q.made \ {d}]
          BY <4>1, <2>0
        <4>4. /\ request'[r].at = q.at /\ request'[r].name = n /\ request'[r].to = m
              /\ request'[r].live = q.live /\ request'[r].gens = q.gens
          BY <4>3, <2>0 DEF Asked
        <4> QED BY <4>2, <4>4, <3>1, <3>2, <2>c, <2>f DEF Moves
      <3>3. CASE link' = [link EXCEPT ![m] = 0] /\ F!Step(r, "undoing") /\ UNCHANGED gens
        <4>1. link'[n] = link[n] /\ link'[m] = 0
          BY <3>1, <3>3, <2>0, <2>n
        <4>2. /\ request'[r].at = "undoing" /\ request'[r].name = n /\ request'[r].to = m
              /\ request'[r].live = q.live /\ request'[r].gens = q.gens
          BY <3>3, <2>e
        <4> QED BY <4>1, <4>2, <3>1, <3>3, <2>c, <2>f DEF Moves
      <3>4. CASE \E O : request' = [request EXCEPT ![r].moved = O] /\ UNCHANGED <<gens, link>>
        <4>1. PICK O : request' = [request EXCEPT ![r].moved = O]
          BY <3>4
        <4>2. request'[r] = [q EXCEPT !.moved = O]
          BY <4>1, <2>0
        <4>3. /\ request'[r].at = q.at /\ request'[r].name = n /\ request'[r].to = m
              /\ request'[r].live = q.live /\ request'[r].gens = q.gens
          BY <4>2, <2>0 DEF Asked
        <4> QED BY <4>3, <3>1, <3>4, <2>c, <2>f DEF Moves
      <3>5. CASE F!Answer(r)
        BY <3>5, <2>b
      <3>6. \/ \E d : /\ gens' = [gens EXCEPT ![m] = @ \ {d}]
                      /\ request' = [request EXCEPT ![r].made = @ \ {d}]
                      /\ UNCHANGED link
            \/ link' = [link EXCEPT ![m] = 0] /\ F!Step(r, "undoing") /\ UNCHANGED gens
            \/ \E O : request' = [request EXCEPT ![r].moved = O] /\ UNCHANGED <<gens, link>>
            \/ F!Answer(r)
        BY <2>15 DEF F!Undo
      <3> QED BY <3>2, <3>3, <3>4, <3>5, <3>6
    <2> QED BY <1>2, <2>1, <2>2, <2>3, <2>4, <2>5, <2>6, <2>7, <2>8, <2>9, <2>10, <2>11, <2>12, <2>13, <2>14, <2>15 DEF F!RequestStep
  <1>3. CASE F!Restart
    BY <1>3 DEF F!Restart, MoveInv, F!NoRequest
  <1>4. CASE UNCHANGED F!vars
    BY <1>4 DEF F!vars, MoveInv, Moves
  <1> QED BY <1>1, <1>2, <1>3, <1>4 DEF F!Next

\* The name n serves, and what is asked for under it is there.
Serves(n, e) == F!Resolves(n) /\ (e = 0 \/ e \in gens[n])

\* A request that deletes nothing takes away no name that serves without another one
\* that serves as well.
LEMMA StaysServed ==
    ASSUME F!GenerationsAssumption, Base, RequestInv, MoveInv, NEW r \in Requests, F!RequestStep(r),
           request[r].job # "delete", NEW e, \E x \in Names : Serves(x, e)
    PROVE  \E x \in Names : Serves(x, e)'
  <1> DEFINE q == request[r]
             n == request[r].name
             m == request[r].to
  <1>0. /\ gens \in [Names -> SUBSET (1..today)] /\ link \in [Names -> 0..today]
        /\ n \in Names /\ m \in Names /\ today \in Nat /\ \A x \in Names : 0 \notin gens[x]
    BY BaseFacts
  <1>1. PICK x \in Names : Serves(x, e)
    OBVIOUS
  <1>2. q.job = "rename" => n # m /\ Moves(q)
    BY DEF MoveInv, Base, RenameInv
  <1>3. UNCHANGED <<gens, link>> => Serves(x, e)'
    BY <1>1 DEF Serves, F!Resolves
  <1>a. CASE \E y \in Names : F!RollBack(r, y) \/ F!Delete(r, y) \/ \E z \in Names : F!Rename(r, y, z)
    BY <1>a, <1>3 DEF F!RollBack, F!Delete, F!Rename, F!files
  <1>b. CASE F!PointBack(r)
    <2>1. q.live \in gens[n] /\ link' = [link EXCEPT ![n] = q.live] /\ UNCHANGED gens
      BY <1>b DEF F!PointBack, RequestInv
    <2> QED BY <2>1, <1>0, <1>1 DEF Serves, F!Resolves
  <1>c. CASE F!Copy(r)
    <2>1. /\ gens[m] \subseteq gens'[m] /\ \A y \in Names \ {m} : gens'[y] = gens[y]
          /\ UNCHANGED link
      BY <1>c, <1>0 DEF F!Copy
    <2> QED BY <2>1, <1>1 DEF Serves, F!Resolves
  <1>d. CASE F!PointNewLink(r)
    <2>1. /\ q.job = "rename" /\ q.at = "copying" /\ q.gens = q.made /\ UNCHANGED gens
          /\ link' = IF q.live = 0 THEN link ELSE [link EXCEPT ![m] = q.live]
      BY <1>d DEF F!PointNewLink
    <2>2. q.live # 0 => q.live \in gens[m]
      BY <2>1, <1>2 DEF Moves
    <2> QED BY <2>1, <2>2, <1>0, <1>1 DEF Serves, F!Resolves
  <1>e. CASE F!RemoveOldLink(r)
    <2>1. /\ q.job = "rename" /\ q.at = "moving" /\ UNCHANGED gens
          /\ link' = [link EXCEPT ![n] = 0]
      BY <1>e DEF F!RemoveOldLink
    <2>2. /\ gens[n] \subseteq gens[m] /\ link[m] = link[n]
      BY <2>1, <1>2 DEF Moves
    <2>3. ASSUME x = n PROVE \E y \in Names : Serves(y, e)'
      <3>1. link'[m] = link[m] /\ gens' = gens
        BY <2>1, <1>0, <1>2
      <3>2. link[n] \in gens[n] /\ (e = 0 \/ e \in gens[n])
        BY <2>3, <1>1 DEF Serves, F!Resolves
      <3>3. link'[m] \in gens'[m] /\ (e = 0 \/ e \in gens'[m])
        BY <3>1, <3>2, <2>2
      <3>4. PICK y \in Names : y = m
        BY <1>0
      <3> QED BY <3>3, <3>4 DEF Serves, F!Resolves
    <2>4. x # n => Serves(x, e)'
      BY <2>1, <1>0, <1>1 DEF Serves, F!Resolves
    <2> QED BY <2>3, <2>4, <1>0, <1>1
  <1>f. CASE F!RemoveOld(r)
    <2>1. /\ q.job = "rename" /\ q.at = "removing" /\ UNCHANGED link
          /\ \A y \in Names \ {n} : gens'[y] = gens[y]
      BY <1>f, <1>0 DEF F!RemoveOld
    <2>2. link[n] = 0
      BY <2>1, <1>2 DEF Moves
    <2> QED BY <2>1, <2>2, <1>0, <1>1 DEF Serves, F!Resolves
  <1>g. CASE F!Undo(r)
    <2>1. /\ q.job = "rename" /\ q.at \in {"undoing", "undoing link"}
          /\ \A y \in Names \ {m} : gens'[y] = gens[y] /\ link'[y] = link[y]
      BY <1>g, <1>0 DEF F!Undo, F!files
    <2>2. /\ gens[m] \subseteq gens[n] /\ link[m] \in {0, link[n]}
      BY <2>1, <1>2 DEF Moves
    <2>3. ASSUME x = m PROVE \E y \in Names : Serves(y, e)'
      <3>1. link'[n] = link[n] /\ gens'[n] = gens[n]
        BY <2>1, <1>0, <1>2
      <3>2. link[m] \in gens[m] /\ (e = 0 \/ e \in gens[m]) /\ link[m] # 0
        BY <2>3, <1>0, <1>1 DEF Serves, F!Resolves
      <3>3. link'[n] \in gens'[n] /\ (e = 0 \/ e \in gens'[n])
        BY <3>1, <3>2, <2>2
      <3>4. PICK y \in Names : y = n
        BY <1>0
      <3> QED BY <3>3, <3>4 DEF Serves, F!Resolves
    <2>4. x # m => Serves(x, e)'
      BY <2>1, <1>1 DEF Serves, F!Resolves
    <2> QED BY <2>3, <2>4, <1>0, <1>1
  <1>h. CASE F!FindEarlier(r) \/ F!ListToRename(r) \/ F!MoveMaterial(r) \/ F!RenameFails(r)
    BY <1>h, <1>3 DEF F!FindEarlier, F!ListToRename, F!MoveMaterial, F!RenameFails, F!files
  <1> QED BY <1>a, <1>b, <1>c, <1>d, <1>e, <1>f, <1>g, <1>h
          DEF F!RequestStep, F!ListToDelete, F!UnlinkLink, F!UnlinkGeneration, F!UnlinkMaterial

\* A deletion leaves the name that is served; what it does to the histories is done when
\* it is asked for.
LEMMA DeletionSpares ==
    ASSUME F!GenerationsAssumption, Base, RequestInv, NEW r \in Requests, F!RequestStep(r),
           request[r].job = "delete", kept
    PROVE  /\ home # request[r].name /\ F!Resolves(home)
           /\ gens'[home] = gens[home] /\ link'[home] = link[home]
  <1>1. home # request[r].name /\ F!Resolves(home)
    BY DEF RequestInv
  <1>2. /\ gens \in [Names -> SUBSET (1..today)] /\ link \in [Names -> 0..today] /\ home \in Names
    BY BaseFacts
  <1> QED BY <1>1, <1>2 DEF F!RequestStep, F!RollBack, F!Delete, F!Rename, F!FindEarlier, F!PointBack,
            F!ListToDelete, F!UnlinkLink, F!UnlinkGeneration, F!UnlinkMaterial, F!ListToRename, F!Copy,
            F!PointNewLink, F!MoveMaterial, F!RemoveOldLink, F!RemoveOld, F!RenameFails, F!Undo, F!files

LEMMA Histories ==
    ASSUME NEW r \in Requests, F!RequestStep(r)
    PROVE  UNCHANGED <<kept, earlier>> \/ (kept' = FALSE /\ earlier' = 0)
  BY DEF F!RequestStep, F!RollBack, F!Delete, F!Rename, F!FindEarlier, F!PointBack,
            F!ListToDelete, F!UnlinkLink, F!UnlinkGeneration, F!UnlinkMaterial, F!ListToRename, F!Copy,
            F!PointNewLink, F!MoveMaterial, F!RemoveOldLink, F!RemoveOld, F!RenameFails, F!Undo

LEMMA ServedStep ==
    ASSUME F!GenerationsAssumption, Base, KeepsInv, RequestInv, MoveInv, F!NeverUnserved, [F!Next]_F!vars
    PROVE  F!NeverUnserved'
  <1>0. home \in Names /\ \A x \in Names : 0 \notin gens[x]
    BY BaseFacts
  <1>1. ASSUME NEW n \in Names, F!BakeStep(n) PROVE F!NeverUnserved'
    <2>1. \A m \in Names \ {n} : gens'[m] = gens[m] /\ link'[m] = link[m]
      BY <1>1, BakeKinds
    <2>2. RunInv(n)
      BY DEF Base, BakeInv
    <2> QED BY <2>1, <2>2, <1>1, BakeFiles DEF F!NeverUnserved, F!Resolves, RunInv
  <1>2. ASSUME NEW r \in Requests, F!RequestStep(r) PROVE F!NeverUnserved'
    <2>1. CASE request[r].job = "delete"
      BY <2>1, <1>0, <1>2, DeletionSpares, Histories DEF F!NeverUnserved, F!Resolves
    <2>2. CASE request[r].job # "delete"
      <3>1. kept => \E x \in Names : Serves(x, 0)
        BY DEF F!NeverUnserved, Serves
      <3>2. kept => \E x \in Names : Serves(x, 0)'
        BY <3>1, <2>2, <1>2, StaysServed
      <3> QED BY <3>2, <1>2, Histories DEF F!NeverUnserved, Serves
    <2> QED BY <2>1, <2>2
  <1>3. CASE F!Restart \/ UNCHANGED F!vars
    BY <1>3 DEF F!Restart, F!vars, F!files, F!NeverUnserved, F!Resolves
  <1> QED BY <1>1, <1>2, <1>3 DEF F!Next

FilesInv == Base /\ KeepsInv /\ RequestInv /\ MoveInv /\ F!NeverUnserved

LEMMA FilesInvariant ==
    ASSUME F!GenerationsAssumption, OneThread PROVE F!Spec => []FilesInv
  <1>1. F!Init => FilesInv
    <2>1. ASSUME F!Init PROVE KeepsInv /\ RequestInv /\ MoveInv /\ F!NeverUnserved
      BY <2>1 DEF F!Init, KeepsInv, RequestInv, MoveInv, F!NeverUnserved, F!NoBake, F!NoRequest
    <2> QED BY <2>1, InitBase DEF FilesInv
  <1>2. FilesInv /\ [F!Next]_F!vars => FilesInv'
    BY NextBase, KeepsStep, RequestInvStep, MoveStep, ServedStep DEF FilesInv
  <1> QED BY <1>1, <1>2, PTL DEF F!Spec

\* Whatever fails and wherever the trigger is restarted, under any number of names.
THEOREM ServedAlways ==
    ASSUME F!GenerationsAssumption, OneThread PROVE F!Spec => []F!NeverUnserved
  BY FilesInvariant, PTL DEF FilesInv

-----------------------------------------------------------------------------
\* With two names, the second of them is free when nothing is left to rename.

LEMMA LinkStep ==
    ASSUME F!GenerationsAssumption, TwoNames, FilesInv, F!LinkResolves, [F!Next]_F!vars
    PROVE  F!LinkResolves'
  <1>0. /\ gens \in [Names -> SUBSET (1..today)] /\ link \in [Names -> 0..today]
        /\ home \in Names /\ \A x \in Names : 0 \notin gens[x]
        /\ \A r \in Requests : request[r].name \in Names /\ request[r].to \in Names
    BY BaseFacts DEF FilesInv
  <1>1. ASSUME NEW n \in Names, F!BakeStep(n) PROVE F!LinkResolves'
    <2>1. n = home /\ home' = home
      BY <1>1, BakeKinds DEF FilesInv
    <2> QED BY <2>1, <1>1, BakeFiles DEF FilesInv, F!LinkResolves, F!Resolves
  <1>2. ASSUME NEW r \in Requests, F!RequestStep(r) PROVE F!LinkResolves'
    <2> DEFINE q == request[r]
               n == request[r].name
               m == request[r].to
    <2>h. UNCHANGED <<kept, earlier>> \/ kept' = FALSE
      BY <1>2, Histories
    <2>k. ~kept => F!LinkResolves'
      BY <2>h DEF F!LinkResolves
    <2>s. UNCHANGED <<gens, link, home>> => F!LinkResolves'
      BY <2>h DEF F!LinkResolves, F!Resolves
    <2>1. CASE q.job = "delete" /\ kept
      <3>1. home' = home
        BY <2>1, <1>2, RequestLinks DEF FilesInv, Base
      <3> QED BY <3>1, <2>1, <1>2, DeletionSpares DEF FilesInv, F!LinkResolves, F!Resolves
    <2>2. CASE F!PointBack(r)
      <3>1. q.live \in gens[n] /\ link' = [link EXCEPT ![n] = q.live] /\ UNCHANGED <<gens, home, kept>>
        BY <2>2 DEF F!PointBack, FilesInv, RequestInv
      <3> QED BY <3>1, <1>0 DEF F!LinkResolves, F!Resolves
    <2>m. q.job = "rename" => n = home /\ m # n /\ Moves(q)
      BY DEF FilesInv, MoveInv, Base, RenameInv
    <2>3. CASE F!ListToRename(r)
      <3>1. CASE F!MayRename(n, m) \/ F!HasFiles(n)
        BY <3>1, <2>3, <2>s DEF F!ListToRename, F!files
      <3>2. CASE ~F!HasFiles(n) /\ ~F!MayRename(n, m) /\ kept
        <4>1. UNCHANGED <<gens, link, kept>> /\ home' = m
          BY <3>2, <2>3 DEF F!ListToRename, F!files
        <4>2. PICK x \in Names : F!Resolves(x)
          BY <3>2 DEF FilesInv, F!NeverUnserved
        <4>3. x # n
          BY <3>2, <4>2 DEF F!HasFiles, F!Resolves
        <4>4. n # m
          BY <2>m, <2>3 DEF F!ListToRename
        <4>5. x = m
          BY <4>3, <4>4, <1>0 DEF TwoNames
        <4> QED BY <4>1, <4>2, <4>5 DEF F!LinkResolves, F!Resolves
      <3> QED BY <3>1, <3>2, <2>k DEF F!MayRename
    <2>4. CASE F!Copy(r)
      <3>1. UNCHANGED <<link, home, kept>> /\ \A x \in Names : gens[x] \subseteq gens'[x]
        BY <2>4, <1>0 DEF F!Copy
      <3> QED BY <3>1, <1>0 DEF F!LinkResolves, F!Resolves
    <2>5. CASE F!PointNewLink(r)
      <3>1. /\ UNCHANGED <<gens, home, kept>> /\ q.job = "rename"
            /\ link' = IF q.live = 0 THEN link ELSE [link EXCEPT ![m] = q.live]
        BY <2>5 DEF F!PointNewLink
      <3> QED BY <3>1, <2>m, <1>0 DEF F!LinkResolves, F!Resolves
    <2>6. CASE F!RemoveOldLink(r)
      <3>1. /\ UNCHANGED <<gens, home, kept>> /\ q.job = "rename"
            /\ link' = [link EXCEPT ![n] = 0]
        BY <2>6 DEF F!RemoveOldLink
      <3> QED BY <3>1, <2>m, <1>0 DEF F!LinkResolves, F!Resolves
    <2>7. CASE F!RemoveOld(r)
      <3>1. /\ q.job = "rename" /\ q.at = "removing" /\ UNCHANGED <<link, kept>>
            /\ (home' = home \/ (home' = m /\ UNCHANGED gens))
        BY <2>7 DEF F!RemoveOld
      <3>2. link[n] = 0 /\ (link[m] # 0 => link[m] \in gens[m])
        BY <3>1, <2>m DEF Moves
      <3> QED BY <3>1, <3>2, <2>m DEF F!LinkResolves, F!Resolves
    <2>8. CASE F!Undo(r)
      <3>1. /\ q.job = "rename" /\ UNCHANGED <<home, kept>>
            /\ \A y \in Names \ {m} : gens'[y] = gens[y] /\ link'[y] = link[y]
        BY <2>8, <1>0 DEF F!Undo, F!files
      <3> QED BY <3>1, <2>m, <1>0 DEF F!LinkResolves, F!Resolves
    <2>9. CASE F!FindEarlier(r) \/ F!MoveMaterial(r) \/ F!RenameFails(r)
      BY <2>9, <2>s DEF F!FindEarlier, F!MoveMaterial, F!RenameFails, F!files
    <2>10. CASE \E x \in Names : F!RollBack(r, x) \/ F!Delete(r, x) \/ \E y \in Names : F!Rename(r, x, y)
      BY <2>10, <2>s DEF F!RollBack, F!Delete, F!Rename, F!files
    <2> QED BY <1>2, <2>1, <2>2, <2>3, <2>4, <2>5, <2>6, <2>7, <2>8, <2>9, <2>10, <2>k
            DEF F!RequestStep, F!ListToDelete, F!UnlinkLink, F!UnlinkGeneration, F!UnlinkMaterial
  <1>3. CASE F!Restart \/ UNCHANGED F!vars
    BY <1>3 DEF F!Restart, F!vars, F!files, F!LinkResolves, F!Resolves
  <1> QED BY <1>1, <1>2, <1>3 DEF F!Next

LEMMA EarlierStep ==
    ASSUME F!GenerationsAssumption, FilesInv, F!LinkResolves, F!EarlierKept, [F!Next]_F!vars
    PROVE  F!EarlierKept'
  <1>0. home \in Names /\ \A x \in Names : 0 \notin gens[x]
    BY BaseFacts DEF FilesInv
  <1>1. ASSUME NEW n \in Names, F!BakeStep(n) PROVE F!EarlierKept'
    <2>1. /\ \A m \in Names \ {n} : gens'[m] = gens[m] /\ link'[m] = link[m]
          /\ n = home /\ RunInv(n)
      BY <1>1, BakeKinds DEF FilesInv, Base, BakeInv
    <2>2. /\ F!NeverUnserved /\ KeepsInv /\ Base
      BY DEF FilesInv
    <2>3. CASE UNCHANGED <<gens, link, kept, earlier>>
      BY <2>3 DEF F!EarlierKept, F!Resolves
    <2>4. CASE /\ bake[n].at = "switching" /\ gens[n] \subseteq gens'[n]
               /\ UNCHANGED <<link, kept, earlier>>
      BY <2>1, <2>4 DEF F!EarlierKept, F!Resolves
    <2>5. CASE /\ bake[n].at = "linking" /\ UNCHANGED gens
               /\ link'[n] = bake[n].date /\ bake[n].date \in gens[n]
               /\ earlier' = 0 \/ (kept /\ earlier' = link[n] /\ link[n] # bake[n].date)
      BY <2>1, <2>5 DEF F!EarlierKept, F!LinkResolves, F!Resolves
    <2>6. CASE /\ bake[n].at = "pruning" /\ link[n] \in gens'[n]
               /\ earlier \in gens[n] => earlier \in gens'[n]
               /\ UNCHANGED <<link, kept, earlier>>
      BY <2>1, <2>6 DEF F!EarlierKept, F!Resolves
    <2> QED BY <2>2, <2>3, <2>4, <2>5, <2>6, <1>1, BakeFiles
  <1>2. ASSUME NEW r \in Requests, F!RequestStep(r) PROVE F!EarlierKept'
    <2>1. UNCHANGED <<kept, earlier>> \/ earlier' = 0
      BY <1>2, Histories
    <2>2. CASE request[r].job = "delete" /\ earlier # 0
      <3>1. kept /\ earlier \in gens[home]
        BY <2>2 DEF FilesInv, RequestInv
      <3> QED BY <3>1, <2>1, <2>2, <1>0, <1>2, DeletionSpares DEF FilesInv, F!EarlierKept, F!Resolves
    <2>3. CASE request[r].job # "delete" /\ earlier # 0
      <3>1. \E x \in Names : Serves(x, earlier)
        BY <2>3 DEF F!EarlierKept, Serves
      <3> DEFINE e == earlier
      <3>2. \E x \in Names : Serves(x, e)
        BY <3>1
      <3>3. earlier' = e \/ earlier' = 0
        BY <2>1
      <3>4. \E x \in Names : F!Resolves(x)' /\ (e = 0 \/ e \in gens'[x])
        BY <3>2, <2>3, <1>2, StaysServed DEF FilesInv, Serves
      <3> QED BY <3>3, <3>4, <2>3 DEF F!EarlierKept
    <2> QED BY <2>1, <2>2, <2>3 DEF F!EarlierKept
  <1>3. CASE F!Restart \/ UNCHANGED F!vars
    BY <1>3 DEF F!Restart, F!vars, F!files, F!EarlierKept, F!Resolves
  <1> QED BY <1>1, <1>2, <1>3 DEF F!Next

LEMMA LinkInvariant ==
    ASSUME F!GenerationsAssumption, OneThread, TwoNames
    PROVE  F!Spec => [](F!LinkResolves /\ F!EarlierKept)
  <1>1. F!Init => F!LinkResolves /\ F!EarlierKept
    BY DEF F!Init, F!LinkResolves, F!EarlierKept
  <1>2. FilesInv /\ F!LinkResolves /\ F!EarlierKept /\ [F!Next]_F!vars => (F!LinkResolves /\ F!EarlierKept)'
    BY LinkStep, EarlierStep
  <1> QED BY <1>1, <1>2, FilesInvariant, PTL DEF F!Spec

\* The link of the collection's present name never points at nothing.
THEOREM LinkNeverDangles ==
    ASSUME F!GenerationsAssumption, OneThread, TwoNames PROVE F!Spec => []F!LinkResolves
  BY LinkInvariant, PTL

\* The generation before the last bake can be gone back to.
THEOREM EarlierStays ==
    ASSUME F!GenerationsAssumption, OneThread, TwoNames PROVE F!Spec => []F!EarlierKept
  BY LinkInvariant, PTL

-----------------------------------------------------------------------------
\* The documents.  What an answer says of a title is an item of it.

LEMMA DocCounts == \A S : D!Cardinality(S) = Cardinality(S)
  BY DEF D!Cardinality, Cardinality

LEMMA LeastIn == ASSUME NEW S \in SUBSET Nat, S # {}
                 PROVE  D!Min(S) \in S /\ \A n \in S : D!Min(S) <= n
  <1>1. \E n \in S : \A m \in S : n <= m
    BY LeastOf
  <1> QED BY <1>1 DEF D!Min

\* A set of indices that is not empty has a greatest one.
LEMMA GreatestOf ==
    ASSUME NEW n \in Nat, NEW T \in SUBSET (0..n), T # {}
    PROVE  \E i \in T : \A k \in T : k <= i
  <1> DEFINE U == {n - i : i \in T}
  <1>1. U \in SUBSET Nat /\ U # {}
    <2>1. \A i \in T : n - i \in Nat
      OBVIOUS
    <2> QED BY <2>1
  <1>2. PICK u \in U : \A v \in U : u <= v
    BY <1>1, LeastOf
  <1>3. PICK i \in T : u = n - i
    BY <1>2
  <1>4. \A k \in T : n - i <= n - k
    BY <1>2, <1>3
  <1> QED BY <1>4

LEMMA TakenIs ==
    ASSUME NEW answer \in Seq(D!Items), NEW t
    PROVE  \/ /\ D!TakenFor(answer, t) = D!None
              /\ \A i \in DOMAIN answer : answer[i].title # t
           \/ /\ D!TakenFor(answer, t) \in D!Items /\ D!TakenFor(answer, t) # D!None
              /\ D!TakenFor(answer, t).title = t
              /\ \E i \in DOMAIN answer : D!TakenFor(answer, t) = answer[i]
  <1> DEFINE at == {i \in DOMAIN answer : answer[i].title = t}
             i == CHOOSE i \in at : \A k \in at : k <= i
  <1>1. CASE at = {}
    BY <1>1 DEF D!TakenFor
  <1>2. CASE at # {}
    <2>1. Len(answer) \in Nat /\ DOMAIN answer = 1..Len(answer)
      OBVIOUS
    <2>2. at \in SUBSET (0..Len(answer))
      BY <2>1
    <2> HIDE DEF at
    <2>3. \E k \in at : \A l \in at : l <= k
      BY <1>2, <2>1, <2>2, GreatestOf
    <2>4. i \in at
      BY <2>3
    <2>5. D!TakenFor(answer, t) = answer[i]
      BY <1>2 DEF D!TakenFor, at
    <2> HIDE DEF i
    <2>6. i \in DOMAIN answer /\ answer[i].title = t
      BY <2>4 DEF at
    <2>7. answer[i] \in D!Items
      BY <2>6
    <2>8. answer[i] # D!None
      <3>1. DOMAIN answer[i] # DOMAIN D!None
        BY <2>7 DEF D!Items, D!None
      <3> QED BY <3>1
    <2> QED BY <2>5, <2>6, <2>7, <2>8
  <1> QED BY <1>1, <1>2

-----------------------------------------------------------------------------
\* A document, and what each operator does to one.

DocFields == [id : Nat \ {0}, url : STRING, body : STRING \ {""}, at : Places \cup {""},
              fact : STRING \cup {""}, removed : BOOLEAN, archived : BOOLEAN, unrev : BOOLEAN,
              ai : BOOLEAN]

Doc == {d \in DocFields : d.ai => d.fact # ""}

LEMMA NoDocIsNone == D!NoDoc \notin Doc /\ \A d \in Doc : d.id \in Nat \ {0}
  BY DEF Doc, DocFields, D!NoDoc

LEMMA Slims ==
    ASSUME NEW d \in Doc
    PROVE  /\ D!Slim(d) \in Doc
           /\ ~d.removed => D!Slim(d) = d
           /\ d.removed => ~D!Slim(d).ai
           /\ D!Slim(d).id = d.id /\ D!Slim(d).url = d.url /\ D!Slim(d).body = d.body
           /\ D!Slim(d).at = d.at /\ D!Slim(d).removed = d.removed
           /\ D!Slim(d).archived = d.archived /\ D!Slim(d).unrev = d.unrev
  <1>1. CASE ~d.removed
    BY <1>1 DEF D!Slim
  <1>2. CASE d.removed
    <2> DEFINE e == [d EXCEPT !.fact = "", !.ai = FALSE]
    <2>4. d \in DocFields
      BY DEF Doc
    <2>7. DOMAIN d = {"id", "url", "body", "at", "fact", "removed", "archived", "unrev", "ai"}
      BY <2>4 DEF DocFields
    <2>8. e.ai = FALSE
      BY <2>7
    <2>5. e \in DocFields
      BY <2>4 DEF DocFields
    <2>1. e \in Doc /\ ~e.ai
      BY <2>5, <2>8 DEF Doc
    <2>3. D!Slim(d) = e
      BY <1>2 DEF D!Slim
    <2>6. e = [d EXCEPT !.fact = "", !.ai = FALSE]
      OBVIOUS
    <2> HIDE DEF e
    <2>2. /\ e.id = d.id /\ e.url = d.url /\ e.body = d.body /\ e.at = d.at
          /\ e.removed = d.removed /\ e.archived = d.archived /\ e.unrev = d.unrev
      BY <2>6, <2>7
    <2> QED BY <1>2, <2>1, <2>2, <2>3
  <1> QED BY <1>1, <1>2

LEMMA Reviews ==
    ASSUME NEW d \in Doc
    PROVE  /\ D!Reviewed(d) \in Doc
           /\ D!Reviewed(d).id = d.id /\ D!Reviewed(d).fact = d.fact
           /\ D!Reviewed(d).removed = d.removed
  BY DEF D!Reviewed, Doc, DocFields

LEMMA Burials ==
    ASSUME NEW d \in Doc
    PROVE  D!Buried(d) \in Doc /\ D!Buried(d).id = d.id /\ D!Buried(d).removed
  BY DEF D!Buried, Doc, DocFields

LEMMA LooksUp ==
    ASSUME NEW d \in Doc, NEW raw \in D!Items
    PROVE  LET e == [d EXCEPT !.at = D!Said(raw.at, @)]
           IN  /\ e \in Doc /\ e.id = d.id /\ e.url = d.url /\ e.body = d.body
               /\ e.fact = d.fact /\ e.removed = d.removed /\ e.archived = d.archived
               /\ e.unrev = d.unrev
  BY DEF D!Said, Doc, DocFields, D!Items

LEMMA KeepsFacts ==
    ASSUME NEW d \in Doc, NEW raw \in D!Items, NEW mode
    PROVE  LET e == D!KeptWithFacts(d, raw, mode)
           IN  /\ e \in Doc /\ e.id = d.id /\ e.removed = d.removed /\ e.unrev = d.unrev
               /\ d.ai => e.fact = d.fact
  <1>1. /\ D!WithFacts(d, raw) \in Doc /\ D!WithFacts(d, raw).id = d.id
        /\ D!WithFacts(d, raw).removed = d.removed /\ D!WithFacts(d, raw).unrev = d.unrev
        /\ d.ai => D!WithFacts(d, raw).fact = d.fact
    BY DEF D!WithFacts, Doc, DocFields, D!Items
  <1>2. /\ D!WithNewFacts(d, raw) \in Doc /\ D!WithNewFacts(d, raw).id = d.id
        /\ D!WithNewFacts(d, raw).removed = d.removed /\ D!WithNewFacts(d, raw).unrev = d.unrev
        /\ d.ai => D!WithNewFacts(d, raw).fact = d.fact
    BY DEF D!WithNewFacts, Doc, DocFields, D!Items
  <1> QED BY <1>1, <1>2 DEF D!KeptWithFacts

LEMMA Replaces ==
    ASSUME NEW d \in Doc, NEW raw \in D!Items, NEW mode
    PROVE  LET e == D!Replaced(d, raw, mode)
           IN  e \in Doc /\ e.id = d.id /\ ~e.removed
  <1> DEFINE doc == D!Rewritten(d, raw)
             full == [doc EXCEPT !.archived = TRUE]
  <1>1. /\ doc \in Doc /\ doc.id = d.id /\ ~doc.removed
        /\ doc.fact # d.fact => doc.fact # ""
    <2>1. /\ D!Said(raw.url, d.url) \in STRING /\ D!Said(raw.body, d.body) \in STRING \ {""}
          /\ D!Said(raw.at, d.at) \in Places \cup {""} /\ D!Said(raw.fact, d.fact) \in STRING \cup {""}
          /\ (raw.mark = "archive") \in BOOLEAN
      BY DEF D!Said, Doc, DocFields, D!Items
    <2>2. D!Said(raw.fact, d.fact) # d.fact => D!Said(raw.fact, d.fact) # ""
      BY DEF D!Said
    <2>3. d.fact # "" => D!Said(raw.fact, d.fact) # ""
      BY DEF D!Said
    <2>4. doc = [d EXCEPT !.url = D!Said(raw.url, d.url), !.body = D!Said(raw.body, d.body),
                          !.at = D!Said(raw.at, d.at), !.fact = D!Said(raw.fact, d.fact),
                          !.removed = FALSE, !.archived = raw.mark = "archive",
                          !.unrev = FALSE]
      BY DEF D!Rewritten
    <2> HIDE DEF doc
    <2> QED BY <2>1, <2>2, <2>3, <2>4 DEF Doc, DocFields
  <1> HIDE DEF doc
  <1>2. /\ full \in Doc /\ full.id = d.id /\ ~full.removed
        /\ full.fact # d.fact => full.fact # ""
    BY <1>1 DEF Doc, DocFields
  <1> HIDE DEF full
  <1>3. ASSUME NEW x \in Doc, x.id = d.id, ~x.removed, x.fact # d.fact => x.fact # ""
        PROVE  LET e == D!Stamped(x, d, mode) IN e \in Doc /\ e.id = d.id /\ ~e.removed
    <2>1. (x.ai \/ (D!AsksAi(mode) /\ x.fact # d.fact)) \in BOOLEAN
      BY <1>3 DEF Doc, DocFields, D!AsksAi
    <2> QED BY <1>3, <2>1 DEF D!Stamped, Doc, DocFields
  <1>4. LET e == D!Stamped(doc, d, mode) IN e \in Doc /\ e.id = d.id /\ ~e.removed
    BY <1>1, <1>3
  <1>5. LET e == D!Stamped(full, d, mode) IN e \in Doc /\ e.id = d.id /\ ~e.removed
    BY <1>2, <1>3
  <1>6. \/ D!Replaced(d, raw, mode) = doc \/ D!Replaced(d, raw, mode) = full
        \/ D!Replaced(d, raw, mode) = D!Stamped(doc, d, mode)
        \/ D!Replaced(d, raw, mode) = D!Stamped(full, d, mode)
    BY DEF D!Replaced, doc, full
  <1> QED BY <1>1, <1>2, <1>4, <1>5, <1>6

-----------------------------------------------------------------------------
\* What becomes of a document that is there, and of the place a person fixed.

LEMMA ModesSay ==
    ASSUME NEW mode \in D!AllModes
    PROVE  /\ D!OnlyNew(mode) \/ D!AsksAi(mode) \/ mode = "crawl"
           /\ D!Edits(mode) => D!AsksAi(mode) /\ ~D!OnlyNew(mode)
           /\ mode \in {"extract", "feed"} => D!OnlyNew(mode) /\ ~D!AsksAi(mode) /\ ~D!Edits(mode)
  BY DEF D!AllModes, D!OnlyNew, D!AsksAi, D!Edits

\* What the next generation has of d under t, when raw came for t.
Follows(t, d, raw, mode, shown, e) ==
    /\ e \in Doc /\ e.id = d.id
    /\ d.removed /\ ~e.removed => raw # D!None /\ raw.mark = "restore"
    /\ DOUBT /\ ~d.removed /\ locks[t] # "" => ~e.removed
    /\ d.unrev /\ ~e.unrev =>
          \/ raw = D!None /\ t \in shown
          \/ raw # D!None /\ (D!AsksAi(mode) \/ mode = "crawl")
    /\ mode \in {"extract", "feed"} /\ d.ai /\ ~d.removed => e.fact = d.fact
    /\ raw = D!None /\ t \notin shown => e = D!Slim(d)
    /\ raw # D!None /\ raw.mark = "retry" =>
          LET s == D!Slim(d)
          IN  /\ e.url = s.url /\ e.body = s.body /\ e.fact = s.fact
              /\ e.removed = s.removed /\ e.archived = s.archived /\ e.unrev = s.unrev

LEMMA Following ==
    ASSUME NEW t, docs[t] \in Doc, NEW answer \in Seq(D!Items), NEW mode \in D!AllModes,
           NEW shown
    PROVE  Follows(t, docs[t], D!TakenFor(answer, t), mode, shown,
                   D!NextDoc(t, answer, mode, shown))
  <1> DEFINE raw == D!TakenFor(answer, t)
             e == D!NextDoc(t, answer, mode, shown)
  <1> PICK d : d = D!Slim(docs[t])
    OBVIOUS
  <1> PICK c : c = docs[t]
    OBVIOUS
  <1> SUFFICES Follows(t, c, raw, mode, shown, e)
    OBVIOUS
  <1>1. raw = D!None \/ (raw \in D!Items /\ raw # D!None)
    BY TakenIs
  <1>2. c \in Doc /\ d \in Doc
    BY Slims
  <1>3. /\ d.id = c.id /\ d.removed = c.removed /\ d.unrev = c.unrev
        /\ ~c.removed => d = c
        /\ c.removed => ~d.ai
    BY <1>2, Slims
  <1>s. d = D!Slim(c)
    OBVIOUS
  <1>m. /\ D!OnlyNew(mode) \/ D!AsksAi(mode) \/ mode = "crawl"
        /\ D!Edits(mode) => D!AsksAi(mode) /\ ~D!OnlyNew(mode)
        /\ mode \in {"extract", "feed"} => D!OnlyNew(mode) /\ ~D!AsksAi(mode) /\ ~D!Edits(mode)
    BY ModesSay
  <1>n. \A r : D!FoundAgain(d, r, mode) => D!AsksAi(mode)
    BY DEF D!FoundAgain
  <1>4. e = CASE raw = D!None -> IF t \in shown THEN D!Reviewed(d) ELSE d
             [] raw # D!None /\ raw.mark = "retry" ->
                   IF d.removed THEN d ELSE [d EXCEPT !.at = D!Said(raw.at, @)]
             [] D!OnlyNew(mode) /\ raw # D!None /\ raw.mark # "retry" /\ ~D!FoundAgain(d, raw, mode) ->
                   D!KeptWithFacts(d, raw, mode)
             [] D!Edits(mode) /\ raw # D!None /\ raw.mark = "tomb" ->
                   IF DOUBT /\ ~d.removed /\ locks[t] # "" THEN D!Reviewed(d) ELSE D!Buried(d)
             [] OTHER ->
                   IF D!StaysRemoved(d, raw) THEN d
                   ELSE IF raw.body = "" /\ ~D!Edits(mode) THEN d
                   ELSE D!Replaced(d, raw, mode)
    BY DEF D!NextDoc
  <1> HIDE DEF raw, e
  <1>5. CASE raw = D!None
    <2>1. e = IF t \in shown THEN D!Reviewed(d) ELSE d
      BY <1>4, <1>5
    <2>2. CASE t \in shown
      <3>1. e = D!Reviewed(d)
        BY <2>1, <2>2
      <3>2. /\ e \in Doc /\ e.id = d.id /\ e.fact = d.fact /\ e.removed = d.removed
        BY <1>2, <3>1, Reviews
      <3> QED BY <1>3, <1>5, <2>2, <3>2 DEF Follows
    <2>3. CASE t \notin shown
      <3>1. e = d
        BY <2>1, <2>3
      <3> QED BY <1>2, <1>3, <1>s, <1>5, <2>3, <3>1 DEF Follows
    <2> QED BY <2>2, <2>3
  <1>6. CASE raw # D!None /\ raw.mark = "retry"
    <2>1. e = IF d.removed THEN d ELSE [d EXCEPT !.at = D!Said(raw.at, @)]
      BY <1>4, <1>6
    <2>2. /\ e \in Doc /\ e.id = d.id /\ e.url = d.url /\ e.body = d.body
          /\ e.fact = d.fact /\ e.removed = d.removed /\ e.archived = d.archived
          /\ e.unrev = d.unrev
      <3>1. CASE d.removed
        BY <1>2, <2>1, <3>1
      <3>2. CASE ~d.removed
        <4>1. e = [d EXCEPT !.at = D!Said(raw.at, @)]
          BY <2>1, <3>2
        <4> QED BY <1>1, <1>2, <1>6, <4>1, LooksUp
      <3> QED BY <3>1, <3>2
    <2> QED BY <1>3, <1>s, <1>6, <2>2 DEF Follows
  <1>7. CASE D!OnlyNew(mode) /\ raw # D!None /\ raw.mark # "retry" /\ ~D!FoundAgain(d, raw, mode)
    <2>1. e = D!KeptWithFacts(d, raw, mode)
      BY <1>4, <1>m, <1>7
    <2>2. /\ e \in Doc /\ e.id = d.id /\ e.removed = d.removed /\ e.unrev = d.unrev
          /\ d.ai => e.fact = d.fact
      BY <1>1, <1>2, <1>7, <2>1, KeepsFacts
    <2> QED BY <1>3, <1>7, <2>2 DEF Follows
  <1>8. CASE /\ raw # D!None /\ raw.mark # "retry"
             /\ ~(D!OnlyNew(mode) /\ ~D!FoundAgain(d, raw, mode))
    <2>1. D!AsksAi(mode) \/ mode = "crawl"
      BY <1>m, <1>n, <1>8
    <2>2. mode \notin {"extract", "feed"}
      BY <1>m, <1>n, <1>8
    <2>3. ASSUME e \in Doc, e.id = d.id, d.removed /\ ~e.removed => raw.mark = "restore",
                 DOUBT /\ ~d.removed /\ locks[t] # "" => ~e.removed
          PROVE  Follows(t, c, raw, mode, shown, e)
      BY <1>3, <1>8, <2>1, <2>2, <2>3 DEF Follows
    <2>4. CASE D!Edits(mode) /\ raw.mark = "tomb"
      <3>1. e = IF DOUBT /\ ~d.removed /\ locks[t] # "" THEN D!Reviewed(d) ELSE D!Buried(d)
        BY <1>4, <1>8, <1>m, <2>4
      <3>2. CASE DOUBT /\ ~d.removed /\ locks[t] # ""
        <4>1. e = D!Reviewed(d)
          BY <3>1, <3>2
        <4>2. e \in Doc /\ e.id = d.id /\ e.removed = d.removed
          BY <1>2, <4>1, Reviews
        <4> QED BY <2>3, <3>2, <4>2
      <3>3. CASE ~(DOUBT /\ ~d.removed /\ locks[t] # "")
        <4>1. e = D!Buried(d)
          BY <3>1, <3>3
        <4>2. e \in Doc /\ e.id = d.id /\ e.removed
          BY <1>2, <4>1, Burials
        <4> QED BY <2>3, <3>3, <4>2
      <3> QED BY <3>2, <3>3
    <2>5. CASE ~(D!Edits(mode) /\ raw.mark = "tomb")
      <3>1. e = IF D!StaysRemoved(d, raw) THEN d
                ELSE IF raw.body = "" /\ ~D!Edits(mode) THEN d
                ELSE D!Replaced(d, raw, mode)
        BY <1>4, <1>8, <1>m, <2>5
      <3>2. CASE e = d
        BY <1>2, <2>3, <3>2
      <3>3. CASE ~D!StaysRemoved(d, raw) /\ e = D!Replaced(d, raw, mode)
        <4>1. e \in Doc /\ e.id = d.id /\ ~e.removed
          BY <1>1, <1>2, <1>8, <3>3, Replaces
        <4>2. d.removed => raw.mark = "restore"
          BY <3>3 DEF D!StaysRemoved
        <4> QED BY <2>3, <4>1, <4>2
      <3> QED BY <3>1, <3>2, <3>3
    <2> QED BY <2>4, <2>5
  <1> QED BY <1>5, <1>6, <1>7, <1>8

\* What is done to every document at the end: a fixed place is put back, and after a
\* requeue what lives and was not shown is to be looked through again.
Ends(t, e, shown, f) ==
    /\ f \in Doc /\ f.id = e.id /\ f.url = e.url /\ f.body = e.body /\ f.fact = e.fact
    /\ f.removed = e.removed /\ f.archived = e.archived /\ f.ai = e.ai
    /\ f.at = e.at \/ f.at = locks[t]
    /\ locks[t] # "" /\ ~f.removed => f.at = locks[t]
    /\ f.unrev = e.unrev \/ (requeue /\ f.unrev)
    /\ requeue /\ ~f.removed /\ ~f.archived /\ t \notin shown => f.unrev

LEMMA Ending ==
    ASSUME NEW t, locks[t] \in Places \cup {""}, NEW e \in Doc, NEW shown
    PROVE  Ends(t, e, shown, D!Requeued(t, D!Held(t, e), shown))
  <1> PICK h : h = D!Held(t, e)
    OBVIOUS
  <1> PICK f : f = D!Requeued(t, h, shown)
    OBVIOUS
  <1>1. \A x \in Doc : D!Alive(x) <=> ~x.removed
    BY NoDocIsNone DEF D!Alive
  <1>2. /\ h \in Doc /\ h.id = e.id /\ h.url = e.url /\ h.body = e.body /\ h.fact = e.fact
        /\ h.removed = e.removed /\ h.archived = e.archived /\ h.ai = e.ai
        /\ h.unrev = e.unrev
        /\ h.at = e.at \/ h.at = locks[t]
        /\ locks[t] # "" /\ ~e.removed => h.at = locks[t]
    BY <1>1 DEF D!Held, Doc, DocFields
  <1>3. /\ f \in Doc /\ f.id = h.id /\ f.url = h.url /\ f.body = h.body /\ f.fact = h.fact
        /\ f.removed = h.removed /\ f.archived = h.archived /\ f.ai = h.ai
        /\ f.at = h.at
        /\ f.unrev = h.unrev \/ (requeue /\ f.unrev)
        /\ requeue /\ ~h.removed /\ ~h.archived /\ t \notin shown => f.unrev
    BY <1>1, <1>2 DEF D!Requeued, Doc, DocFields
  <1>4. Ends(t, e, shown, f)
    BY <1>2, <1>3 DEF Ends
  <1> QED BY <1>4

LEMMA NothingEnds ==
    ASSUME NEW t, NEW shown PROVE D!Requeued(t, D!Held(t, D!NoDoc), shown) = D!NoDoc
  BY DEF D!Requeued, D!Held, D!Alive

-----------------------------------------------------------------------------
\* drop_unseen_edits: nothing that is kept names a document the AI was not shown.

SeenSteps(answer, allowed, f) ==
    /\ DOMAIN f = 0..Len(answer)
    /\ f[0] = [kept |-> <<>>, used |-> {answer[k].title : k \in DOMAIN answer}]
    /\ \A i \in 1..Len(answer) : f[i] = D!SeenNext(f[i - 1], answer[i], allowed)

\* The loop, as a function that exists.
LEMMA SeenLoops ==
    ASSUME NEW S, NEW answer \in Seq(S), NEW allowed
    PROVE  \E f : SeenSteps(answer, allowed, f)
  <1> DEFINE b == [kept |-> <<>>, used |-> {answer[k].title : k \in DOMAIN answer}]
             Goes(n, f) == /\ DOMAIN f = 0..n /\ f[0] = b
                           /\ \A i \in 1..n : f[i] = D!SeenNext(f[i - 1], answer[i], allowed)
             Q == {n \in Nat : \E f : Goes(n, f)}
  <1> HIDE DEF b
  <1>1. 0 \in Q
    <2> DEFINE f == [i \in 0..0 |-> b]
    <2>1. Goes(0, f)
      OBVIOUS
    <2> QED BY <2>1
  <1>2. ASSUME NEW n \in 1..Len(answer), n - 1 \in Q PROVE n \in Q
    <2>1. PICK f : Goes(n - 1, f)
      BY <1>2
    <2> DEFINE e == D!SeenNext(f[n - 1], answer[n], allowed)
               g == [i \in 0..n |-> IF i = n THEN e ELSE f[i]]
    <2> HIDE DEF e
    <2>2. g[n] = e /\ DOMAIN g = 0..n /\ \A i \in 0..(n - 1) : g[i] = f[i]
      OBVIOUS
    <2> HIDE DEF g
    <2>3. ASSUME NEW i \in 1..n PROVE g[i] = D!SeenNext(g[i - 1], answer[i], allowed)
      <3>1. g[i - 1] = f[i - 1]
        BY <2>2
      <3>2. CASE i = n
        BY <2>2, <3>1, <3>2 DEF e
      <3>3. CASE i # n
        <4>1. i \in 1..(n - 1) /\ i \in 0..(n - 1)
          BY <3>3
        <4>2. f[i] = D!SeenNext(f[i - 1], answer[i], allowed)
          BY <2>1, <4>1
        <4> QED BY <2>2, <3>1, <4>1, <4>2
      <3> QED BY <3>2, <3>3
    <2>4. g[0] = b
      <3>1. 0 \in 0..(n - 1)
        OBVIOUS
      <3> QED BY <2>1, <2>2, <3>1
    <2>5. Goes(n, g)
      BY <2>2, <2>3, <2>4
    <2>6. n \in Nat
      OBVIOUS
    <2> HIDE DEF Goes
    <2> QED BY <2>5, <2>6
  <1> HIDE DEF Q
  <1>3. Len(answer) \in Q
    <2>1. Q \in SUBSET Nat /\ Len(answer) \in Nat
      BY DEF Q
    <2>2. \A n \in 1..Len(answer) : n - 1 \in Q => n \in Q
      BY <1>2
    <2>3. \A n \in 0..Len(answer) : n \in Q
      BY <1>1, <2>1, <2>2, UpTo
    <2> QED BY <2>1, <2>3
  <1>4. PICK f : Goes(Len(answer), f)
    BY <1>3 DEF Q
  <1> QED BY <1>4 DEF SeenSteps, b

LEMMA SeenIsLast ==
    ASSUME NEW S, NEW answer \in Seq(S), NEW allowed
    PROVE  \E f : SeenSteps(answer, allowed, f) /\ D!SeenEdits(answer, allowed) = f[Len(answer)].kept
  <1> DEFINE Body(f, i) == IF i = 0
                           THEN [kept |-> <<>>, used |-> {answer[k].title : k \in DOMAIN answer}]
                           ELSE D!SeenNext(f[i - 1], answer[i], allowed)
             f == CHOOSE f : f = [i \in 0..Len(answer) |-> Body(f, i)]
  <1>1. \E g : g = [i \in 0..Len(answer) |-> Body(g, i)]
    <2>1. PICK g : SeenSteps(answer, allowed, g)
      BY SeenLoops
    <2>2. ASSUME NEW i \in 0..Len(answer) PROVE g[i] = Body(g, i)
      <3>1. Len(answer) \in Nat /\ (i = 0 \/ i \in 1..Len(answer))
        OBVIOUS
      <3>2. i # 0 => g[i] = D!SeenNext(g[i - 1], answer[i], allowed)
        BY <2>1, <3>1 DEF SeenSteps
      <3>3. g[0] = [kept |-> <<>>, used |-> {answer[k].title : k \in DOMAIN answer}]
        BY <2>1 DEF SeenSteps
      <3> QED BY <3>2, <3>3
    <2>4. DOMAIN g = 0..Len(answer) /\ g = [i \in DOMAIN g |-> g[i]]
      BY <2>1 DEF SeenSteps
    <2> HIDE DEF Body
    <2>5. g = [i \in 0..Len(answer) |-> Body(g, i)]
      BY <2>2, <2>4
    <2> QED BY <2>5
  <1>2. f = [i \in 0..Len(answer) |-> Body(f, i)]
    BY <1>1
  <1>3. D!SeenEdits(answer, allowed) = f[Len(answer)].kept
    BY DEF D!SeenEdits
  <1> HIDE DEF f
  <1>4. \A i \in 0..Len(answer) : f[i] = Body(f, i)
    BY <1>2
  <1>5. DOMAIN f = 0..Len(answer)
    BY <1>2
  <1>6. SeenSteps(answer, allowed, f)
    <2>1. Len(answer) \in Nat /\ 0 \in 0..Len(answer)
      OBVIOUS
    <2>2. f[0] = Body(f, 0)
      BY <1>4, <2>1
    <2>3. ASSUME NEW i \in 1..Len(answer) PROVE f[i] = D!SeenNext(f[i - 1], answer[i], allowed)
      <3>1. i \in 0..Len(answer) /\ i # 0
        OBVIOUS
      <3>2. f[i] = Body(f, i)
        BY <1>4, <3>1
      <3> QED BY <3>1, <3>2
    <2> QED BY <1>5, <2>2, <2>3 DEF SeenSteps
  <1> QED BY <1>3, <1>6

\* What may be kept: items of documents that are not there, or were shown, and places
\* looked up again.
Seen(scope) == {x \in D!Items : x.mark = "retry" \/ x.title \notin D!Known(docs) \ scope}

\* The items that get a number, and the titles no number may give.
Moved(answer, scope) ==
    {i \in DOMAIN answer : /\ D!Replaces(answer[i], scope)
                           /\ D!Distinct(answer[i], docs[answer[i].title])}
Taken(answer) == D!Known(docs) \cup {answer[i].title : i \in DOMAIN answer}

LEMMA GetsNumber ==
    ASSUME Numbered \in [Titles -> Seq(Titles)], NEW t \in Titles, NEW used, NEW taken,
           D!Known(docs) \subseteq taken, IsFiniteSet(used \ taken),
           NEW n \in Nat, Cardinality(used \ taken) < n,
           n <= Cardinality({Numbered[t][k] : k \in DOMAIN Numbered[t]} \ taken)
    PROVE  /\ D!Unused(t, used \cup D!Known(docs)) \in Titles
           /\ D!Unused(t, used \cup D!Known(docs)) \notin used \cup D!Known(docs)
  <1> DEFINE q == Numbered[t]
             numbers == {q[k] : k \in DOMAIN q}
             all == used \cup D!Known(docs)
             free == {i \in DOMAIN q : q[i] \notin all}
  <1>1. q \in Seq(Titles)
    OBVIOUS
  <1>2. free # {}
    <2> SUFFICES ASSUME free = {} PROVE FALSE
      OBVIOUS
    <2>1. numbers \ taken \subseteq used \ taken
      OBVIOUS
    <2>2. Cardinality(numbers \ taken) <= Cardinality(used \ taken) /\ IsFiniteSet(numbers \ taken)
      BY <2>1, FS_Subset
    <2>3. Cardinality(numbers \ taken) \in Nat /\ Cardinality(used \ taken) \in Nat
      BY <2>2, FS_CardinalityType
    <2>4. n <= Cardinality(numbers \ taken)
      OBVIOUS
    <2> HIDE DEF numbers
    <2> QED BY <2>2, <2>3, <2>4
  <1>3. free \in SUBSET Nat
    BY <1>1
  <1>4. D!Min(free) \in free
    BY <1>2, <1>3, LeastIn
  <1>5. D!Unused(t, all) = q[D!Min(free)]
    BY <1>2 DEF D!Unused
  <1> HIDE DEF q
  <1>6. q[D!Min(free)] \notin all /\ D!Min(free) \in DOMAIN q
    BY <1>4
  <1> HIDE DEF free, all
  <1>7. q[D!Min(free)] \in Titles
    BY <1>1, <1>6
  <1> QED BY <1>5, <1>6, <1>7 DEF all

LEMMA SeenOnly ==
    ASSUME Numbered \in [Titles -> Seq(Titles)], NEW answer \in Seq(D!Items), NEW scope,
           D!NumbersLeft(answer, scope)
    PROVE  D!SeenEdits(answer, scope) \in Seq(Seen(scope))
  <1> DEFINE n == Len(answer)
             moved == Moved(answer, scope)
             taken == Taken(answer)
             upto(i) == {k \in moved : k <= i}
  <1>1. n \in Nat /\ DOMAIN answer = 1..n /\ \A i \in 1..n : answer[i] \in D!Items
    OBVIOUS
  <1>2. PICK f : SeenSteps(answer, scope, f) /\ D!SeenEdits(answer, scope) = f[n].kept
    BY SeenIsLast
  <1>3. moved \in SUBSET (1..n) /\ IsFiniteSet(moved)
    <2>1. moved \in SUBSET (1..n)
      BY <1>1 DEF Moved
    <2>2. IsFiniteSet(1..n)
      BY <1>1, FS_Interval
    <2> QED BY <2>1, <2>2, FS_Subset
  <1>4. \A i \in moved : Cardinality(moved) <=
            Cardinality({Numbered[answer[i].title][k] : k \in DOMAIN Numbered[answer[i].title]}
                        \ taken)
    BY DocCounts DEF D!NumbersLeft, Moved, Taken
  <1>t. D!Known(docs) \subseteq taken /\ {answer[k].title : k \in 1..n} \subseteq taken
    BY <1>1 DEF Taken
  <1>u. \A i : IsFiniteSet(upto(i)) /\ Cardinality(upto(i)) \in Nat
               /\ Cardinality(upto(i)) <= Cardinality(moved)
    <2> TAKE i
    <2>1. upto(i) \in SUBSET moved
      OBVIOUS
    <2> QED BY <1>3, <2>1, FS_Subset, FS_CardinalityType
  <1>w. \A k \in moved : k \in Nat /\ k >= 1 /\ k <= n
    BY <1>1, <1>3
  <1>v. Cardinality(moved) \in Nat
    BY <1>3, FS_CardinalityType
  <1> HIDE DEF moved, taken, n
  <1> DEFINE Accs == [kept : Seq(Seen(scope)), used : SUBSET Titles]
             Q == {i \in 0..n : /\ f[i] \in Accs
                                /\ IsFiniteSet(f[i].used \ taken)
                                /\ Cardinality(f[i].used \ taken) <= Cardinality(upto(i))}
  <1>5. 0 \in Q
    <2>1. f[0] = [kept |-> <<>>, used |-> {answer[k].title : k \in 1..n}]
      BY <1>1, <1>2 DEF SeenSteps
    <2>2. {answer[k].title : k \in 1..n} \subseteq Titles
      BY <1>1 DEF D!Items
    <2>3. f[0] \in Accs
      BY <2>1, <2>2
    <2>4. f[0].used \ taken = {}
      BY <1>t, <2>1
    <2>6. IsFiniteSet({}) /\ Cardinality({}) = 0
      BY FS_EmptySet
    <2>7. Cardinality(upto(0)) \in Nat
      BY <1>u
    <2>5. IsFiniteSet({}) /\ Cardinality({}) = 0 /\ 0 <= Cardinality(upto(0)) /\ 0 \in 0..n
      <3> HIDE DEF upto
      <3> QED BY <1>1, <2>6, <2>7
    <2> HIDE DEF Accs, upto
    <2> QED BY <2>3, <2>4, <2>5
  <1>6. ASSUME NEW i \in 1..n, i - 1 \in Q PROVE i \in Q
    <2> DEFINE raw == answer[i]
    <2> PICK acc : acc = f[i - 1]
      OBVIOUS
    <2>1. /\ acc \in Accs /\ IsFiniteSet(acc.used \ taken)
          /\ Cardinality(acc.used \ taken) <= Cardinality(upto(i - 1))
      BY <1>6
    <2>2. f[i] = D!SeenNext(acc, raw, scope)
      BY <1>2 DEF SeenSteps, n
    <2>3. raw \in D!Items /\ i \in 1..n /\ i \in DOMAIN answer /\ i \in 0..n
      BY <1>1
    <2>4. Cardinality(upto(i - 1)) <= Cardinality(upto(i))
      <3>1. upto(i - 1) \in SUBSET upto(i)
        BY <1>w, <2>3
      <3> QED BY <1>u, <3>1, FS_Subset
    <2>5. /\ Cardinality(upto(i - 1)) \in Nat /\ Cardinality(upto(i)) \in Nat
          /\ Cardinality(acc.used \ taken) \in Nat
      BY <1>u, <2>1, FS_CardinalityType
    <2>6. ASSUME f[i] \in Accs, f[i].used = acc.used PROVE i \in Q
      <3>1. Cardinality(f[i].used \ taken) <= Cardinality(upto(i))
        BY <2>1, <2>4, <2>5, <2>6
      <3> HIDE DEF Accs, upto
      <3> QED BY <2>1, <2>3, <2>6, <3>1
    <2>7. CASE ~D!Replaces(raw, scope)
      <3>1. raw \in Seen(scope)
        BY <2>3, <2>7 DEF D!Replaces, Seen
      <3>2. f[i] = [acc EXCEPT !.kept = Append(acc.kept, raw)]
        BY <2>2, <2>7 DEF D!SeenNext
      <3>3. Append(acc.kept, raw) \in Seq(Seen(scope))
        BY <2>1, <3>1
      <3>4. f[i] \in Accs /\ f[i].used = acc.used
        BY <2>1, <3>2, <3>3
      <3> QED BY <2>6, <3>4
    <2>8. CASE D!Replaces(raw, scope) /\ ~D!Distinct(raw, docs[raw.title])
      <3>1. f[i] = acc
        BY <2>2, <2>8 DEF D!SeenNext
      <3> QED BY <2>1, <2>6, <3>1
    <2>9. CASE D!Replaces(raw, scope) /\ D!Distinct(raw, docs[raw.title])
      <3>1. i \in moved
        BY <2>3, <2>9 DEF Moved, moved
      <3>2. Cardinality(upto(i)) = Cardinality(upto(i - 1)) + 1
        <4>3. \A k \in moved : k <= i <=> k <= i - 1 \/ k = i
          BY <1>w, <2>3
        <4>4. ~(i <= i - 1)
          BY <2>3
        <4>1. upto(i) = upto(i - 1) \cup {i} /\ i \notin upto(i - 1)
          BY <4>3, <4>4, <3>1
        <4>2. IsFiniteSet(upto(i - 1))
          BY <1>u
        <4> HIDE DEF upto
        <4> QED BY <4>1, <4>2, FS_AddElement
      <3>3. raw.title \in Titles
        BY <2>3 DEF D!Items
      <3>4. Cardinality(upto(i)) <= Cardinality(moved)
        BY <1>u
      <3>5. Cardinality(acc.used \ taken) < Cardinality(moved)
        BY <1>v, <2>1, <2>5, <3>2, <3>4
      <3>6. Cardinality(moved) <=
                Cardinality({Numbered[raw.title][k] : k \in DOMAIN Numbered[raw.title]} \ taken)
        BY <1>4, <3>1
      <3> PICK t : t = D!Unused(raw.title, acc.used \cup D!Known(docs))
        OBVIOUS
      <3>7. t \in Titles /\ t \notin acc.used \cup D!Known(docs)
        <4> HIDE DEF raw, moved
        <4> QED BY <1>t, <1>v, <2>1, <3>3, <3>5, <3>6, GetsNumber
      <3>8. [raw EXCEPT !.title = t] \in Seen(scope)
        <4>1. [raw EXCEPT !.title = t] \in D!Items
          BY <2>3, <3>7 DEF D!Items
        <4>2. [raw EXCEPT !.title = t].title = t
          BY <2>3 DEF D!Items
        <4> QED BY <3>7, <4>1, <4>2 DEF Seen
      <3>9. f[i] = [kept |-> Append(acc.kept, [raw EXCEPT !.title = t]), used |-> acc.used \cup {t}]
        BY <2>2, <2>9 DEF D!SeenNext
      <3>10. acc.kept \in Seq(Seen(scope)) /\ acc.used \in SUBSET Titles
        BY <2>1
      <3>11. Append(acc.kept, [raw EXCEPT !.title = t]) \in Seq(Seen(scope))
        BY <3>8, <3>10
      <3>12. f[i] \in Accs /\ f[i].used = acc.used \cup {t}
        BY <3>7, <3>9, <3>10, <3>11
      <3>13. /\ IsFiniteSet(f[i].used \ taken)
             /\ Cardinality(f[i].used \ taken) <= Cardinality(acc.used \ taken) + 1
        <4>1. CASE t \in taken
          <5>1. f[i].used \ taken = acc.used \ taken
            BY <3>12, <4>1
          <5>2. /\ IsFiniteSet(f[i].used \ taken)
                /\ Cardinality(f[i].used \ taken) = Cardinality(acc.used \ taken)
            BY <2>1, <5>1, Zenon
          <5> QED BY <2>5, <5>2
        <4>2. CASE t \notin taken
          <5>1. f[i].used \ taken = (acc.used \ taken) \cup {t}
            BY <3>12, <4>2
          <5> DEFINE old == acc.used \ taken
          <5>2. IsFiniteSet(old) /\ t \notin old
            BY <2>1, <3>7, <4>2
          <5>3. f[i].used \ taken = old \cup {t}
            BY <5>1
          <5>4. Cardinality(old) \in Nat
            BY <2>5
          <5> HIDE DEF old
          <5>5. IsFiniteSet(old \cup {t}) /\ Cardinality(old \cup {t}) = Cardinality(old) + 1
            BY <5>2, FS_AddElement
          <5>6. /\ IsFiniteSet(f[i].used \ taken)
                /\ Cardinality(f[i].used \ taken) = Cardinality(old) + 1
            BY <5>3, <5>5, Zenon
          <5> QED BY <5>4, <5>6 DEF old
        <4> QED BY <4>1, <4>2
      <3>14. Cardinality(f[i].used \ taken) \in Nat
        BY <3>13, FS_CardinalityType
      <3>15. Cardinality(f[i].used \ taken) <= Cardinality(upto(i))
        BY <2>1, <2>5, <3>2, <3>13, <3>14
      <3> HIDE DEF Accs, upto
      <3> QED BY <2>3, <3>12, <3>13, <3>15
    <2> QED BY <2>7, <2>8, <2>9
  <1>7. n \in Q
    <2>1. Q \in SUBSET Nat
      OBVIOUS
    <2> HIDE DEF Q
    <2>2. \A i \in 1..n : i - 1 \in Q => i \in Q
      BY <1>6
    <2>3. \A i \in 0..n : i \in Q
      BY <1>1, <1>5, <2>1, <2>2, UpTo
    <2> QED BY <1>1, <2>3
  <1> QED BY <1>2, <1>7

LEMMA SeenItems ==
    ASSUME NEW scope, NEW items \in Seq(Seen(scope)), NEW t \in D!Known(docs) \ scope
    PROVE  /\ items \in Seq(D!Items)
           /\ D!TakenFor(items, t) # D!None => D!TakenFor(items, t).mark = "retry"
  <1>1. Seen(scope) \subseteq D!Items
    BY DEF Seen
  <1>2. items \in Seq(D!Items)
    BY <1>1
  <1>3. \A i \in DOMAIN items : items[i] \in Seen(scope)
    OBVIOUS
  <1>4. ASSUME D!TakenFor(items, t) # D!None PROVE D!TakenFor(items, t).mark = "retry"
    <2>1. PICK i \in DOMAIN items : D!TakenFor(items, t) = items[i] /\ D!TakenFor(items, t).title = t
      BY <1>2, <1>4, TakenIs
    <2>2. items[i] \in Seen(scope) /\ items[i].title = t
      BY <1>3, <2>1
    <2> QED BY <2>1, <2>2 DEF Seen
  <1> QED BY <1>2, <1>4

-----------------------------------------------------------------------------
\* What is added: of two with one url the first, numbered in the order they came.

\* Elements in the order of g are ranked 0, 1, 2 ...
LEMMA Ranks ==
    ASSUME NEW n \in Nat, NEW S, NEW g \in [S -> 1..n], \A u, v \in S : g[u] = g[v] => u = v
    PROVE  /\ IsFiniteSet(S) /\ Cardinality(S) \in Nat
           /\ [t \in S |-> Cardinality({u \in S : g[u] < g[t]})]
                 \in Bijection(S, 0..(Cardinality(S) - 1))
  <1> DEFINE B(t) == {u \in S : g[u] < g[t]}
             rank == [t \in S |-> Cardinality(B(t))]
             k == Cardinality(S)
  <1>1. g \in Injection(S, 1..n)
    BY DEF Injection, IsInjective
  <1>2. IsFiniteSet(S)
    <2>1. IsFiniteSet(1..n)
      BY FS_Interval
    <2> QED BY <1>1, <2>1, FS_Injection
  <1>3. k \in Nat
    BY <1>2, FS_CardinalityType
  <1>4. \A t \in S : g[t] \in Int
    OBVIOUS
  <1>5. ASSUME NEW t \in S PROVE /\ IsFiniteSet(B(t)) /\ Cardinality(B(t)) \in 0..(k - 1)
    <2>1. B(t) \in SUBSET S /\ t \notin B(t)
      BY <1>4
    <2> HIDE DEF B
    <2>2. /\ IsFiniteSet(B(t)) /\ Cardinality(B(t)) <= k
          /\ k = Cardinality(B(t)) => S = B(t)
      BY <1>2, <2>1, FS_Subset
    <2>3. Cardinality(B(t)) \in Nat
      BY <2>2, FS_CardinalityType
    <2>4. k # Cardinality(B(t))
      BY <2>1, <2>2
    <2> HIDE DEF k
    <2> QED BY <1>3, <2>2, <2>3, <2>4
  <1>6. ASSUME NEW u \in S, NEW v \in S, g[u] < g[v]
        PROVE  Cardinality(B(u)) # Cardinality(B(v))
    <2>1. B(u) \in SUBSET B(v)
      BY <1>4, <1>6
    <2>2. u \in B(v) /\ u \notin B(u)
      BY <1>4, <1>6
    <2>3. IsFiniteSet(B(v))
      BY <1>5
    <2> HIDE DEF B
    <2>4. Cardinality(B(v)) = Cardinality(B(u)) => B(v) = B(u)
      BY <2>1, <2>3, FS_Subset
    <2> QED BY <2>2, <2>4
  <1>7. rank \in [S -> 0..(k - 1)] /\ \A t \in S : rank[t] = Cardinality(B(t))
    BY <1>5
  <1> HIDE DEF rank, B, k
  <1>8. \A u, v \in S : rank[u] = rank[v] => u = v
    BY <1>4, <1>6, <1>7
  <1>9. rank \in Injection(S, 0..(k - 1))
    BY <1>7, <1>8 DEF Injection, IsInjective
  <1>10. IsFiniteSet(0..(k - 1)) /\ Cardinality(0..(k - 1)) = k
    <2>1. /\ IsFiniteSet(0..(k - 1))
          /\ Cardinality(0..(k - 1)) = IF 0 > k - 1 THEN 0 ELSE k - 1 - 0 + 1
      BY <1>3, FS_Interval
    <2> QED BY <1>3, <2>1
  <1>11. rank \in Surjection(S, 0..(k - 1))
    BY <1>9, <1>10, FS_Injection DEF k
  <1> QED BY <1>2, <1>3, <1>9, <1>11 DEF Bijection, rank, B, k

First(answer, t) == D!Min({i \in DOMAIN answer : answer[i].title = t})

\* The titles that are added (new, in Added).
New(answer, mode) ==
    LET fit == {t \in Titles : D!Fits(t, answer, mode)}
        url(t) == D!TakenFor(answer, t).url
    IN  {t \in fit : url(t) = "" \/ \A u \in fit : url(u) = url(t) =>
                                                       First(answer, t) <= First(answer, u)}

Rank(answer, mode, t) ==
    Cardinality({u \in New(answer, mode) : First(answer, u) < First(answer, t)})

LEMMA AddedIs ==
    ASSUME NEW answer, NEW mode
    PROVE  D!Added(answer, mode) =
               [t \in Titles |-> IF t \in New(answer, mode)
                                 THEN D!Fresh(D!TakenFor(answer, t),
                                              D!NextId + Rank(answer, mode, t), mode)
                                 ELSE D!NoDoc]
  BY DocCounts DEF D!Added, New, Rank, First

LEMMA FirstsDiffer ==
    ASSUME NEW answer \in Seq(D!Items), NEW mode
    PROVE  /\ \A t \in New(answer, mode) : First(answer, t) \in 1..Len(answer)
           /\ \A t, u \in New(answer, mode) : First(answer, t) = First(answer, u) => t = u
           /\ \A t, u \in New(answer, mode) :
                 First(answer, t) <= First(answer, u) /\ First(answer, u) <= First(answer, t)
                 => t = u
  <1>1. Len(answer) \in Nat /\ DOMAIN answer = 1..Len(answer)
    OBVIOUS
  <1>2. ASSUME NEW t \in New(answer, mode)
        PROVE  First(answer, t) \in 1..Len(answer) /\ answer[First(answer, t)].title = t
    <2> DEFINE at == {i \in DOMAIN answer : answer[i].title = t}
    <2>1. D!TakenFor(answer, t) # D!None
      BY DEF New, D!Fits
    <2>2. \E i \in DOMAIN answer : answer[i].title = t
      BY <2>1, TakenIs
    <2>3. at # {} /\ at \in SUBSET Nat
      BY <1>1, <2>2
    <2> HIDE DEF at
    <2>4. D!Min(at) \in at
      BY <2>3, LeastIn
    <2> QED BY <1>1, <2>4 DEF First, at
  <1>3. \A a, b \in 1..Len(answer) : a <= b /\ b <= a => a = b
    BY <1>1
  <1>4. \A t, u \in New(answer, mode) : First(answer, t) = First(answer, u) => t = u
    BY <1>2
  <1> QED BY <1>2, <1>3, <1>4

LEMMA NewRanks ==
    ASSUME NEW answer \in Seq(D!Items), NEW mode
    PROVE  LET S == New(answer, mode)
           IN  /\ IsFiniteSet(S) /\ Cardinality(S) \in Nat
               /\ \A t \in S : Rank(answer, mode, t) \in 0..(Cardinality(S) - 1)
               /\ \A t, u \in S : Rank(answer, mode, t) = Rank(answer, mode, u) => t = u
               /\ \A k \in 0..(Cardinality(S) - 1) : \E t \in S : Rank(answer, mode, t) = k
  <1> DEFINE S == New(answer, mode)
             g == [t \in S |-> First(answer, t)]
             rank == [t \in S |-> Cardinality({u \in S : g[u] < g[t]})]
  <1>1. g \in [S -> 1..Len(answer)] /\ \A u, v \in S : g[u] = g[v] => u = v
    BY FirstsDiffer
  <1>2. \A t \in S : rank[t] = Rank(answer, mode, t)
    <2> TAKE t \in S
    <2>1. {u \in S : g[u] < g[t]} = {u \in S : First(answer, u) < First(answer, t)}
      OBVIOUS
    <2> QED BY <2>1 DEF Rank
  <1>3. Len(answer) \in Nat
    OBVIOUS
  <1> HIDE DEF S, g
  <1>4. /\ IsFiniteSet(S) /\ Cardinality(S) \in Nat
        /\ rank \in Bijection(S, 0..(Cardinality(S) - 1))
    BY <1>1, <1>3, Ranks
  <1> HIDE DEF rank
  <1>5. /\ rank \in [S -> 0..(Cardinality(S) - 1)]
        /\ \A t, u \in S : rank[t] = rank[u] => t = u
        /\ \A k \in 0..(Cardinality(S) - 1) : \E t \in S : rank[t] = k
    BY <1>4 DEF Bijection, Injection, Surjection, IsInjective
  <1> QED BY <1>2, <1>4, <1>5 DEF S

\* What a fresh document is.
Begins(raw, id, mode, e) ==
    /\ raw \in D!Items /\ e \in Doc /\ e.id = id /\ e.url = raw.url /\ e.body = raw.body
    /\ ~e.removed

LEMMA Beginning ==
    ASSUME NEW answer, answer \in Seq(D!Items), NEW mode, NEW t \in New(answer, mode),
           NEW id \in Nat \ {0}
    PROVE  Begins(D!TakenFor(answer, t), id, mode, D!Fresh(D!TakenFor(answer, t), id, mode))
  <1> PICK raw : raw = D!TakenFor(answer, t)
    OBVIOUS
  <1>1. raw # D!None /\ raw.body # ""
    BY DEF New, D!Fits
  <1>2. raw \in D!Items
    BY <1>1, TakenIs
  <1>3. (raw.mark = "archive") \in BOOLEAN /\ (~D!AsksAi(mode)) \in BOOLEAN
    BY DEF D!AsksAi
  <1>4. D!Fresh(raw, id, mode) \in DocFields
    BY <1>1, <1>2, <1>3 DEF D!Fresh, D!Items, DocFields
  <1>5. /\ D!Fresh(raw, id, mode).ai = FALSE /\ D!Fresh(raw, id, mode).removed = FALSE
        /\ D!Fresh(raw, id, mode).id = id /\ D!Fresh(raw, id, mode).url = raw.url
        /\ D!Fresh(raw, id, mode).body = raw.body
    BY DEF D!Fresh
  <1> QED BY <1>2, <1>4, <1>5 DEF Begins, Doc

-----------------------------------------------------------------------------
\* The invariant of the documents: each is one, and their ids are 1, 2, 3 ...

IdsOf(ds) ==
    LET known == D!Known(ds)
    IN  /\ IsFiniteSet(known)
        /\ \A t, u \in known : ds[t].id = ds[u].id => t = u
        /\ \A t \in known : ds[t].id \in 1..Cardinality(known)
        /\ \A i \in 1..Cardinality(known) : \E t \in known : ds[t].id = i

DocsOf(ds) == ds \in [Titles -> Doc \cup {D!NoDoc}] /\ IdsOf(ds)

DocsInv ==
    /\ DocsOf(docs)
    /\ locks \in [Titles -> Places \cup {""}]
    /\ requeue \in BOOLEAN /\ bakes \in 0..MAX_BAKES /\ marked \in 0..MAX_LOCKS
    /\ last.shown \subseteq last.scope /\ last.scope \subseteq D!Known(docs)

LEMMA NextIdIs ==
    ASSUME DocsOf(docs), NEW t0 \in Titles
    PROVE  Cardinality(D!Known(docs)) \in Nat /\ D!NextId = Cardinality(D!Known(docs)) + 1
  <1> DEFINE known == D!Known(docs)
             n == Cardinality(known)
             numbers == {docs[t].id : t \in Titles}
  <1>1. n \in Nat
    BY FS_CardinalityType DEF DocsOf, IdsOf
  <1>2. \A t \in Titles : docs[t].id = 0 \/ (t \in known /\ docs[t].id \in 1..n)
    <2> TAKE t \in Titles
    <2>1. t \in known => docs[t].id \in 1..n
      BY DEF DocsOf, IdsOf
    <2>2. t \notin known => docs[t] = D!NoDoc
      BY DEF D!Known
    <2>3. D!NoDoc.id = 0
      BY DEF D!NoDoc
    <2> QED BY <2>1, <2>2, <2>3
  <1>3. \A k \in numbers : k \in Nat /\ k <= n
    BY <1>1, <1>2
  <1>4. n \in numbers
    <2>1. CASE n = 0
      <3>1. docs[t0].id = 0
        BY <1>2, <2>1
      <3> QED BY <2>1, <3>1
    <2>2. CASE n # 0
      <3>1. n \in 1..n
        BY <1>1, <2>2
      <3>2. PICK t \in known : docs[t].id = n
        BY <3>1 DEF DocsOf, IdsOf
      <3>3. t \in Titles
        BY DEF D!Known
      <3> HIDE DEF n
      <3> QED BY <3>2, <3>3
    <2> QED BY <2>1, <2>2
  <1> HIDE DEF numbers, n
  <1>5. D!Highest(numbers) \in numbers /\ \A k \in numbers : k <= D!Highest(numbers)
    BY <1>3, <1>4 DEF D!Highest
  <1>6. D!Highest(numbers) = n
    <2> PICK h : h = D!Highest(numbers)
      OBVIOUS
    <2>1. h \in Nat /\ h <= n
      BY <1>3, <1>5
    <2>2. n <= h
      BY <1>4, <1>5
    <2>3. h = n
      BY <1>1, <2>1, <2>2
    <2> QED BY <2>3
  <1> QED BY <1>1, <1>6 DEF D!NextId, numbers, n

\* What a generation has of each document.
GenerationOf(items, mode, shown, g) ==
    /\ g \in [Titles -> Doc \cup {D!NoDoc}]
    /\ \A t \in D!Known(docs) :
          \E e : /\ Follows(t, docs[t], D!TakenFor(items, t), mode, shown, e)
                 /\ Ends(t, e, shown, g[t])
    /\ \A t \in New(items, mode) :
          \E e : /\ Begins(D!TakenFor(items, t),
                           Cardinality(D!Known(docs)) + 1 + Rank(items, mode, t), mode, e)
                 /\ Ends(t, e, shown, g[t])
    /\ D!Known(g) = D!Known(docs) \cup New(items, mode)

LEMMA Generates ==
    ASSUME DocsInv, NEW items \in Seq(D!Items), NEW mode \in D!AllModes, NEW shown
    PROVE  GenerationOf(items, mode, shown, D!Generation(items, mode, shown))
  <1> DEFINE known == D!Known(docs)
             new == New(items, mode)
             added == D!Added(items, mode)
             of(t) == IF t \in known THEN D!NextDoc(t, items, mode, shown) ELSE added[t]
             n == Cardinality(known)
  <1> PICK g : g = D!Generation(items, mode, shown)
    OBVIOUS
  <1>1. g = [t \in Titles |-> D!Requeued(t, D!Held(t, of(t)), shown)]
    BY DEF D!Generation
  <1>2. \A t \in Titles : g[t] = D!Requeued(t, D!Held(t, of(t)), shown)
    BY <1>1
  <1>3. /\ known \subseteq Titles /\ \A t \in known : docs[t] \in Doc
        /\ \A t \in Titles \ known : docs[t] = D!NoDoc
    BY DEF D!Known, DocsInv, DocsOf
  <1>4. new \subseteq Titles \ known
    BY DEF New, D!Fits
  <1>5. \A t \in Titles : locks[t] \in Places \cup {""}
    BY DEF DocsInv
  <1>6. DocsOf(docs)
    BY DEF DocsInv
  <1>7. \A t \in Titles :
            added[t] = IF t \in new
                       THEN D!Fresh(D!TakenFor(items, t), D!NextId + Rank(items, mode, t), mode)
                       ELSE D!NoDoc
    BY AddedIs
  <1>8. /\ Cardinality(new) \in Nat
        /\ \A t \in new : Rank(items, mode, t) \in 0..(Cardinality(new) - 1)
    BY NewRanks
  <1> HIDE DEF known, new, added
  <1>9. ASSUME NEW t \in known
        PROVE  \E e : /\ Follows(t, docs[t], D!TakenFor(items, t), mode, shown, e)
                      /\ Ends(t, e, shown, g[t])
    <2> PICK e : e = D!NextDoc(t, items, mode, shown)
      OBVIOUS
    <2>1. docs[t] \in Doc /\ t \in Titles /\ locks[t] \in Places \cup {""}
      BY <1>3, <1>5
    <2>2. Follows(t, docs[t], D!TakenFor(items, t), mode, shown, e)
      BY <2>1, Following
    <2>3. e \in Doc
      BY <2>2 DEF Follows
    <2>4. g[t] = D!Requeued(t, D!Held(t, e), shown)
      BY <1>2, <2>1
    <2>5. Ends(t, e, shown, g[t])
      BY <2>1, <2>3, <2>4, Ending
    <2> QED BY <2>2, <2>5
  <1>10. ASSUME NEW t \in new
         PROVE  \E e : /\ Begins(D!TakenFor(items, t), n + 1 + Rank(items, mode, t), mode, e)
                       /\ Ends(t, e, shown, g[t])
    <2> DEFINE id == n + 1 + Rank(items, mode, t)
    <2>1. t \in Titles /\ t \notin known /\ locks[t] \in Places \cup {""}
      BY <1>4, <1>5
    <2>2. n \in Nat /\ D!NextId = n + 1
      BY <1>6, <2>1, NextIdIs DEF known
    <2>3. Rank(items, mode, t) \in Nat
      BY <1>8
    <2>4. id \in Nat \ {0}
      BY <2>2, <2>3
    <2>5. added[t] = D!Fresh(D!TakenFor(items, t), id, mode)
      BY <1>7, <2>1, <2>2
    <2> HIDE DEF id
    <2> PICK e : e = added[t]
      OBVIOUS
    <2>6. Begins(D!TakenFor(items, t), id, mode, e)
      BY <2>4, <2>5, Beginning DEF new
    <2>7. e \in Doc
      BY <2>6 DEF Begins
    <2>8. g[t] = D!Requeued(t, D!Held(t, e), shown)
      BY <1>2, <2>1
    <2>9. Ends(t, e, shown, g[t])
      BY <2>1, <2>7, <2>8, Ending
    <2> QED BY <2>6, <2>9 DEF id
  <1>11. ASSUME NEW t \in Titles, t \notin known, t \notin new PROVE g[t] = D!NoDoc
    <2>1. of(t) = D!NoDoc
      BY <1>7, <1>11
    <2> QED BY <1>2, <2>1, NothingEnds
  <1>12. \A t \in known \cup new : g[t] \in Doc /\ t \in Titles
    BY <1>3, <1>4, <1>9, <1>10 DEF Ends
  <1>13. DOMAIN g = Titles /\ g = [t \in DOMAIN g |-> g[t]]
    BY <1>1
  <1>14. g \in [Titles -> Doc \cup {D!NoDoc}]
    BY <1>11, <1>12, <1>13
  <1>15. D!Known(g) = known \cup new
    BY <1>11, <1>12, NoDocIsNone DEF D!Known
  <1> QED BY <1>9, <1>10, <1>14, <1>15 DEF GenerationOf, known, new

LEMMA GenerationIds ==
    ASSUME DocsInv, NEW items \in Seq(D!Items), NEW mode, NEW shown, NEW g,
           GenerationOf(items, mode, shown, g)
    PROVE  DocsOf(g)
  <1> DEFINE known == D!Known(docs)
             new == New(items, mode)
             n == Cardinality(known)
             m == Cardinality(new)
  <1>1. /\ IsFiniteSet(known)
        /\ \A t, u \in known : docs[t].id = docs[u].id => t = u
        /\ \A t \in known : docs[t].id \in 1..n
        /\ \A i \in 1..n : \E t \in known : docs[t].id = i
    BY DEF DocsInv, DocsOf, IdsOf
  <1>2. /\ IsFiniteSet(new) /\ m \in Nat
        /\ \A t \in new : Rank(items, mode, t) \in 0..(m - 1)
        /\ \A t, u \in new : Rank(items, mode, t) = Rank(items, mode, u) => t = u
        /\ \A k \in 0..(m - 1) : \E t \in new : Rank(items, mode, t) = k
    BY NewRanks
  <1>3. n \in Nat
    BY <1>1, FS_CardinalityType
  <1>4. known \cap new = {}
    BY DEF New, D!Fits
  <1>5. D!Known(g) = known \cup new /\ g \in [Titles -> Doc \cup {D!NoDoc}]
    BY DEF GenerationOf
  <1>6. \A t \in known : g[t].id = docs[t].id
    <2> TAKE t \in known
    <2>1. PICK e : /\ Follows(t, docs[t], D!TakenFor(items, t), mode, shown, e)
                   /\ Ends(t, e, shown, g[t])
      BY DEF GenerationOf
    <2>2. e.id = docs[t].id
      BY <2>1 DEF Follows
    <2>3. g[t].id = e.id
      BY <2>1 DEF Ends
    <2> QED BY <2>2, <2>3
  <1>7. \A t \in new : g[t].id = n + 1 + Rank(items, mode, t)
    <2> TAKE t \in new
    <2>1. PICK e : /\ Begins(D!TakenFor(items, t), n + 1 + Rank(items, mode, t), mode, e)
                   /\ Ends(t, e, shown, g[t])
      BY DEF GenerationOf
    <2>2. e.id = n + 1 + Rank(items, mode, t)
      BY <2>1 DEF Begins
    <2>3. g[t].id = e.id
      BY <2>1 DEF Ends
    <2> QED BY <2>2, <2>3
  <1> HIDE DEF n, m
  <1>8. IsFiniteSet(known \cup new) /\ Cardinality(known \cup new) = n + m
    <2>1. /\ IsFiniteSet(known \cup new)
          /\ Cardinality(known \cup new) = n + m - Cardinality(known \cap new)
      BY <1>1, <1>2, FS_Union DEF n, m
    <2>2. Cardinality(known \cap new) = 0
      BY <1>4, FS_EmptySet
    <2> QED BY <1>2, <1>3, <2>1, <2>2
  <1> HIDE DEF known, new
  <1>9. \A t \in known : g[t].id \in 1..n
    BY <1>1, <1>6
  <1>10. \A t \in new : g[t].id \in (n + 1)..(n + m)
    BY <1>2, <1>3, <1>7
  <1>11. \A t \in known \cup new : g[t].id \in 1..(n + m)
    BY <1>2, <1>3, <1>9, <1>10
  <1>12. ASSUME NEW t \in known \cup new, NEW u \in known \cup new, g[t].id = g[u].id
         PROVE  t = u
    <2>1. CASE t \in known /\ u \in known
      BY <1>1, <1>6, <1>12, <2>1
    <2>2. CASE t \in new /\ u \in new
      BY <1>2, <1>3, <1>7, <1>12, <2>2
    <2>3. CASE t \in known /\ u \in new
      BY <1>3, <1>9, <1>10, <1>12, <2>3
    <2>4. CASE t \in new /\ u \in known
      BY <1>3, <1>9, <1>10, <1>12, <2>4
    <2> QED BY <2>1, <2>2, <2>3, <2>4
  <1>13. ASSUME NEW i \in 1..(n + m) PROVE \E t \in known \cup new : g[t].id = i
    <2>1. CASE i <= n
      <3>1. i \in 1..n
        BY <1>2, <1>3, <2>1
      <3> QED BY <1>1, <1>6, <3>1
    <2>2. CASE i > n
      <3>1. i - n - 1 \in 0..(m - 1)
        BY <1>2, <1>3, <2>2
      <3>2. PICK t \in new : Rank(items, mode, t) = i - n - 1
        BY <1>2, <3>1
      <3>3. g[t].id = i
        BY <1>2, <1>3, <1>7, <3>2
      <3> QED BY <3>3
    <2> QED BY <1>2, <1>3, <2>1, <2>2
  <1>14. IdsOf(g)
    BY <1>5, <1>8, <1>11, <1>12, <1>13 DEF IdsOf
  <1> QED BY <1>5, <1>14 DEF DocsOf

-----------------------------------------------------------------------------
\* A bake, by what it lays over what.

BakeOf(items, mode, scope, shown) ==
    /\ items \in Seq(D!Items) /\ mode \in D!AllModes
    /\ shown \subseteq scope /\ scope \subseteq D!Known(docs)
    /\ D!Edits(mode) => items \in Seq(Seen(scope))
    /\ GenerationOf(items, mode, shown, docs')
    /\ last' = [mode |-> mode, scope |-> scope, shown |-> shown,
                by |-> {<<items[i].title, D!TakenFor(items, items[i].title).mark>> :
                            i \in DOMAIN items}]
    /\ requeue' = FALSE /\ bakes' = bakes + 1 /\ bakes < MAX_BAKES
    /\ UNCHANGED <<locks, marked>>

LEMMA DocBounds == ASSUME D!DocumentsAssumption PROVE MAX_BAKES \in Nat /\ MAX_LOCKS \in Nat
  BY DEF D!DocumentsAssumption

LEMMA DocNumbers ==
    ASSUME D!DocumentsAssumption, DocsInv
    PROVE  /\ MAX_BAKES \in Nat /\ MAX_LOCKS \in Nat /\ bakes \in Nat /\ marked \in Nat
           /\ bakes <= MAX_BAKES /\ marked <= MAX_LOCKS
  <1>1. MAX_BAKES \in Nat /\ MAX_LOCKS \in Nat
    BY DocBounds
  <1>2. bakes \in 0..MAX_BAKES /\ marked \in 0..MAX_LOCKS
    BY DEF DocsInv
  <1> QED BY <1>1, <1>2

LEMMA NextIs ==
    ASSUME D!DocumentsAssumption, DocsInv, [D!Next]_D!vars
    PROVE  \/ \E items, mode, scope, shown : BakeOf(items, mode, scope, shown)
           \/ /\ UNCHANGED <<docs, last, bakes>>
              /\ locks' \in [Titles -> Places \cup {""}]
              /\ requeue' \in BOOLEAN /\ marked' \in 0..MAX_LOCKS
  <1>1. CASE UNCHANGED D!vars
    BY <1>1 DEF D!vars, DocsInv
  <1>2. ASSUME NEW f \in Fixings, D!SetLock(f[1], f[2])
        PROVE  /\ UNCHANGED <<docs, last, bakes>>
               /\ locks' \in [Titles -> Places \cup {""}]
               /\ requeue' \in BOOLEAN /\ marked' \in 0..MAX_LOCKS
    <2>1. f[2] \in Places \cup {""}
      BY DEF D!DocumentsAssumption
    <2>2. locks' \in [Titles -> Places \cup {""}]
      BY <1>2, <2>1 DEF D!SetLock, DocsInv
    <2>3. marked' \in 0..MAX_LOCKS
      <3>1. marked' = marked + 1 /\ marked < MAX_LOCKS
        BY <1>2 DEF D!SetLock
      <3>2. marked \in Nat /\ MAX_LOCKS \in Nat
        BY DocNumbers
      <3> QED BY <3>1, <3>2
    <2> QED BY <1>2, <2>2, <2>3 DEF D!SetLock, DocsInv
  <1>3. CASE D!RequestRequeue
    <2>1. marked' \in 0..MAX_LOCKS
      <3>1. marked' = marked + 1 /\ marked < MAX_LOCKS
        BY <1>3 DEF D!RequestRequeue
      <3>2. marked \in Nat /\ MAX_LOCKS \in Nat
        BY DocNumbers
      <3> QED BY <3>1, <3>2
    <2> QED BY <1>3, <2>1 DEF D!RequestRequeue, DocsInv
  <1>4. ASSUME NEW a \in Answers, NEW m \in Modes, NEW scope \in Scopes, NEW shown,
               D!Bake(a, m, scope, shown)
        PROVE  \E items, mode, s, sh : BakeOf(items, mode, s, sh)
    <2>1. a \in Seq(D!Items) /\ m \in D!AllModes /\ Numbered \in [Titles -> Seq(Titles)]
      BY DEF D!DocumentsAssumption
    <2> PICK items : items = IF D!Edits(m) THEN D!SeenEdits(a, scope) ELSE a
      OBVIOUS
    <2>2. D!Edits(m) => items \in Seq(Seen(scope))
      <3> SUFFICES ASSUME D!Edits(m) PROVE items \in Seq(Seen(scope))
        OBVIOUS
      <3>1. D!NumbersLeft(a, scope)
        BY <1>4 DEF D!Bake
      <3>2. D!SeenEdits(a, scope) \in Seq(Seen(scope))
        BY <2>1, <3>1, SeenOnly
      <3> QED BY <3>2
    <2>3. items \in Seq(D!Items)
      <3>1. Seen(scope) \subseteq D!Items
        BY DEF Seen
      <3>2. Seq(Seen(scope)) \subseteq Seq(D!Items)
        BY <3>1
      <3> QED BY <2>1, <2>2, <3>2
    <2>4. /\ docs' = D!Generation(items, m, shown)
          /\ last' = [mode |-> m, scope |-> scope, shown |-> shown,
                      by |-> {<<items[i].title, D!TakenFor(items, items[i].title).mark>> :
                                  i \in DOMAIN items}]
      BY <1>4 DEF D!Bake
    <2>5. GenerationOf(items, m, shown, docs')
      BY <2>1, <2>3, <2>4, Generates
    <2>6. /\ requeue' = FALSE /\ bakes' = bakes + 1 /\ bakes < MAX_BAKES
          /\ UNCHANGED <<locks, marked>>
          /\ shown \subseteq scope /\ scope \subseteq D!Known(docs)
      BY <1>4 DEF D!Bake
    <2>7. BakeOf(items, m, scope, shown)
      BY <2>1, <2>2, <2>3, <2>4, <2>5, <2>6 DEF BakeOf
    <2> QED BY <2>7
  <1> QED BY <1>1, <1>2, <1>3, <1>4 DEF D!Next

LEMMA DocsInit == ASSUME D!DocumentsAssumption, D!Init PROVE DocsInv
  <1>1. D!Known(docs) = {}
    BY DEF D!Init, D!Known
  <1>2. IsFiniteSet({}) /\ Cardinality({}) = 0
    BY FS_EmptySet
  <1>3. IdsOf(docs)
    BY <1>1, <1>2 DEF IdsOf
  <1>4. docs \in [Titles -> Doc \cup {D!NoDoc}]
    BY DEF D!Init
  <1>5. requeue \in BOOLEAN /\ bakes \in 0..MAX_BAKES /\ marked \in 0..MAX_LOCKS
    <2>1. requeue = FALSE /\ bakes = 0 /\ marked = 0
      BY DEF D!Init
    <2>2. MAX_BAKES \in Nat /\ MAX_LOCKS \in Nat
      BY DocBounds
    <2>3. 0 \in 0..MAX_BAKES /\ 0 \in 0..MAX_LOCKS
      BY <2>2
    <2> QED BY <2>1, <2>3
  <1>6. locks \in [Titles -> Places \cup {""}] /\ last.shown = {} /\ last.scope = {}
    BY DEF D!Init
  <1> QED BY <1>3, <1>4, <1>5, <1>6 DEF DocsInv, DocsOf

LEMMA DocsStep == ASSUME D!DocumentsAssumption, DocsInv, [D!Next]_D!vars PROVE DocsInv'
  <1>1. CASE \E items, mode, scope, shown : BakeOf(items, mode, scope, shown)
    <2> PICK items, mode, scope, shown : BakeOf(items, mode, scope, shown)
      BY <1>1
    <2>1. items \in Seq(D!Items) /\ GenerationOf(items, mode, shown, docs')
      BY DEF BakeOf
    <2>2. DocsOf(docs')
      BY <2>1, GenerationIds
    <2>3. bakes' \in 0..MAX_BAKES
      <3>1. bakes' = bakes + 1 /\ bakes < MAX_BAKES
        BY DEF BakeOf
      <3>2. bakes \in Nat /\ MAX_BAKES \in Nat
        BY DocNumbers
      <3> QED BY <3>1, <3>2
    <2>4. last'.shown \subseteq last'.scope /\ last'.scope \subseteq D!Known(docs)
      BY DEF BakeOf
    <2>5. D!Known(docs) \subseteq D!Known(docs')
      BY <2>1 DEF GenerationOf
    <2>6. locks' = locks /\ marked' = marked /\ requeue' = FALSE
      BY DEF BakeOf
    <2> QED BY <2>2, <2>3, <2>4, <2>5, <2>6 DEF DocsInv
  <1>2. CASE /\ UNCHANGED <<docs, last, bakes>>
             /\ locks' \in [Titles -> Places \cup {""}]
             /\ requeue' \in BOOLEAN /\ marked' \in 0..MAX_LOCKS
    BY <1>2 DEF DocsInv, DocsOf, IdsOf, D!Known
  <1> QED BY <1>1, <1>2, NextIs

LEMMA DocsInvariant == ASSUME D!DocumentsAssumption PROVE D!Spec => []DocsInv
  <1> QED BY DocsInit, DocsStep, PTL DEF D!Spec

\* Every document has an id of its own and a text, whatever was laid over it
\* (collect.py, _stream_docs).
THEOREM DocumentsTyped == ASSUME D!DocumentsAssumption PROVE D!Spec => []D!TypeOK
  <1>1. ASSUME DocsInv PROVE D!TypeOK
    <2>1. \A t \in D!Known(docs) : docs[t] \in Doc
      BY <1>1 DEF DocsInv, DocsOf, D!Known
    <2>2. \A t \in D!Known(docs) :
              /\ docs[t].body # "" /\ docs[t].at \in Places \cup {""}
              /\ {docs[t].removed, docs[t].archived, docs[t].unrev, docs[t].ai} \subseteq BOOLEAN
      BY <2>1 DEF Doc, DocFields
    <2>3. /\ \A t, u \in D!Known(docs) : docs[t].id = docs[u].id => t = u
          /\ \A t \in D!Known(docs) : docs[t].id \in 1..D!Cardinality(D!Known(docs))
      BY <1>1, DocCounts DEF DocsInv, DocsOf, IdsOf
    <2> QED BY <1>1, <2>2, <2>3 DEF D!TypeOK, DocsInv
  <1> QED BY <1>1, DocsInvariant, PTL

-----------------------------------------------------------------------------
\* What a bake says of one document.

\* What came for a title stands in the record of the run.
LEMMA Recorded ==
    ASSUME NEW items, NEW mode, NEW scope, NEW shown, BakeOf(items, mode, scope, shown), NEW t,
           D!TakenFor(items, t) # D!None
    PROVE  D!TakenFor(items, t).mark \in D!BroughtBy(t)
  <1>1. items \in Seq(D!Items)
    BY DEF BakeOf
  <1>2. D!TakenFor(items, t) \in D!Items /\ \E i \in DOMAIN items : items[i].title = t
    BY <1>1, TakenIs
  <1>3. PICK i \in DOMAIN items : items[i].title = t
    BY <1>2
  <1>4. D!TakenFor(items, t).mark \in D!Marks
    BY <1>2 DEF D!Items
  <1>5. last'.by = {<<items[j].title, D!TakenFor(items, items[j].title).mark>> :
                        j \in DOMAIN items}
    BY DEF BakeOf
  <1>6. <<t, D!TakenFor(items, t).mark>> \in last'.by
    BY <1>3, <1>5
  <1> QED BY <1>4, <1>6 DEF D!BroughtBy

LEMMA BakeKeeps ==
    ASSUME NEW items, NEW mode, NEW scope, NEW shown, BakeOf(items, mode, scope, shown),
           NEW t \in D!Known(docs)
    PROVE  \E e : /\ Follows(t, docs[t], D!TakenFor(items, t), mode, shown, e)
                  /\ Ends(t, e, shown, docs'[t])
  BY DEF BakeOf, GenerationOf

\* A step that bakes, by its parts; other steps leave the number of bakes alone.
LEMMA BakedIs ==
    ASSUME D!DocumentsAssumption, DocsInv, [D!Next]_D!vars, D!Baked
    PROVE  \E items, mode, scope, shown : BakeOf(items, mode, scope, shown)
  <1>1. bakes' # bakes
    <2>1. bakes' = bakes + 1
      BY DEF D!Baked
    <2>2. bakes \in Nat
      BY DocNumbers
    <2> QED BY <2>1, <2>2
  <1> QED BY <1>1, NextIs

-----------------------------------------------------------------------------

\* No document vanishes, and one that is removed comes back only at an item marked as a
\* restoration (collect.py, _stream_docs).
LEMMA RemovedStep ==
    ASSUME D!DocumentsAssumption, DocsInv, [D!Next]_D!vars, D!Baked, NEW t \in D!Known(docs)
    PROVE  /\ docs'[t] # D!NoDoc /\ docs'[t].id = docs[t].id
           /\ docs[t].removed /\ ~docs'[t].removed => "restore" \in D!BroughtBy(t)
  <1>1. PICK items, mode, scope, shown : BakeOf(items, mode, scope, shown)
    BY BakedIs
  <1>2. PICK e : /\ Follows(t, docs[t], D!TakenFor(items, t), mode, shown, e)
                 /\ Ends(t, e, shown, docs'[t])
    BY <1>1, BakeKeeps
  <1>3. docs'[t] \in Doc /\ docs'[t].id = docs[t].id /\ docs'[t].removed = e.removed
    BY <1>2 DEF Follows, Ends
  <1>4. ASSUME docs[t].removed, ~docs'[t].removed PROVE "restore" \in D!BroughtBy(t)
    <2>1. D!TakenFor(items, t) # D!None /\ D!TakenFor(items, t).mark = "restore"
      BY <1>2, <1>3, <1>4 DEF Follows
    <2> QED BY <1>1, <2>1, Recorded
  <1> QED BY <1>3, <1>4, NoDocIsNone

\* What is removed comes back only at an item marked as a restoration (collect.py,
\* _is_restore), and no document vanishes.
THEOREM RemovedStays == ASSUME D!DocumentsAssumption PROVE D!Spec => D!RemovedStaysRemoved
  <1>1. ASSUME DocsInv, [D!Next]_D!vars
        PROVE  [D!Baked => \A t \in D!Known(docs) :
                  /\ docs'[t] # D!NoDoc /\ docs'[t].id = docs[t].id
                  /\ docs[t].removed /\ ~docs'[t].removed => "restore" \in D!BroughtBy(t)]_D!vars
    BY <1>1, RemovedStep
  <1> QED BY <1>1, DocsInvariant, PTL DEF D!Spec, D!RemovedStaysRemoved

\* A place a person fixed is the place after every bake, and with a tag for doubts no AI
\* removes what has one (collect.py, held and _stream_docs).
LEMMA LockStep ==
    ASSUME D!DocumentsAssumption, DocsInv, [D!Next]_D!vars, D!Baked, NEW t \in Titles,
           locks[t] # ""
    PROVE  /\ D!Alive(docs'[t]) => docs'[t].at = locks[t]
           /\ DOUBT /\ D!Alive(docs[t]) => D!Alive(docs'[t])
  <1>1. PICK items, mode, scope, shown : BakeOf(items, mode, scope, shown)
    BY BakedIs
  <1>2. /\ docs' \in [Titles -> Doc \cup {D!NoDoc}]
        /\ D!Known(docs') = D!Known(docs) \cup New(items, mode)
    BY <1>1 DEF BakeOf, GenerationOf
  <1>3. ASSUME t \in D!Known(docs)
        PROVE  /\ D!Alive(docs'[t]) => docs'[t].at = locks[t]
               /\ DOUBT /\ D!Alive(docs[t]) => D!Alive(docs'[t])
    <2>1. PICK e : /\ Follows(t, docs[t], D!TakenFor(items, t), mode, shown, e)
                   /\ Ends(t, e, shown, docs'[t])
      BY <1>1, <1>3, BakeKeeps
    <2>2. docs'[t] \in Doc /\ docs'[t].removed = e.removed
      BY <2>1 DEF Ends
    <2>3. ~docs'[t].removed => docs'[t].at = locks[t]
      BY <2>1, <2>2 DEF Ends
    <2>4. DOUBT /\ ~docs[t].removed => ~e.removed
      BY <2>1 DEF Follows
    <2> QED BY <2>2, <2>3, <2>4, NoDocIsNone DEF D!Alive
  <1>4. ASSUME t \in New(items, mode), t \notin D!Known(docs)
        PROVE  D!Alive(docs'[t]) => docs'[t].at = locks[t]
    <2>1. PICK e : Ends(t, e, shown, docs'[t])
      BY <1>1, <1>4 DEF BakeOf, GenerationOf
    <2> QED BY <2>1 DEF Ends, D!Alive
  <1>5. t \notin D!Known(docs) => ~D!Alive(docs[t])
    BY DEF D!Known, D!Alive
  <1>6. t \notin D!Known(docs') => ~D!Alive(docs'[t])
    BY DEF D!Known, D!Alive
  <1> QED BY <1>2, <1>3, <1>4, <1>5, <1>6

\* A place a person fixed is put back whoever moved it (collect.py, held, _locked_change).
THEOREM LocksAreKept == ASSUME D!DocumentsAssumption PROVE D!Spec => D!LockHolds
  <1>1. ASSUME DocsInv, [D!Next]_D!vars
        PROVE  [D!Baked => \A t \in Titles :
                  locks[t] # "" =>
                      /\ D!Alive(docs'[t]) => docs'[t].at = locks[t]
                      /\ DOUBT /\ D!Alive(docs[t]) => D!Alive(docs'[t])]_D!vars
    BY <1>1, LockStep
  <1> QED BY <1>1, DocsInvariant, PTL DEF D!Spec, D!LockHolds

\* A fact an AI settled is not overwritten by a machine (collect.py, ai_keys).
THEOREM FactsStay == ASSUME D!DocumentsAssumption PROVE D!Spec => D!FactOfAiStays
  <1>1. ASSUME DocsInv, [D!Next]_D!vars, D!Baked, last'.mode \in {"extract", "feed"},
               NEW t \in D!Known(docs), docs[t].ai, ~docs[t].removed
        PROVE  docs'[t].fact = docs[t].fact
    <2>1. PICK items, mode, scope, shown : BakeOf(items, mode, scope, shown)
      BY <1>1, BakedIs
    <2>2. PICK e : /\ Follows(t, docs[t], D!TakenFor(items, t), mode, shown, e)
                   /\ Ends(t, e, shown, docs'[t])
      BY <2>1, BakeKeeps
    <2>3. mode \in {"extract", "feed"}
      BY <1>1, <2>1 DEF BakeOf
    <2>4. e.fact = docs[t].fact
      BY <1>1, <2>2, <2>3 DEF Follows
    <2> QED BY <2>2, <2>4 DEF Ends
  <1>2. ASSUME DocsInv, [D!Next]_D!vars
        PROVE  [(D!Baked /\ last'.mode \in {"extract", "feed"}) =>
                   \A t \in D!Known(docs) :
                      docs[t].ai /\ ~docs[t].removed => docs'[t].fact = docs[t].fact]_D!vars
    BY <1>1, <1>2
  <1> QED BY <1>2, DocsInvariant, PTL DEF D!Spec, D!FactOfAiStays

\* A run that edits leaves what it did not put before the AI as it was, whatever came
\* back under its title (collect.py, drop_unseen_edits).
LEMMA UnseenStep ==
    ASSUME D!DocumentsAssumption, DocsInv, [D!Next]_D!vars, D!Baked, D!Edits(last'.mode),
           NEW t \in D!Known(docs) \ last'.scope
    PROVE  LET d == D!Slim(docs[t]) e == docs'[t]
           IN  /\ e.body = d.body /\ e.url = d.url /\ e.fact = d.fact
               /\ e.removed = d.removed /\ e.archived = d.archived
               /\ e.unrev \in {d.unrev, requeue}
               /\ e.at # d.at => "retry" \in D!BroughtBy(t) \/ e.at = locks[t]
  <1>1. PICK items, mode, scope, shown : BakeOf(items, mode, scope, shown)
    BY BakedIs
  <1>2. last'.mode = mode /\ last'.scope = scope /\ shown \subseteq scope
    BY <1>1 DEF BakeOf
  <1>3. PICK c : /\ Follows(t, docs[t], D!TakenFor(items, t), mode, shown, c)
                 /\ Ends(t, c, shown, docs'[t])
    BY <1>1, BakeKeeps
  <1>4. items \in Seq(Seen(scope))
    BY <1>1, <1>2 DEF BakeOf
  <1>5. D!TakenFor(items, t) # D!None => D!TakenFor(items, t).mark = "retry"
    BY <1>2, <1>4, SeenItems
  <1>6. t \notin shown
    BY <1>2
  <1> PICK d : d = D!Slim(docs[t])
    OBVIOUS
  <1> PICK e : e = docs'[t]
    OBVIOUS
  <1>7. CASE D!TakenFor(items, t) = D!None
    <2>1. c = d
      BY <1>3, <1>6, <1>7 DEF Follows
    <2>2. /\ e.body = d.body /\ e.url = d.url /\ e.fact = d.fact
          /\ e.removed = d.removed /\ e.archived = d.archived
          /\ e.at = d.at \/ e.at = locks[t]
      BY <1>3, <2>1 DEF Ends
    <2>3. e.unrev = d.unrev \/ (requeue /\ e.unrev)
      BY <1>3, <2>1 DEF Ends
    <2>4. e \in Doc
      BY <1>3 DEF Ends
    <2>5. e.unrev \in BOOLEAN /\ requeue \in BOOLEAN
      BY <2>4 DEF Doc, DocFields, DocsInv
    <2>6. e.unrev \in {d.unrev, requeue}
      BY <2>3, <2>5
    <2> QED BY <2>2, <2>6
  <1>8. CASE D!TakenFor(items, t) # D!None
    <2>1. D!TakenFor(items, t).mark = "retry"
      BY <1>5, <1>8
    <2>2. /\ c.url = d.url /\ c.body = d.body /\ c.fact = d.fact
          /\ c.removed = d.removed /\ c.archived = d.archived /\ c.unrev = d.unrev
      BY <1>3, <1>8, <2>1 DEF Follows
    <2>3. "retry" \in D!BroughtBy(t)
      BY <1>1, <1>8, <2>1, Recorded
    <2>4. /\ e.body = d.body /\ e.url = d.url /\ e.fact = d.fact
          /\ e.removed = d.removed /\ e.archived = d.archived
      BY <1>3, <2>2 DEF Ends
    <2>5. e.unrev = d.unrev \/ (requeue /\ e.unrev)
      BY <1>3, <2>2 DEF Ends
    <2>6. e \in Doc
      BY <1>3 DEF Ends
    <2>7. e.unrev \in BOOLEAN /\ requeue \in BOOLEAN
      BY <2>6 DEF Doc, DocFields, DocsInv
    <2>8. e.unrev \in {d.unrev, requeue}
      BY <2>5, <2>7
    <2> QED BY <2>3, <2>4, <2>8
  <1> QED BY <1>7, <1>8

\* A document the AI was not shown is not replaced (collect.py, drop_unseen_edits).
THEOREM UnseenStays == ASSUME D!DocumentsAssumption PROVE D!Spec => D!UnseenIsNotReplaced
  <1>1. ASSUME DocsInv, [D!Next]_D!vars
        PROVE  [(D!Baked /\ D!Edits(last'.mode)) =>
                  \A t \in D!Known(docs) \ last'.scope :
                      LET d == D!Slim(docs[t]) e == docs'[t]
                      IN  /\ e.body = d.body /\ e.url = d.url /\ e.fact = d.fact
                          /\ e.removed = d.removed /\ e.archived = d.archived
                          /\ e.unrev \in {d.unrev, requeue}
                          /\ e.at # d.at => "retry" \in D!BroughtBy(t) \/ e.at = locks[t]]_D!vars
    BY <1>1, UnseenStep
  <1> QED BY <1>1, DocsInvariant, PTL DEF D!Spec, D!UnseenIsNotReplaced

\* A document loses the mark that it was not looked through only if an AI answered for
\* it, and a requeue marks everything that lives (collect.py, _reviewed, bake_lines).
LEMMA ReviewStep ==
    ASSUME D!DocumentsAssumption, DocsInv, [D!Next]_D!vars, D!Baked, NEW t \in D!Known(docs)
    PROVE  /\ docs[t].unrev /\ ~docs'[t].unrev =>
                 \/ t \in last'.shown
                 \/ D!BroughtBy(t) # {} /\ (D!AsksAi(last'.mode) \/ last'.mode = "crawl")
           /\ requeue /\ D!Alive(docs'[t]) /\ ~docs'[t].archived /\ t \notin last'.shown =>
                 docs'[t].unrev
  <1>1. PICK items, mode, scope, shown : BakeOf(items, mode, scope, shown)
    BY BakedIs
  <1>2. last'.mode = mode /\ last'.shown = shown
    BY <1>1 DEF BakeOf
  <1>3. PICK e : /\ Follows(t, docs[t], D!TakenFor(items, t), mode, shown, e)
                 /\ Ends(t, e, shown, docs'[t])
    BY <1>1, BakeKeeps
  <1>4. docs'[t] \in Doc /\ e \in Doc
    BY <1>3 DEF Follows, Ends
  <1>5. docs'[t].unrev \in BOOLEAN /\ e.unrev \in BOOLEAN
    BY <1>4 DEF Doc, DocFields
  <1>6. ~docs'[t].unrev => ~e.unrev
    BY <1>3, <1>5 DEF Ends
  <1>7. D!TakenFor(items, t) # D!None => D!BroughtBy(t) # {}
    BY <1>1, Recorded
  <1>8. docs[t].unrev /\ ~docs'[t].unrev =>
           \/ t \in shown
           \/ D!BroughtBy(t) # {} /\ (D!AsksAi(mode) \/ mode = "crawl")
    BY <1>3, <1>6, <1>7 DEF Follows
  <1>9. requeue /\ D!Alive(docs'[t]) /\ ~docs'[t].archived /\ t \notin shown => docs'[t].unrev
    BY <1>3 DEF Ends, D!Alive
  <1> QED BY <1>2, <1>8, <1>9

\* The mark of what no AI looked through goes only with a look (collect.py, _reviewed).
THEOREM ReviewIsEarned == ASSUME D!DocumentsAssumption PROVE D!Spec => D!UnreviewedIsEarned
  <1>1. ASSUME DocsInv, [D!Next]_D!vars
        PROVE  [D!Baked => \A t \in D!Known(docs) :
                  /\ docs[t].unrev /\ ~docs'[t].unrev =>
                        \/ t \in last'.shown
                        \/ D!BroughtBy(t) # {} /\ (D!AsksAi(last'.mode) \/ last'.mode = "crawl")
                  /\ requeue /\ D!Alive(docs'[t]) /\ ~docs'[t].archived /\ t \notin last'.shown =>
                        docs'[t].unrev]_D!vars
    BY <1>1, ReviewStep
  <1> QED BY <1>1, DocsInvariant, PTL DEF D!Spec, D!UnreviewedIsEarned

\* What is added has a url that nothing else has (collect.py, _incoming_urls).
LEMMA UrlStep ==
    ASSUME D!DocumentsAssumption, DocsInv, [D!Next]_D!vars, D!Baked, last'.mode # "extract",
           NEW t \in D!Known(docs') \ D!Known(docs), docs'[t].url # ""
    PROVE  /\ \A u \in D!Known(docs) : docs[u].url # docs'[t].url
           /\ \A u \in D!Known(docs') \ (D!Known(docs) \cup {t}) : docs'[u].url # docs'[t].url
  <1>1. PICK items, mode, scope, shown : BakeOf(items, mode, scope, shown)
    BY BakedIs
  <1>2. /\ items \in Seq(D!Items) /\ GenerationOf(items, mode, shown, docs')
        /\ last'.mode = mode
    BY <1>1 DEF BakeOf
  <1> DEFINE new == New(items, mode)
             url(u) == D!TakenFor(items, u).url
  <1>3. D!Known(docs') = D!Known(docs) \cup new
    BY <1>2 DEF GenerationOf
  <1>4. t \in new
    BY <1>3
  <1>5. ASSUME NEW u \in new PROVE docs'[u].url = url(u)
    <2>1. PICK e : /\ Begins(D!TakenFor(items, u),
                             Cardinality(D!Known(docs)) + 1 + Rank(items, mode, u), mode, e)
                   /\ Ends(u, e, shown, docs'[u])
      BY <1>2, <1>5 DEF GenerationOf
    <2> QED BY <2>1 DEF Begins, Ends
  <1>6. url(t) # ""
    BY <1>4, <1>5
  <1>7. url(t) \in D!Incoming(items, mode)
    <2>1. D!TakenFor(items, t) # D!None
      BY <1>4 DEF New, D!Fits
    <2>2. PICK i \in DOMAIN items : D!TakenFor(items, t) = items[i]
      BY <1>2, <2>1, TakenIs
    <2>3. mode # "extract"
      BY <1>2
    <2> QED BY <1>6, <2>2, <2>3 DEF D!Incoming
  <1>8. url(t) \notin D!Incoming(items, mode) \cap {docs[u].url : u \in D!Known(docs)}
    BY <1>4 DEF New, D!Fits
  <1>9. \A u \in D!Known(docs) : docs[u].url # url(t)
    BY <1>7, <1>8
  <1>10. ASSUME NEW u \in new, url(u) = url(t) PROVE u = t
    <2>1. First(items, u) <= First(items, t) /\ First(items, t) <= First(items, u)
      BY <1>4, <1>6, <1>10 DEF New
    <2> QED BY <1>2, <1>4, <2>1, FirstsDiffer
  <1> HIDE DEF new, url
  <1>11. ASSUME NEW u \in D!Known(docs') \ (D!Known(docs) \cup {t})
         PROVE  docs'[u].url # docs'[t].url
    <2>1. u \in new /\ u # t
      BY <1>3, <1>11
    <2> QED BY <1>4, <1>5, <1>10, <2>1
  <1> QED BY <1>4, <1>5, <1>9, <1>11

\* What is added has a url no other document has (collect.py, _incoming_urls).
THEOREM UrlsDiffer == ASSUME D!DocumentsAssumption PROVE D!Spec => D!NoUrlTwice
  <1>1. ASSUME DocsInv, [D!Next]_D!vars
        PROVE  [(D!Baked /\ last'.mode # "extract") =>
                  \A t \in D!Known(docs') \ D!Known(docs) :
                      docs'[t].url # "" =>
                          /\ \A u \in D!Known(docs) : docs[u].url # docs'[t].url
                          /\ \A u \in D!Known(docs') \ (D!Known(docs) \cup {t}) :
                                docs'[u].url # docs'[t].url]_D!vars
    BY <1>1, UrlStep
  <1> QED BY <1>1, DocsInvariant, PTL DEF D!Spec, D!NoUrlTwice

-----------------------------------------------------------------------------
\* The partitions.  A ledger is a list of such partitions.

States == {"none", "new", "seen", "gone"}
Parts(n) == [lo : 1..N, hi : 1..N, count : Nat, visits : [Lookers -> 0..n]]

\* The list is in the order of the keys, which lie apart, before the title b.
SortedTo(q, b) ==
    /\ \A i, j \in DOMAIN q : i < j => q[i].lo < q[j].lo /\ q[i].hi < q[j].lo
    /\ \A i \in DOMAIN q : q[i].lo < b /\ q[i].hi < b

\* The title lies from the beginning of the i-th key up to that of the next.
Reaches(q, i, t) == q[i].lo <= t /\ \A j \in DOMAIN q : i < j => t < q[j].lo

\* What is marked was looked at, as far as the title b and for the titles S.
EarnedTo(q, b, S, w) ==
    \A i \in DOMAIN q, s \in Lookers :
        q[i].visits[s] # 0 =>
            \A t \in S : t < b /\ Reaches(q, i, t) => q[i].visits[s] <= w[s][t]

LEMMA PartsShape ==
    ASSUME NEW n \in Nat, NEW q \in Seq(Parts(n)), P!PartitionsAssumption
    PROVE  /\ N \in Nat \ {0} /\ Len(q) \in Nat /\ DOMAIN q = 1..Len(q)
           /\ q = <<>> <=> Len(q) = 0
           /\ \A i \in 1..Len(q) : /\ q[i] \in Parts(n)
                                   /\ q[i].lo \in 1..N /\ q[i].hi \in 1..N /\ q[i].count \in Nat
                                   /\ q[i].visits \in [Lookers -> 0..n]
                                   /\ \A s \in Lookers : q[i].visits[s] \in 0..n
  <1>1. N \in Nat \ {0}
    BY DEF P!PartitionsAssumption
  <1>2. \A i \in 1..Len(q) : q[i] \in Parts(n)
    OBVIOUS
  <1>3. \A p \in Parts(n) : /\ p.lo \in 1..N /\ p.hi \in 1..N /\ p.count \in Nat
                            /\ p.visits \in [Lookers -> 0..n]
    BY DEF Parts
  <1>4. \A p \in Parts(n), s \in Lookers : p.visits[s] \in 0..n
    BY <1>3
  <1>5. Len(q) \in Nat /\ DOMAIN q = 1..Len(q) /\ (q = <<>> <=> Len(q) = 0)
    OBVIOUS
  <1> QED BY <1>1, <1>2, <1>3, <1>4, <1>5

\* Two lists one after the other.
LEMMA Follow ==
    ASSUME P!PartitionsAssumption,
           NEW n \in Nat, NEW H \in Seq(Parts(n)), NEW B \in Seq(Parts(n)), B # <<>>,
           NEW c \in 1..(N + 1), SortedTo(H, B[1].lo), SortedTo(B, c)
    PROVE  /\ H \o B \in Seq(Parts(n)) /\ H \o B # <<>>
           /\ (H \o B)[1] = IF H = <<>> THEN B[1] ELSE H[1]
           /\ SortedTo(H \o B, c)
           /\ \A S \in SUBSET (1..N), w \in [Lookers -> [1..N -> Nat]] :
                 EarnedTo(H, B[1].lo, S, w) /\ EarnedTo(B, c, S, w) => EarnedTo(H \o B, c, S, w)
  <1> DEFINE a == Len(H)
             m == Len(B)
             C == H \o B
  <1>1. /\ a \in Nat /\ m \in Nat /\ m >= 1
        /\ DOMAIN H = 1..a /\ DOMAIN B = 1..m
    BY PartsShape
  <1>2. /\ C \in Seq(Parts(n)) /\ Len(C) = a + m
        /\ \A i \in 1..a : C[i] = H[i]
        /\ \A i \in 1..m : C[a + i] = B[i]
    BY <1>1
  <1>3. /\ \A i \in 1..a : H[i].lo \in 1..N /\ H[i].hi \in 1..N
        /\ \A i \in 1..m : B[i].lo \in 1..N /\ B[i].hi \in 1..N
    BY PartsShape
  <1>4. DOMAIN C = 1..(a + m) /\ C # <<>>
    BY <1>1, <1>2
  <1>5. C[1] = IF H = <<>> THEN B[1] ELSE H[1]
    <2>1. CASE H = <<>>
      <3>1. a = 0 /\ 1 \in 1..m /\ a + 1 = 1
        BY <1>1, <2>1
      <3> QED BY <1>2, <2>1, <3>1
    <2>2. CASE H # <<>>
      <3>1. 1 \in 1..a
        BY <1>1, <2>2
      <3> QED BY <1>2, <2>2, <3>1
    <2> QED BY <2>1, <2>2
  <1> HIDE DEF a, m, C
  <1>6. N \in Nat
    BY DEF P!PartitionsAssumption
  <1>7. \A i \in 1..(a + m) : i \in 1..a \/ \E k \in 1..m : i = a + k
    <2> SUFFICES ASSUME NEW i \in 1..(a + m), i \notin 1..a PROVE \E k \in 1..m : i = a + k
      OBVIOUS
    <2>1. i - a \in 1..m /\ i = a + (i - a)
      BY <1>1
    <2> QED BY <2>1
  <1>8. /\ \A i, j \in 1..a : i < j => H[i].lo < H[j].lo /\ H[i].hi < H[j].lo
        /\ \A i \in 1..a : H[i].lo < B[1].lo /\ H[i].hi < B[1].lo
    BY <1>1 DEF SortedTo
  <1>9. /\ \A i, j \in 1..m : i < j => B[i].lo < B[j].lo /\ B[i].hi < B[j].lo
        /\ \A i \in 1..m : B[i].lo < c /\ B[i].hi < c
    BY <1>1 DEF SortedTo
  <1>10. \A j \in 1..m : B[1].lo <= B[j].lo
    <2>1. \A j \in 1..m : j = 1 \/ 1 < j
      BY <1>1
    <2>2. 1 \in 1..m
      BY <1>1
    <2> QED BY <1>3, <1>9, <2>1, <2>2
  <1>11. ASSUME NEW i \in 1..a, NEW j \in 1..m PROVE H[i].lo < B[j].lo /\ H[i].hi < B[j].lo
    <2>1. 1 \in 1..m
      BY <1>1
    <2> QED BY <1>3, <1>8, <1>10, <2>1
  <1>12. SortedTo(C, c)
    <2>1. ASSUME NEW i \in 1..(a + m), NEW j \in 1..(a + m), i < j
          PROVE  C[i].lo < C[j].lo /\ C[i].hi < C[j].lo
      <3>1. CASE i \in 1..a /\ j \in 1..a
        BY <1>2, <1>8, <2>1, <3>1
      <3>2. CASE i \in 1..a /\ j \notin 1..a
        BY <1>2, <1>7, <1>11, <3>2
      <3>3. CASE i \notin 1..a
        <4>1. PICK k \in 1..m : i = a + k
          BY <1>7, <3>3
        <4>2. j \notin 1..a
          BY <1>1, <2>1, <4>1
        <4>3. PICK l \in 1..m : j = a + l
          BY <1>7, <4>2
        <4>4. k < l
          BY <1>1, <2>1, <4>1, <4>3
        <4> QED BY <1>2, <1>9, <4>1, <4>3, <4>4
      <3> QED BY <3>1, <3>2, <3>3
    <2>2. ASSUME NEW i \in 1..(a + m) PROVE C[i].lo < c /\ C[i].hi < c
      <3>1. CASE i \in 1..a
        <4>1. 1 \in 1..m
          BY <1>1
        <4>2. C[i].lo < B[1].lo /\ C[i].hi < B[1].lo /\ B[1].lo < c
          BY <1>2, <1>8, <1>9, <3>1, <4>1
        <4>3. C[i].lo \in Int /\ C[i].hi \in Int /\ B[1].lo \in Int
          BY <1>2, <1>3, <3>1, <4>1
        <4> QED BY <1>6, <4>2, <4>3
      <3>2. CASE i \notin 1..a
        BY <1>2, <1>7, <1>9, <3>2
      <3> QED BY <3>1, <3>2
    <2> QED BY <1>4, <2>1, <2>2 DEF SortedTo
  <1>13. ASSUME NEW S \in SUBSET (1..N), NEW w \in [Lookers -> [1..N -> Nat]],
                EarnedTo(H, B[1].lo, S, w), EarnedTo(B, c, S, w)
         PROVE  EarnedTo(C, c, S, w)
    <2> SUFFICES ASSUME NEW i \in 1..(a + m), NEW s \in Lookers, C[i].visits[s] # 0,
                        NEW t \in S, t < c, Reaches(C, i, t)
                 PROVE  C[i].visits[s] <= w[s][t]
      BY <1>4 DEF EarnedTo
    <2>1. C[i].lo <= t /\ \A j \in 1..(a + m) : i < j => t < C[j].lo
      BY <1>4 DEF Reaches
    <2>2. CASE i \in 1..a
      <3>1. ASSUME NEW j \in 1..a, i < j PROVE t < H[j].lo
        <4>1. j \in 1..(a + m)
          BY <1>1
        <4> QED BY <1>2, <2>1, <3>1, <4>1
      <3>2. t < B[1].lo
        <4>1. a + 1 \in 1..(a + m) /\ i < a + 1 /\ 1 \in 1..m
          BY <1>1, <2>2
        <4>2. C[a + 1] = B[1]
          BY <1>2, <4>1
        <4> QED BY <2>1, <4>1, <4>2
      <3>3. Reaches(H, i, t)
        BY <1>1, <1>2, <2>1, <2>2, <3>1 DEF Reaches
      <3>4. C[i] = H[i]
        BY <1>2, <2>2
      <3> QED BY <1>1, <1>13, <2>2, <3>2, <3>3, <3>4 DEF EarnedTo
    <2>3. CASE i \notin 1..a
      <3>1. PICK k \in 1..m : i = a + k
        BY <1>7, <2>3
      <3>2. C[i] = B[k]
        BY <1>2, <3>1
      <3>3. ASSUME NEW j \in 1..m, k < j PROVE t < B[j].lo
        <4>1. a + j \in 1..(a + m) /\ i < a + j
          BY <1>1, <3>1, <3>3
        <4> QED BY <1>2, <2>1, <4>1
      <3>4. Reaches(B, k, t)
        BY <1>1, <2>1, <3>2, <3>3 DEF Reaches
      <3> QED BY <1>1, <1>13, <3>2, <3>4 DEF EarnedTo
    <2> QED BY <2>2, <2>3
  <1> QED BY <1>2, <1>4, <1>5, <1>12, <1>13 DEF C

LEMMA PartCounts == \A S : P!Cardinality(S) = Cardinality(S)
  BY DEF P!Cardinality, Cardinality

LEMMA Intervals ==
    ASSUME P!PartitionsAssumption
    PROVE  /\ N \in Nat \ {0} /\ IsFiniteSet(1..N)
           /\ \A S \in SUBSET (1..N) : IsFiniteSet(S) /\ Cardinality(S) \in Nat
           /\ P!Headings = 1..N
  <1>1. N \in Nat \ {0} /\ IsFiniteSet(1..N)
    <2>1. N \in Nat \ {0}
      BY DEF P!PartitionsAssumption
    <2> QED BY <2>1, FS_Interval
  <1>2. \A S \in SUBSET (1..N) : IsFiniteSet(S) /\ Cardinality(S) \in Nat
    BY <1>1, FS_Subset, FS_CardinalityType
  <1> QED BY <1>1, <1>2 DEF P!Headings

\* The title that c of S come before, and their order.
LEMMA RankedIs ==
    ASSUME P!PartitionsAssumption, NEW S \in SUBSET (1..N)
    PROVE  /\ Cardinality(S) \in Nat
           /\ \A c \in 0..(Cardinality(S) - 1) :
                 P!Ranked(c, S) \in S /\ P!Rank(P!Ranked(c, S), S) = c
           /\ \A c, d \in 0..(Cardinality(S) - 1) : c < d => P!Ranked(c, S) < P!Ranked(d, S)
           /\ \A t \in S : /\ P!Rank(t, S) \in 0..(Cardinality(S) - 1)
                            /\ P!Ranked(P!Rank(t, S), S) = t
           /\ \A t \in S : (\A u \in S : t <= u) => P!Rank(t, S) = 0
  <1> DEFINE g == [t \in S |-> t]
             k == Cardinality(S)
             B(t) == {x \in S : x < t}
             rank == [t \in S |-> Cardinality({u \in S : g[u] < g[t]})]
  <1>0. \A x \in S : x \in Int
    BY Intervals
  <1>1. /\ IsFiniteSet(S) /\ k \in Nat /\ rank \in Bijection(S, 0..(k - 1))
    <2>1. N \in Nat /\ g \in [S -> 1..N] /\ \A u, v \in S : g[u] = g[v] => u = v
      BY Intervals
    <2> HIDE DEF g
    <2> QED BY <2>1, Ranks
  <1>2. \A t \in S : rank[t] = P!Rank(t, S) /\ P!Rank(t, S) = Cardinality(B(t))
    <2>1. \A t \in S : {u \in S : g[u] < g[t]} = B(t)
      OBVIOUS
    <2>2. \A t \in S : rank[t] = Cardinality(B(t))
      BY <2>1
    <2>3. \A t \in S : P!Rank(t, S) = Cardinality(B(t))
      BY PartCounts DEF P!Rank
    <2> QED BY <2>2, <2>3
  <1> HIDE DEF rank, k
  <1>3. /\ \A t \in S : rank[t] \in 0..(k - 1)
        /\ \A c \in 0..(k - 1) : \E t \in S : rank[t] = c
        /\ \A t, u \in S : rank[t] = rank[u] => t = u
    BY <1>1 DEF IsInjective, Bijection, Injection, Surjection
  <1>4. ASSUME NEW c \in 0..(k - 1) PROVE P!Ranked(c, S) \in S /\ P!Rank(P!Ranked(c, S), S) = c
    <2>1. \E t \in S : P!Rank(t, S) = c
      BY <1>2, <1>3
    <2> QED BY <2>1 DEF P!Ranked
  <1>5. ASSUME NEW u \in S, NEW v \in S, u <= v PROVE P!Rank(u, S) <= P!Rank(v, S)
    <2>1. \A x \in S : x < u => x < v
      BY <1>0, <1>5
    <2>2. B(u) \in SUBSET B(v) /\ B(v) \in SUBSET S
      BY <2>1
    <2> HIDE DEF B
    <2>3. IsFiniteSet(B(v)) /\ Cardinality(B(u)) <= Cardinality(B(v))
      BY <1>1, <2>2, FS_Subset
    <2> QED BY <1>2, <2>3
  <1>6. ASSUME NEW c \in 0..(k - 1), NEW d \in 0..(k - 1), c < d
        PROVE  P!Ranked(c, S) < P!Ranked(d, S)
    <2>1. /\ P!Ranked(c, S) \in S /\ P!Ranked(d, S) \in S
          /\ P!Rank(P!Ranked(c, S), S) = c /\ P!Rank(P!Ranked(d, S), S) = d
      BY <1>4
    <2>2. P!Ranked(c, S) \in Int /\ P!Ranked(d, S) \in Int
      BY <1>0, <2>1
    <2>3. SUFFICES ASSUME P!Ranked(d, S) <= P!Ranked(c, S) PROVE FALSE
      BY <2>2
    <2>4. P!Rank(P!Ranked(d, S), S) <= P!Rank(P!Ranked(c, S), S)
      BY <1>5, <2>1, <2>3
    <2> QED BY <1>6, <2>1, <2>4
  <1>7. ASSUME NEW t \in S, \A u \in S : t <= u PROVE P!Rank(t, S) = 0
    <2>1. \A x \in S : ~(x < t)
      BY <1>0, <1>7
    <2>2. B(t) = {}
      BY <2>1
    <2> HIDE DEF B
    <2> QED BY <1>2, <2>2, FS_EmptySet
  <1>8. ASSUME NEW t \in S PROVE P!Rank(t, S) \in 0..(k - 1) /\ P!Ranked(P!Rank(t, S), S) = t
    <2>1. P!Rank(t, S) \in 0..(k - 1)
      BY <1>2, <1>3
    <2>2. /\ P!Ranked(P!Rank(t, S), S) \in S
          /\ P!Rank(P!Ranked(P!Rank(t, S), S), S) = P!Rank(t, S)
      BY <1>4, <2>1
    <2> QED BY <1>2, <1>3, <2>1, <2>2
  <1>9. k \in Nat
    BY <1>1
  <1> QED BY <1>4, <1>6, <1>7, <1>8, <1>9 DEF k

LEMMA PartMax ==
    ASSUME P!PartitionsAssumption, NEW S \in SUBSET (1..N), S # {}
    PROVE  P!Max(S) \in S /\ \A x \in S : x <= P!Max(S)
  <1>1. N \in Nat
    BY Intervals
  <1>2. S \in SUBSET (0..N)
    BY <1>1
  <1>3. \E i \in S : \A k \in S : k <= i
    BY <1>1, <1>2, GreatestOf
  <1>4. \A x \in S : x \in Int
    BY <1>1
  <1>5. \E x \in S : \A y \in S : x >= y
    BY <1>3, <1>4
  <1>6. P!Max(S) \in S /\ \A y \in S : P!Max(S) >= y
    BY <1>5 DEF P!Max
  <1> QED BY <1>4, <1>6

\* The titles at which a chunk begins, and what it holds.
Starts(titles) == {t \in titles : P!Rank(t, titles) % TARGET = 0}
Holds(titles, t) == {u \in titles : t <= u /\ \A v \in Starts(titles) : t < v => u < v}

LEMMA ChunksAre ==
    ASSUME NEW titles
    PROVE  P!Chunks(titles) =
               [c \in 1..Cardinality(Starts(titles)) |->
                   P!Partition(P!Ranked(c - 1, Starts(titles)),
                               P!Max(Holds(titles, P!Ranked(c - 1, Starts(titles)))),
                               Cardinality(Holds(titles, P!Ranked(c - 1, Starts(titles)))),
                               P!Unvisited)]
  BY PartCounts DEF P!Chunks, Starts, Holds

LEMMA ChunksShape ==
    ASSUME P!PartitionsAssumption, NEW titles \in SUBSET (1..N), NEW n \in Nat
    PROVE  LET q == P!Chunks(titles)
           IN  /\ q \in Seq(Parts(n)) /\ (q = <<>> <=> titles = {})
               /\ SortedTo(q, N + 1)
               /\ \A i \in DOMAIN q : /\ q[i].visits = P!Unvisited
                                      /\ q[i].lo \in titles /\ q[i].hi \in titles
               /\ titles # {} => \A t \in titles : q[1].lo <= t
               /\ \A i \in DOMAIN q, t \in titles : Reaches(q, i, t) => t <= q[i].hi
  <1> DEFINE q == P!Chunks(titles)
             S == Starts(titles)
             k == Cardinality(S)
             lo(c) == P!Ranked(c - 1, S)
             hi(c) == P!Max(Holds(titles, lo(c)))
  <1>1. S \in SUBSET titles /\ S \in SUBSET (1..N) /\ k \in Nat
    <2>1. S \in SUBSET titles
      BY DEF Starts
    <2> HIDE DEF S
    <2> QED BY <2>1, Intervals
  <1>2. N \in Nat /\ \A t \in titles : t \in Int
    BY Intervals
  <1>3. ASSUME NEW t \in titles, \A u \in titles : t <= u PROVE t \in S
    <2>1. P!Rank(t, titles) = 0
      BY <1>3, RankedIs
    <2>2. 0 % TARGET = 0
      BY DEF P!PartitionsAssumption
    <2> QED BY <2>1, <2>2 DEF Starts
  <1>4. titles # {} => \E t \in titles : \A u \in titles : t <= u
    <2>1. titles \in SUBSET Nat
      BY <1>2
    <2> QED BY <2>1, LeastOf
  <1>5. ASSUME NEW c \in 1..k
        PROVE  /\ lo(c) \in S /\ P!Rank(lo(c), S) = c - 1
               /\ hi(c) \in Holds(titles, lo(c)) /\ \A u \in Holds(titles, lo(c)) : u <= hi(c)
               /\ q[c] = P!Partition(lo(c), hi(c), Cardinality(Holds(titles, lo(c))), P!Unvisited)
               /\ Cardinality(Holds(titles, lo(c))) \in Nat
    <2>1. c - 1 \in 0..(k - 1)
      BY <1>1
    <2>2. lo(c) \in S /\ P!Rank(lo(c), S) = c - 1
      <3> HIDE DEF S
      <3> QED BY <1>1, <2>1, RankedIs DEF k
    <2>3. lo(c) \in Holds(titles, lo(c))
      BY <1>1, <1>2, <2>2 DEF Holds
    <2>4. Holds(titles, lo(c)) \in SUBSET (1..N)
      BY DEF Holds
    <2>5. hi(c) \in Holds(titles, lo(c)) /\ \A u \in Holds(titles, lo(c)) : u <= hi(c)
      <3> HIDE DEF lo
      <3> QED BY <2>3, <2>4, PartMax
    <2>6. Cardinality(Holds(titles, lo(c))) \in Nat
      BY <2>4, Intervals
    <2>7. q[c] = P!Partition(lo(c), hi(c), Cardinality(Holds(titles, lo(c))), P!Unvisited)
      BY ChunksAre
    <2> QED BY <2>2, <2>5, <2>6, <2>7
  <1>6. \A c, d \in 1..k : c < d => lo(c) < lo(d)
    <2>1. ASSUME NEW c \in 1..k, NEW d \in 1..k, c < d PROVE lo(c) < lo(d)
      <3>1. c - 1 \in 0..(k - 1) /\ d - 1 \in 0..(k - 1) /\ c - 1 < d - 1
        BY <1>1, <2>1
      <3> HIDE DEF S
      <3> QED BY <1>1, <3>1, RankedIs DEF k
    <2> QED BY <2>1
  <1>7. DOMAIN q = 1..k /\ \A c \in 1..k : q[c].lo = lo(c) /\ q[c].hi = hi(c)
                                           /\ q[c].visits = P!Unvisited
    <2>1. DOMAIN q = 1..k
      BY ChunksAre
    <2> QED BY <1>5, <2>1 DEF P!Partition
  <1>8. ASSUME NEW c \in 1..k
        PROVE  /\ lo(c) \in titles /\ hi(c) \in titles /\ lo(c) <= hi(c)
               /\ \A v \in S : lo(c) < v => hi(c) < v
    BY <1>1, <1>5 DEF Holds
  <1>9. q \in Seq(Parts(n)) /\ Len(q) = k
    <2>1. P!Unvisited \in [Lookers -> 0..n]
      BY DEF P!Unvisited
    <2>2. \A c \in 1..k : q[c] \in Parts(n)
      <3>1. ASSUME NEW c \in 1..k PROVE q[c] \in Parts(n)
        <4>1. lo(c) \in 1..N /\ hi(c) \in 1..N
          BY <1>8
        <4>2. /\ q[c] = P!Partition(lo(c), hi(c), Cardinality(Holds(titles, lo(c))), P!Unvisited)
              /\ Cardinality(Holds(titles, lo(c))) \in Nat
          BY <1>5
        <4> HIDE DEF lo, hi, q
        <4> QED BY <2>1, <4>1, <4>2 DEF Parts, P!Partition
      <3> QED BY <3>1
    <2>3. q = [c \in 1..k |-> q[c]]
      BY ChunksAre
    <2> HIDE DEF q, k
    <2> QED BY <1>1, <2>2, <2>3
  <1>10. q = <<>> <=> titles = {}
    <2>1. k = 0 <=> S = {}
      <3>1. IsFiniteSet(S)
        BY <1>1, Intervals
      <3> HIDE DEF S
      <3> QED BY <3>1, FS_EmptySet
    <2>2. S = {} <=> titles = {}
      BY <1>1, <1>3, <1>4
    <2>3. q = <<>> <=> k = 0
      <3> HIDE DEF q, k
      <3> QED BY <1>9
    <2> QED BY <2>1, <2>2, <2>3
  <1> HIDE DEF lo, hi, k
  <1>11. SortedTo(q, N + 1)
    <2>1. ASSUME NEW i \in 1..k, NEW j \in 1..k, i < j
          PROVE  q[i].lo < q[j].lo /\ q[i].hi < q[j].lo
      <3>1. lo(i) < lo(j) /\ lo(j) \in S
        BY <1>5, <1>6, <2>1
      <3>2. hi(i) < lo(j)
        BY <1>8, <3>1
      <3> QED BY <1>7, <3>1, <3>2
    <2>2. ASSUME NEW i \in 1..k PROVE q[i].lo < N + 1 /\ q[i].hi < N + 1
      <3>1. lo(i) \in 1..N /\ hi(i) \in 1..N
        BY <1>8
      <3> QED BY <1>2, <1>7, <3>1
    <2> QED BY <1>7, <2>1, <2>2 DEF SortedTo
  <1>12. ASSUME titles # {}, NEW t \in titles PROVE q[1].lo <= t
    <2>1. PICK m \in titles : \A u \in titles : m <= u
      BY <1>4, <1>12
    <2>2. m \in S
      BY <1>3, <2>1
    <2>3. P!Rank(m, S) = 0 /\ P!Rank(m, S) \in 0..(k - 1)
      <3>1. \A u \in S : m <= u
        BY <1>1, <2>1
      <3> HIDE DEF S
      <3> QED BY <1>1, <2>2, <3>1, RankedIs DEF k
    <2>4. 1 \in 1..k
      BY <1>1, <2>3
    <2>5. lo(1) = m
      <3>1. P!Ranked(0, S) = m
        <4> HIDE DEF S
        <4> QED BY <1>1, <2>2, <2>3, RankedIs
      <3> QED BY <3>1 DEF lo
    <2> QED BY <1>7, <2>1, <2>4, <2>5
  <1>13. ASSUME NEW i \in DOMAIN q, NEW t \in titles, Reaches(q, i, t) PROVE t <= q[i].hi
    <2>1. i \in 1..k /\ lo(i) <= t /\ \A j \in 1..k : i < j => t < lo(j)
      BY <1>7, <1>13 DEF Reaches
    <2>2. ASSUME NEW v \in S, lo(i) < v PROVE t < v
      <3> DEFINE j == P!Rank(v, S) + 1
      <3>1. P!Rank(v, S) \in 0..(k - 1) /\ P!Ranked(P!Rank(v, S), S) = v
        <4> HIDE DEF S
        <4> QED BY <1>1, RankedIs DEF k
      <3>2. j \in 1..k /\ j - 1 = P!Rank(v, S)
        BY <1>1, <3>1
      <3>3. lo(j) = v
        BY <3>1, <3>2 DEF lo
      <3>4. \A c \in 1..k : lo(c) \in Int
        BY <1>2, <1>8
      <3>5. i < j
        <4>1. SUFFICES ASSUME ~(i < j) PROVE FALSE
          OBVIOUS
        <4>2. j = i \/ j < i
          BY <2>1, <3>2, <4>1
        <4>3. lo(j) = lo(i) \/ lo(j) < lo(i)
          BY <1>6, <2>1, <3>2, <4>2
        <4> QED BY <2>1, <2>2, <3>2, <3>3, <3>4, <4>3
      <3> QED BY <2>1, <3>2, <3>3, <3>5
    <2>3. t \in Holds(titles, lo(i))
      BY <2>1, <2>2 DEF Holds
    <2>4. t <= hi(i)
      BY <1>5, <2>1, <2>3
    <2> QED BY <1>7, <2>1, <2>4
  <1> QED BY <1>5, <1>7, <1>8, <1>9, <1>10, <1>11, <1>12, <1>13

-----------------------------------------------------------------------------
\* Where a title is.

LEMMA EarliestIs ==
    ASSUME P!PartitionsAssumption, NEW n \in Nat, NEW q \in Seq(Parts(n)),
           NEW at \in SUBSET (1..Len(q)), at # {}
    PROVE  /\ P!Earliest(q, at) \in at
           /\ \A j \in at : ~P!Precedes(q[j], q[P!Earliest(q, at)])
           /\ P!Latest(q, at) \in at
           /\ \A j \in at : ~P!Precedes(q[P!Latest(q, at)], q[j])
  <1>1. \A i \in at : q[i].lo \in 1..N /\ q[i].hi \in 1..N
    BY PartsShape
  <1>0. N \in Nat
    BY Intervals
  <1>2. /\ \A i \in at : q[i].lo \in Int /\ q[i].hi \in Int
        /\ \A i \in at : q[i].lo \in Nat /\ q[i].hi \in Nat
        /\ \A i \in at : q[i].lo \in 0..N /\ q[i].hi \in 0..N
    BY <1>0, <1>1
  <1>3. \E i \in at : \A j \in at : ~P!Precedes(q[j], q[i])
    <2> DEFINE L == {q[i].lo : i \in at}
    <2>1. L \in SUBSET Nat /\ L # {}
      <3>1. \A x \in L : x \in Nat
        BY <1>2
      <3>2. PICK e \in at : TRUE
        OBVIOUS
      <3>3. q[e].lo \in L
        OBVIOUS
      <3> HIDE DEF L
      <3> QED BY <3>1, <3>3
    <2>2. PICK l \in L : \A m \in L : l <= m
      <3> HIDE DEF L
      <3> QED BY <2>1, LeastOf
    <2> DEFINE H == {q[i].hi : i \in {j \in at : q[j].lo = l}}
    <2>3. H \in SUBSET Nat /\ H # {}
      <3>1. \A x \in H : x \in Nat
        BY <1>2
      <3>2. PICK e \in at : q[e].lo = l
        BY <2>2
      <3>3. q[e].hi \in H
        BY <3>2
      <3> HIDE DEF H
      <3> QED BY <3>1, <3>3
    <2>4. PICK h \in H : \A m \in H : h <= m
      <3> HIDE DEF H
      <3> QED BY <2>3, LeastOf
    <2>5. PICK i \in at : q[i].lo = l /\ q[i].hi = h
      BY <2>4
    <2>7. /\ \A j \in at : q[i].lo <= q[j].lo
          /\ \A j \in at : q[j].lo = q[i].lo => q[i].hi <= q[j].hi
      <3>1. \A j \in at : q[j].lo \in L
        OBVIOUS
      <3>2. \A j \in at : q[j].lo = l => q[j].hi \in H
        OBVIOUS
      <3> HIDE DEF L, H
      <3> QED BY <2>2, <2>4, <2>5, <3>1, <3>2
    <2> HIDE DEF L, H
    <2>6. ASSUME NEW j \in at PROVE ~(q[j].lo < q[i].lo \/ (q[j].lo = q[i].lo /\ q[j].hi < q[i].hi))
      BY <1>2, <2>7
    <2> QED BY <2>6 DEF P!Precedes
  <1>4. \E i \in at : \A j \in at : ~P!Precedes(q[i], q[j])
    <2> DEFINE L == {q[i].lo : i \in at}
    <2>1. L \in SUBSET (0..N) /\ L # {}
      <3>1. \A x \in L : x \in (0..N)
        BY <1>2
      <3>2. PICK e \in at : TRUE
        OBVIOUS
      <3>3. q[e].lo \in L
        OBVIOUS
      <3> HIDE DEF L
      <3> QED BY <3>1, <3>3
    <2>2. PICK l \in L : \A m \in L : m <= l
      <3> HIDE DEF L
      <3> QED BY <1>0, <2>1, GreatestOf
    <2> DEFINE H == {q[i].hi : i \in {j \in at : q[j].lo = l}}
    <2>3. H \in SUBSET (0..N) /\ H # {}
      <3>1. \A x \in H : x \in (0..N)
        BY <1>2
      <3>2. PICK e \in at : q[e].lo = l
        BY <2>2
      <3>3. q[e].hi \in H
        BY <3>2
      <3> HIDE DEF H
      <3> QED BY <3>1, <3>3
    <2>4. PICK h \in H : \A m \in H : m <= h
      <3> HIDE DEF H
      <3> QED BY <1>0, <2>3, GreatestOf
    <2>5. PICK i \in at : q[i].lo = l /\ q[i].hi = h
      BY <2>4
    <2>7. /\ \A j \in at : q[j].lo <= q[i].lo
          /\ \A j \in at : q[j].lo = q[i].lo => q[j].hi <= q[i].hi
      <3>1. \A j \in at : q[j].lo \in L
        OBVIOUS
      <3>2. \A j \in at : q[j].lo = l => q[j].hi \in H
        OBVIOUS
      <3> HIDE DEF L, H
      <3> QED BY <2>2, <2>4, <2>5, <3>1, <3>2
    <2> HIDE DEF L, H
    <2>6. ASSUME NEW j \in at PROVE ~(q[i].lo < q[j].lo \/ (q[i].lo = q[j].lo /\ q[i].hi < q[j].hi))
      BY <1>2, <2>7
    <2> QED BY <2>6 DEF P!Precedes
  <1> QED BY <1>3, <1>4 DEF P!Earliest, P!Latest

LEMMA LocatedIn ==
    ASSUME P!PartitionsAssumption, NEW n \in Nat, NEW q \in Seq(Parts(n)), q # <<>>, NEW t
    PROVE  P!LocatedAt(q, t) \in DOMAIN q
  <1> DEFINE begun == {i \in DOMAIN q : q[i].lo <= t}
  <1>1. DOMAIN q = 1..Len(q) /\ 1 \in DOMAIN q
    BY PartsShape
  <1>2. begun \in SUBSET (1..Len(q)) /\ DOMAIN q \in SUBSET (1..Len(q)) /\ DOMAIN q # {}
    BY <1>1
  <1>3. P!LocatedAt(q, t) = IF begun = {} THEN P!Earliest(q, DOMAIN q) ELSE P!Latest(q, begun)
    BY DEF P!LocatedAt
  <1>4. begun \in SUBSET DOMAIN q
    OBVIOUS
  <1> HIDE DEF begun
  <1>5. P!Earliest(q, DOMAIN q) \in DOMAIN q
    BY <1>2, EarliestIs
  <1>6. begun # {} => P!Latest(q, begun) \in begun
    BY <1>2, EarliestIs
  <1> QED BY <1>3, <1>4, <1>5, <1>6

\* In a list in order the locator goes by the beginnings.
LEMMA LocatedSorted ==
    ASSUME P!PartitionsAssumption, NEW n \in Nat, NEW q \in Seq(Parts(n)), NEW c, SortedTo(q, c),
           NEW t \in 1..N
    PROVE  /\ \A i \in DOMAIN q : Reaches(q, i, t) => P!LocatedAt(q, t) = i
           /\ q # <<>> /\ q[1].lo <= t => Reaches(q, P!LocatedAt(q, t), t)
           /\ q # <<>> /\ ~(q[1].lo <= t) => P!LocatedAt(q, t) = 1
  <1> DEFINE begun == {i \in DOMAIN q : q[i].lo <= t}
             r == P!LocatedAt(q, t)
  <1>1. DOMAIN q = 1..Len(q) /\ Len(q) \in Nat /\ (q # <<>> => 1 \in DOMAIN q)
    BY PartsShape
  <1>2. \A i \in DOMAIN q : q[i].lo \in Int
    BY <1>1, PartsShape
  <1>3. \A i, j \in DOMAIN q : i < j => q[i].lo < q[j].lo
    BY DEF SortedTo
  <1>4. q # <<>> => r = IF begun = {} THEN P!Earliest(q, DOMAIN q) ELSE P!Latest(q, begun)
    BY DEF P!LocatedAt
  <1>5. begun \in SUBSET (1..Len(q))
    BY <1>1
  <1>6. ASSUME q # <<>>, begun # {} PROVE r \in begun /\ \A j \in begun : ~(q[r].lo < q[j].lo)
    <2>1. P!Latest(q, begun) \in begun /\ \A j \in begun : ~P!Precedes(q[P!Latest(q, begun)], q[j])
      <3> HIDE DEF begun
      <3> QED BY <1>5, <1>6, EarliestIs
    <2>2. r = P!Latest(q, begun)
      BY <1>4, <1>6
    <2> QED BY <2>1, <2>2 DEF P!Precedes
  <1>7. ASSUME NEW i \in DOMAIN q, Reaches(q, i, t) PROVE r = i
    <2>1. i \in begun /\ \A j \in DOMAIN q : i < j => t < q[j].lo
      BY <1>7 DEF Reaches
    <2>2. q # <<>>
      BY <1>1
    <2>3. r \in DOMAIN q /\ q[r].lo <= t /\ ~(q[r].lo < q[i].lo)
      BY <1>6, <2>1, <2>2
    <2>4. ~(i < r)
      BY <1>2, <2>1, <2>3
    <2>5. ~(r < i)
      BY <1>3, <2>3
    <2> HIDE DEF r
    <2> QED BY <1>1, <2>3, <2>4, <2>5
  <1>8. ASSUME q # <<>>, q[1].lo <= t PROVE Reaches(q, r, t)
    <2>1. 1 \in begun
      BY <1>1, <1>8
    <2>2. r \in begun /\ \A j \in begun : ~(q[r].lo < q[j].lo)
      BY <1>6, <1>8, <2>1
    <2>3. ASSUME NEW j \in DOMAIN q, r < j PROVE t < q[j].lo
      <3>1. q[r].lo < q[j].lo
        BY <1>3, <2>2, <2>3
      <3>2. j \notin begun
        BY <2>2, <3>1
      <3> QED BY <1>2, <3>2
    <2> QED BY <2>2, <2>3 DEF Reaches
  <1>9. ASSUME q # <<>>, ~(q[1].lo <= t) PROVE r = 1
    <2>1. \A i \in DOMAIN q : ~(q[i].lo <= t)
      <3>1. \A i \in DOMAIN q : i = 1 \/ 1 < i
        BY <1>1
      <3>2. \A i \in DOMAIN q : 1 < i => q[1].lo < q[i].lo
        BY <1>1, <1>3, <1>9
      <3> QED BY <1>1, <1>2, <1>9, <3>1, <3>2
    <2>2. r = P!Earliest(q, DOMAIN q)
      BY <1>4, <1>9, <2>1
    <2>3. DOMAIN q \in SUBSET (1..Len(q)) /\ DOMAIN q # {}
      BY <1>1, <1>9
    <2>4. r \in DOMAIN q /\ \A j \in DOMAIN q : ~P!Precedes(q[j], q[r])
      BY <2>2, <2>3, EarliestIs
    <2>5. ~(1 < r)
      BY <1>1, <1>3, <1>9, <2>4 DEF P!Precedes
    <2> HIDE DEF r
    <2> QED BY <1>1, <2>4, <2>5
  <1> QED BY <1>7, <1>8, <1>9

LEMMA MembersAre ==
    ASSUME P!PartitionsAssumption, NEW q, NEW i, NEW titles \in SUBSET (1..N)
    PROVE  /\ P!Members(P!Located(q), i, titles) = {t \in titles : P!LocatedAt(q, t) = i}
           /\ \A t \in titles : P!Located(q)[t] = P!LocatedAt(q, t)
  BY Intervals DEF P!Members, P!Located

LEMMA LivingIn ==
    ASSUME P!PartitionsAssumption, NEW d
    PROVE  /\ P!Living(d) \in SUBSET (1..N)
           /\ \A t \in 1..N : t \in P!Living(d) <=> d[t] \in {"new", "seen"}
  BY Intervals DEF P!Living

-----------------------------------------------------------------------------
\* A partition that is split.

Leads(q, S) == q # <<>> => \A t \in S : q[1].lo <= t

LEMMA ChildrenShape ==
    ASSUME P!PartitionsAssumption, NEW n \in Nat, NEW p \in Parts(n), NEW titles \in SUBSET (1..N)
    PROVE  LET q == P!Children(p, titles)
           IN  /\ q \in Seq(Parts(n)) /\ q # <<>>
               /\ q[1].lo = p.lo
               /\ \A i \in DOMAIN q : q[i].visits = p.visits
               /\ \A b \in 1..(N + 1) :
                     p.lo < b /\ p.hi < b /\ (\A t \in titles : p.lo <= t /\ t < b)
                        => SortedTo(q, b)
  <1> DEFINE q == P!Children(p, titles)
             cut == P!Chunks(titles)
             k == Len(cut)
  <1>1. N \in Nat \ {0} /\ TARGET \in Nat \ {0} /\ Cardinality(titles) \in Nat
    BY Intervals DEF P!PartitionsAssumption
  <1>2. p.lo \in 1..N /\ p.hi \in 1..N /\ p.count \in Nat /\ p.visits \in [Lookers -> 0..n]
    BY DEF Parts
  <1>3. CASE Cardinality(titles) <= TARGET
    <2>1. q = <<p>>
      BY <1>3, PartCounts DEF P!Children
    <2>2. <<p>> \in Seq(Parts(n)) /\ <<p>> # <<>> /\ DOMAIN <<p>> = 1..1 /\ <<p>>[1] = p
      OBVIOUS
    <2>3. \A i \in DOMAIN <<p>> : i = 1
      BY <2>2
    <2> HIDE DEF q
    <2>4. /\ \A i \in DOMAIN q : q[i] = p
          /\ \A i, j \in DOMAIN q : ~(i < j)
      BY <2>1, <2>2, <2>3
    <2>5. \A b \in 1..(N + 1) : p.lo < b /\ p.hi < b => SortedTo(q, b)
      BY <2>4 DEF SortedTo
    <2>6. q \in Seq(Parts(n)) /\ q # <<>> /\ q[1] = p
      BY <2>1, <2>2
    <2> QED BY <2>4, <2>5, <2>6 DEF q
  <1>4. CASE ~(Cardinality(titles) <= TARGET)
    <2>1. q = [c \in DOMAIN cut |->
                 [cut[c] EXCEPT !.lo = IF c = 1 THEN p.lo ELSE @,
                                !.hi = IF c = Len(cut) THEN p.hi ELSE @,
                                !.visits = p.visits]]
      BY <1>4, PartCounts DEF P!Children
    <2>2. titles # {}
      <3>1. Cardinality({}) = 0
        BY FS_EmptySet
      <3> QED BY <1>1, <1>4, <3>1
    <2>3. /\ cut \in Seq(Parts(n)) /\ cut # <<>>
          /\ SortedTo(cut, N + 1)
          /\ \A i \in DOMAIN cut : cut[i].lo \in titles /\ cut[i].hi \in titles
      BY <2>2, ChunksShape
    <2> HIDE DEF cut, q
    <2>4. k \in Nat /\ k >= 1 /\ DOMAIN cut = 1..k
      BY <2>3
    <2>5. \A c \in 1..k : cut[c] \in Parts(n)
      BY <2>3, <2>4
    <2>6. ASSUME NEW c \in 1..k
          PROVE  /\ q[c] \in Parts(n)
                 /\ q[c].lo = IF c = 1 THEN p.lo ELSE cut[c].lo
                 /\ q[c].hi = IF c = k THEN p.hi ELSE cut[c].hi
                 /\ q[c].visits = p.visits
      <3>1. q[c] = [cut[c] EXCEPT !.lo = IF c = 1 THEN p.lo ELSE @,
                                  !.hi = IF c = Len(cut) THEN p.hi ELSE @,
                                  !.visits = p.visits]
        BY <2>1, <2>4
      <3>2. cut[c] \in Parts(n)
        BY <2>5
      <3>4. cut[c].lo \in 1..N /\ cut[c].hi \in 1..N
        BY <3>2 DEF Parts
      <3> DEFINE l == IF c = 1 THEN p.lo ELSE cut[c].lo
                 h == IF c = k THEN p.hi ELSE cut[c].hi
      <3>5. l \in 1..N /\ h \in 1..N
        BY <1>2, <3>4
      <3>6. q[c] = [cut[c] EXCEPT !.lo = l, !.hi = h, !.visits = p.visits]
        BY <3>1
      <3> HIDE DEF l, h
      <3>7. /\ q[c] = [lo |-> l, hi |-> h, count |-> cut[c].count, visits |-> p.visits]
            /\ cut[c].count \in Nat
        BY <3>2, <3>6 DEF Parts
      <3>8. q[c] \in Parts(n)
        BY <1>2, <3>5, <3>7 DEF Parts
      <3> QED BY <3>7, <3>8 DEF l, h
    <2>7. q \in Seq(Parts(n)) /\ Len(q) = k /\ DOMAIN q = 1..k /\ q # <<>>
      <3>1. q = [c \in 1..k |-> q[c]]
        BY <2>1, <2>4
      <3> HIDE DEF k
      <3> QED BY <2>4, <2>6, <3>1
    <2>8. 1 \in 1..k
      BY <2>4
    <2>9. ASSUME NEW b \in 1..(N + 1), p.lo < b, p.hi < b,
                 \A t \in titles : p.lo <= t /\ t < b
          PROVE  SortedTo(q, b)
      <3> HIDE DEF k
      <3>1. \A i, j \in 1..k : i < j => cut[i].lo < cut[j].lo /\ cut[i].hi < cut[j].lo
        BY <2>3, <2>4 DEF SortedTo
      <3>2. \A i \in 1..k : /\ p.lo <= cut[i].lo /\ cut[i].lo < b
                            /\ p.lo <= cut[i].hi /\ cut[i].hi < b
        BY <2>3, <2>4, <2>9
      <3>3. \A i \in 1..k : cut[i].lo \in 1..N /\ cut[i].hi \in 1..N
        BY <2>5 DEF Parts
      <3>4. \A i, j \in 1..k : i < j => j # 1 /\ i # k
        BY <2>4
      <3>5. /\ \A i \in 1..k : cut[i].lo \in Int /\ cut[i].hi \in Int
            /\ p.lo \in Int /\ p.hi \in Int /\ b \in Int
        BY <1>1, <1>2, <3>3
      <3>6. ASSUME NEW i \in 1..k, NEW j \in 1..k, i < j
            PROVE  q[i].lo < q[j].lo /\ q[i].hi < q[j].lo
        <4>1. q[j].lo = cut[j].lo /\ q[i].hi = cut[i].hi
          BY <2>6, <3>4, <3>6
        <4>2. q[i].lo = p.lo \/ q[i].lo = cut[i].lo
          BY <2>6
        <4>3. cut[i].lo < cut[j].lo /\ cut[i].hi < cut[j].lo /\ p.lo <= cut[i].lo
          BY <3>1, <3>2, <3>6
        <4> QED BY <3>5, <4>1, <4>2, <4>3
      <3>7. \A i \in 1..k : q[i].lo < b /\ q[i].hi < b
        BY <2>6, <2>9, <3>2
      <3> QED BY <2>7, <3>6, <3>7 DEF SortedTo
    <2> QED BY <2>6, <2>7, <2>8, <2>9 DEF q
  <1> QED BY <1>3, <1>4

-----------------------------------------------------------------------------
\* The loops that split and merge.

Iterates(f, n, X, b, st) ==
    f \in [0..n -> X] /\ f[0] = b /\ \A i \in 1..n : f[i] = st[i][f[i - 1]]

LEMMA Iterated ==
    ASSUME NEW n \in Nat, NEW X, NEW b \in X, NEW st \in [1..n -> [X -> X]]
    PROVE  \E f : Iterates(f, n, X, b, st)
  <1> DEFINE Goes(m, f) == f[0] = b /\ \A i \in 1..m : f[i] = st[i][f[i - 1]]
             Q == {m \in Nat : \E f \in [0..m -> X] : Goes(m, f)}
  <1>1. 0 \in Q
    <2> DEFINE f == [i \in 0..0 |-> b]
    <2>1. f \in [0..0 -> X] /\ Goes(0, f)
      OBVIOUS
    <2> QED BY <2>1
  <1>2. ASSUME NEW m \in 1..n, m - 1 \in Q PROVE m \in Q
    <2>1. PICK f \in [0..(m - 1) -> X] : Goes(m - 1, f)
      BY <1>2
    <2> DEFINE e == st[m][f[m - 1]]
               g == [i \in 0..m |-> IF i = m THEN e ELSE f[i]]
    <2>2. m \in Nat /\ m - 1 \in 0..(m - 1) /\ f[m - 1] \in X
      BY <2>1
    <2>3. e \in X
      BY <2>2
    <2> HIDE DEF e
    <2>4. g \in [0..m -> X]
      <3>1. \A i \in 0..m : i = m \/ i \in 0..(m - 1)
        BY <2>2
      <3> QED BY <2>3, <3>1
    <2>5. g[m] = e /\ \A i \in 0..(m - 1) : g[i] = f[i]
      BY <2>2
    <2> HIDE DEF g
    <2>6. ASSUME NEW i \in 1..m PROVE g[i] = st[i][g[i - 1]]
      <3>1. g[i - 1] = f[i - 1]
        BY <2>5
      <3>2. CASE i = m
        BY <2>5, <3>1, <3>2 DEF e
      <3>3. CASE i # m
        <4>1. i \in 1..(m - 1) /\ i \in 0..(m - 1)
          BY <3>3
        <4>2. f[i] = st[i][f[i - 1]]
          BY <2>1, <4>1
        <4> QED BY <2>5, <3>1, <4>1, <4>2
      <3> QED BY <3>2, <3>3
    <2>7. g[0] = b
      <3>1. 0 \in 0..(m - 1)
        BY <2>2
      <3> QED BY <2>1, <2>5, <3>1
    <2>8. Goes(m, g)
      BY <2>6, <2>7
    <2> HIDE DEF Goes
    <2> QED BY <2>2, <2>4, <2>8
  <1>3. n \in Q
    <2>1. Q \in SUBSET Nat
      OBVIOUS
    <2>2. \A m \in 1..n : m - 1 \in Q => m \in Q
      BY <1>2
    <2> HIDE DEF Q
    <2>3. \A m \in 0..n : m \in Q
      BY <1>1, <2>1, <2>2, UpTo
    <2> QED BY <2>3
  <1> QED BY <1>3 DEF Iterates

\* What takes the place of the i-th partition.
Kids(parts, titles, i) ==
    IF parts[i].count > 2 * TARGET
    THEN P!Children(parts[i], P!Members(P!Located(parts), i, titles)) ELSE <<parts[i]>>

Replaced(q, n, parts, titles, i) ==
    /\ q \in Seq(Parts(n)) /\ q # <<>>
    /\ q[1].lo = parts[i].lo
    /\ \A k \in DOMAIN q : q[k].visits = parts[i].visits
    /\ \A b \in 1..(N + 1) :
          /\ parts[i].lo < b /\ parts[i].hi < b
          /\ \A t \in titles : P!LocatedAt(parts, t) = i => parts[i].lo <= t /\ t < b
          => SortedTo(q, b)

LEMMA KidsShape ==
    ASSUME P!PartitionsAssumption, NEW n \in Nat, NEW parts \in Seq(Parts(n)),
           NEW titles \in SUBSET (1..N), NEW i \in 1..Len(parts)
    PROVE  Replaced(Kids(parts, titles, i), n, parts, titles, i)
  <1> DEFINE q == Kids(parts, titles, i)
             here == P!Members(P!Located(parts), i, titles)
  <1>1. parts[i] \in Parts(n)
    BY PartsShape
  <1>2. here = {t \in titles : P!LocatedAt(parts, t) = i}
    BY MembersAre
  <1>3. here \in SUBSET (1..N)
    BY <1>2
  <1>4. CASE parts[i].count > 2 * TARGET
    <2>1. q = P!Children(parts[i], here)
      BY <1>4 DEF Kids
    <2> HIDE DEF q, here
    <2>2. /\ q \in Seq(Parts(n)) /\ q # <<>>
          /\ q[1].lo = parts[i].lo
          /\ \A k \in DOMAIN q : q[k].visits = parts[i].visits
          /\ \A b \in 1..(N + 1) :
                parts[i].lo < b /\ parts[i].hi < b /\ (\A t \in here : parts[i].lo <= t /\ t < b)
                   => SortedTo(q, b)
      BY <1>1, <1>3, <2>1, ChildrenShape
    <2>3. ASSUME NEW b \in 1..(N + 1), parts[i].lo < b, parts[i].hi < b,
                 \A t \in titles : P!LocatedAt(parts, t) = i => parts[i].lo <= t /\ t < b
          PROVE  SortedTo(q, b)
      <3>1. \A t \in here : parts[i].lo <= t /\ t < b
        BY <1>2, <2>3
      <3> QED BY <2>2, <2>3, <3>1
    <2> QED BY <2>2, <2>3 DEF Replaced, q
  <1>5. CASE ~(parts[i].count > 2 * TARGET)
    <2>1. q = <<parts[i]>>
      BY <1>5 DEF Kids
    <2>2. <<parts[i]>> \in Seq(Parts(n)) /\ <<parts[i]>> # <<>>
          /\ DOMAIN <<parts[i]>> = 1..1 /\ <<parts[i]>>[1] = parts[i]
      BY <1>1
    <2>3. \A k \in DOMAIN <<parts[i]>> : k = 1
      BY <2>2
    <2> HIDE DEF q
    <2>4. /\ \A k \in DOMAIN q : q[k] = parts[i]
          /\ \A k, l \in DOMAIN q : ~(k < l)
      BY <2>1, <2>2, <2>3
    <2>5. \A b \in 1..(N + 1) : parts[i].lo < b /\ parts[i].hi < b => SortedTo(q, b)
      BY <2>4 DEF SortedTo
    <2>6. q \in Seq(Parts(n)) /\ q # <<>> /\ q[1] = parts[i]
      BY <2>1, <2>2
    <2> QED BY <2>4, <2>5, <2>6 DEF Replaced, q
  <1> QED BY <1>4, <1>5

LEMMA SplitLoop ==
    ASSUME P!PartitionsAssumption, NEW n \in Nat, NEW parts \in Seq(Parts(n)),
           NEW titles \in SUBSET (1..N)
    PROVE  \E f \in [0..Len(parts) -> Seq(Parts(n))] :
              /\ f[0] = <<>>
              /\ \A i \in 1..Len(parts) : f[i] = f[i - 1] \o Kids(parts, titles, i)
              /\ P!SplitOutgrown(parts, titles) = f[Len(parts)]
  <1> DEFINE X == Seq(Parts(n))
             m == Len(parts)
             st == [i \in 1..m |-> [x \in X |-> x \o Kids(parts, titles, i)]]
             f == CHOOSE f : f = [i \in 0..m |->
                     IF i = 0 THEN <<>> ELSE f[i - 1] \o Kids(parts, titles, i)]
  <1>1. m \in Nat /\ <<>> \in X
    OBVIOUS
  <1>2. st \in [1..m -> [X -> X]]
    <2>1. \A i \in 1..m : Kids(parts, titles, i) \in X
      BY KidsShape DEF Replaced
    <2>2. \A i \in 1..m, x \in X : x \o Kids(parts, titles, i) \in X
      BY <2>1
    <2> HIDE DEF X
    <2> QED BY <2>2
  <1>3. \E g : Iterates(g, m, X, <<>>, st)
    <2> HIDE DEF X, m, st, f
    <2> QED BY <1>1, <1>2, Iterated
  <1> PICK g : Iterates(g, m, X, <<>>, st)
    BY <1>3
  <1>11. g \in [0..m -> X] /\ g[0] = <<>> /\ \A i \in 1..m : g[i] = st[i][g[i - 1]]
    BY DEF Iterates
  <1>4. ASSUME NEW i \in 1..m
        PROVE  g[i] = g[i - 1] \o Kids(parts, titles, i)
    <2>1. i - 1 \in 0..m
      OBVIOUS
    <2>2. g[i] = st[i][g[i - 1]] /\ g[i - 1] \in X
      <3> HIDE DEF st, X
      <3> QED BY <1>11, <2>1
    <2> HIDE DEF X
    <2> QED BY <2>2
  <1>5. g[0] = <<>>
    BY <1>11
  <1>6. g = [i \in 0..m |-> IF i = 0 THEN <<>> ELSE g[i - 1] \o Kids(parts, titles, i)]
    <2>1. \A i \in 0..m : g[i] = IF i = 0 THEN <<>> ELSE g[i - 1] \o Kids(parts, titles, i)
      <3>1. \A i \in 0..m : i = 0 \/ i \in 1..m
        BY <1>1
      <3> QED BY <1>4, <1>5, <3>1
    <2>2. g = [i \in 0..m |-> g[i]]
      <3> HIDE DEF X
      <3> QED BY <1>11
    <2> QED BY <2>1, <2>2
  <1>7. f = [i \in 0..m |-> IF i = 0 THEN <<>> ELSE f[i - 1] \o Kids(parts, titles, i)]
    BY <1>6
  <1>8. P!SplitOutgrown(parts, titles) = f[m]
    BY DEF P!SplitOutgrown, Kids
  <1> HIDE DEF f
  <1>9. f[0] = <<>> /\ \A i \in 1..m : f[i] = f[i - 1] \o Kids(parts, titles, i)
    <2>1. \A i \in 0..m : f[i] = IF i = 0 THEN <<>> ELSE f[i - 1] \o Kids(parts, titles, i)
      BY <1>7
    <2>2. 0 \in 0..m /\ \A i \in 1..m : i \in 0..m /\ i # 0
      BY <1>1
    <2> QED BY <2>1, <2>2
  <1>10. f \in [0..m -> X]
    <2> DEFINE Q == {i \in Nat : i \in 0..m => f[i] \in X}
    <2>1. 0 \in Q
      BY <1>1, <1>9
    <2>2. ASSUME NEW i \in 1..m, i - 1 \in Q PROVE i \in Q
      <3>1. f[i - 1] \in X /\ Kids(parts, titles, i) \in X
        <4>1. i - 1 \in 0..m
          BY <1>1
        <4> QED BY <2>2, <4>1, KidsShape DEF Replaced
      <3>2. f[i - 1] \o Kids(parts, titles, i) \in X
        BY <3>1
      <3>3. i \in Nat
        BY <1>1
      <3> QED BY <1>9, <3>2, <3>3
    <2>3. Q \in SUBSET Nat
      OBVIOUS
    <2>4. \A i \in 0..m : i \in Q
      <3> HIDE DEF Q
      <3> QED BY <1>1, <2>1, <2>2, <2>3, UpTo
    <2>5. \A i \in 0..m : f[i] \in X
      BY <2>4
    <2> HIDE DEF X
    <2> QED BY <1>7, <2>5
  <1> QED BY <1>8, <1>9, <1>10

\* Where the list is cut: the beginning of the i-th partition, or the end of all titles.
Begin(parts, i) == IF i <= Len(parts) THEN parts[i].lo ELSE N + 1

LEMMA BeginIs ==
    ASSUME P!PartitionsAssumption, NEW n \in Nat, NEW parts \in Seq(Parts(n)),
           SortedTo(parts, N + 1), NEW i \in 1..Len(parts)
    PROVE  /\ Begin(parts, i) = parts[i].lo /\ Begin(parts, i + 1) \in 1..(N + 1)
           /\ parts[i].lo < Begin(parts, i + 1) /\ parts[i].hi < Begin(parts, i + 1)
           /\ \A t \in 1..N : parts[i].lo <= t /\ t < Begin(parts, i + 1) => Reaches(parts, i, t)
           /\ \A t \in 1..N : Reaches(parts, i, t) => t < Begin(parts, i + 1)
  <1>1. /\ Len(parts) \in Nat /\ DOMAIN parts = 1..Len(parts)
        /\ \A k \in 1..Len(parts) : parts[k].lo \in 1..N /\ parts[k].hi \in 1..N
    BY PartsShape
  <1>2. N \in Nat
    BY Intervals
  <1>3. /\ \A k, j \in 1..Len(parts) : k < j => parts[k].lo < parts[j].lo /\ parts[k].hi < parts[j].lo
        /\ \A k \in 1..Len(parts) : parts[k].lo < N + 1 /\ parts[k].hi < N + 1
    BY <1>1 DEF SortedTo
  <1>4. Begin(parts, i) = parts[i].lo
    BY <1>1 DEF Begin
  <1>5. CASE i = Len(parts)
    <2>1. Begin(parts, i + 1) = N + 1
      BY <1>1, <1>5 DEF Begin
    <2>2. \A j \in 1..Len(parts) : ~(i < j)
      BY <1>1, <1>5
    <2>3. \A t \in 1..N : t < N + 1
      BY <1>2
    <2>4. N + 1 \in 1..(N + 1)
      BY <1>2
    <2> QED BY <1>1, <1>3, <1>4, <2>1, <2>2, <2>3, <2>4 DEF Reaches
  <1>6. CASE i # Len(parts)
    <2>1. i + 1 \in 1..Len(parts) /\ i < i + 1
      BY <1>1, <1>6
    <2>2. Begin(parts, i + 1) = parts[i + 1].lo
      BY <2>1 DEF Begin
    <2>3. \A k \in 1..Len(parts) : parts[k].lo \in Int
      BY <1>1
    <2>4. \A j \in 1..Len(parts) : i < j => parts[i + 1].lo <= parts[j].lo
      <3>1. \A j \in 1..Len(parts) : i < j => j = i + 1 \/ i + 1 < j
        BY <1>1
      <3> QED BY <1>3, <2>1, <2>3, <3>1
    <2>5. parts[i + 1].lo \in 1..(N + 1)
      <3>1. parts[i + 1].lo \in 1..N
        BY <1>1, <2>1
      <3> QED BY <1>2, <3>1
    <2>6. ASSUME NEW t \in 1..N, parts[i].lo <= t, t < parts[i + 1].lo PROVE Reaches(parts, i, t)
      <3>1. \A j \in 1..Len(parts) : i < j => t < parts[j].lo
        BY <2>1, <2>3, <2>4, <2>6
      <3> QED BY <1>1, <2>6, <3>1 DEF Reaches
    <2>7. \A t \in 1..N : Reaches(parts, i, t) => t < parts[i + 1].lo
      BY <1>1, <2>1 DEF Reaches
    <2> QED BY <1>3, <1>4, <2>1, <2>2, <2>5, <2>6, <2>7
  <1> QED BY <1>5, <1>6

\* What the loops keep, after the first i partitions.
DoneTo(parts, i, q) ==
    /\ SortedTo(q, Begin(parts, i + 1))
    /\ i >= 1 => q[1].lo = parts[1].lo
    /\ \A S \in SUBSET (1..N), w \in [Lookers -> [1..N -> Nat]] :
          EarnedTo(parts, N + 1, S, w) => EarnedTo(q, Begin(parts, i + 1), S, w)

LEMMA NothingDone ==
    ASSUME NEW parts PROVE DoneTo(parts, 0, <<>>)
  <1>1. DOMAIN <<>> = {}
    OBVIOUS
  <1> QED BY <1>1 DEF DoneTo, SortedTo, EarnedTo

\* One partition more: what takes its place begins where it does, and has its marks.
LEMMA OneMore ==
    ASSUME P!PartitionsAssumption, NEW n \in Nat, NEW parts \in Seq(Parts(n)),
           SortedTo(parts, N + 1), NEW i \in 1..Len(parts),
           NEW H \in Seq(Parts(n)), DoneTo(parts, i - 1, H), H = <<>> <=> i = 1,
           NEW B \in Seq(Parts(n)), B # <<>>, B[1].lo = parts[i].lo,
           \A k \in DOMAIN B : B[k].visits = parts[i].visits,
           SortedTo(B, Begin(parts, i + 1))
    PROVE  H \o B \in Seq(Parts(n)) /\ H \o B # <<>> /\ DoneTo(parts, i, H \o B)
  <1> DEFINE c == Begin(parts, i + 1)
             C == H \o B
  <1>1. /\ Begin(parts, i) = parts[i].lo /\ c \in 1..(N + 1)
        /\ \A t \in 1..N : parts[i].lo <= t /\ t < c => Reaches(parts, i, t)
    BY BeginIs
  <1>2. i - 1 + 1 = i /\ i \in Nat /\ i >= 1
    OBVIOUS
  <1>3. SortedTo(H, B[1].lo)
    BY <1>1, <1>2 DEF DoneTo
  <1>4. /\ C \in Seq(Parts(n)) /\ C # <<>>
        /\ C[1] = IF H = <<>> THEN B[1] ELSE H[1]
        /\ SortedTo(C, c)
        /\ \A S \in SUBSET (1..N), w \in [Lookers -> [1..N -> Nat]] :
              EarnedTo(H, B[1].lo, S, w) /\ EarnedTo(B, c, S, w) => EarnedTo(C, c, S, w)
    <2> HIDE DEF c, C
    <2> QED BY <1>1, <1>3, Follow DEF c, C
  <1>5. C[1].lo = parts[1].lo
    <2>1. CASE i = 1
      BY <1>4, <2>1
    <2>2. CASE i # 1
      <3>1. i - 1 >= 1
        BY <1>2, <2>2
      <3>2. H[1].lo = parts[1].lo
        BY <3>1 DEF DoneTo
      <3> HIDE DEF C
      <3> QED BY <1>4, <2>2, <3>2
    <2> QED BY <2>1, <2>2
  <1>6. ASSUME NEW S \in SUBSET (1..N), NEW w \in [Lookers -> [1..N -> Nat]],
               EarnedTo(parts, N + 1, S, w)
        PROVE  EarnedTo(C, c, S, w)
    <2>1. EarnedTo(H, B[1].lo, S, w)
      BY <1>1, <1>2, <1>6 DEF DoneTo
    <2>2. ASSUME NEW k \in DOMAIN B, NEW s \in Lookers, B[k].visits[s] # 0,
                 NEW t \in S, t < c, Reaches(B, k, t)
          PROVE  B[k].visits[s] <= w[s][t]
      <3>1. B[k].visits = parts[i].visits
        OBVIOUS
      <3>2. Len(B) \in Nat /\ DOMAIN B = 1..Len(B) /\ \A l \in 1..Len(B) : B[l].lo \in 1..N
        BY PartsShape
      <3>3. B[1].lo <= B[k].lo
        <4>1. k = 1 \/ 1 < k
          BY <3>2
        <4>2. 1 \in DOMAIN B
          BY <3>2
        <4>3. 1 < k => B[1].lo < B[k].lo
          BY <4>2 DEF SortedTo
        <4>4. B[1].lo \in Int /\ B[k].lo \in Int
          <5>1. \A l \in 1..Len(B) : B[l].lo \in Int
            BY <3>2
          <5>2. 1 \in 1..Len(B) /\ k \in 1..Len(B)
            BY <3>2, <4>2
          <5> QED BY <5>1, <5>2
        <4> QED BY <4>1, <4>3, <4>4
      <3>4. B[k].lo <= t
        BY <2>2 DEF Reaches
      <3>5. parts[i].lo <= t
        <4>1. B[1].lo \in Int /\ B[k].lo \in Int /\ t \in Int
          BY <3>2
        <4> QED BY <3>3, <3>4, <4>1
      <3>6. Reaches(parts, i, t)
        BY <1>1, <2>2, <3>5
      <3>7. i \in DOMAIN parts /\ t < N + 1
        BY Intervals, PartsShape
      <3> HIDE DEF c
      <3> QED BY <1>6, <2>2, <3>1, <3>6, <3>7 DEF EarnedTo
    <2>3. EarnedTo(B, c, S, w)
      BY <2>2 DEF EarnedTo
    <2> HIDE DEF c, C
    <2> QED BY <1>4, <2>1, <2>3
  <1> QED BY <1>4, <1>5, <1>6 DEF DoneTo

LEMMA SplitShape ==
    ASSUME P!PartitionsAssumption, NEW n \in Nat, NEW parts \in Seq(Parts(n)),
           NEW titles \in SUBSET (1..N)
    PROVE  LET q == P!SplitOutgrown(parts, titles)
           IN  /\ q \in Seq(Parts(n))
               /\ SortedTo(parts, N + 1) /\ Leads(parts, titles) =>
                     DoneTo(parts, Len(parts), q) /\ (q = <<>> <=> parts = <<>>)
  <1> DEFINE q == P!SplitOutgrown(parts, titles)
             m == Len(parts)
  <1>1. PICK f \in [0..m -> Seq(Parts(n))] :
              /\ f[0] = <<>>
              /\ \A i \in 1..m : f[i] = f[i - 1] \o Kids(parts, titles, i)
              /\ q = f[m]
    BY SplitLoop
  <1>2. m \in Nat /\ (parts = <<>> <=> m = 0) /\ m \in 0..m
    BY PartsShape
  <1> HIDE DEF q, m
  <1>3. q \in Seq(Parts(n))
    BY <1>1, <1>2
  <1>4. ASSUME SortedTo(parts, N + 1), Leads(parts, titles)
        PROVE  DoneTo(parts, m, q) /\ (q = <<>> <=> parts = <<>>)
    <2> DEFINE Q == {i \in Nat : i \in 0..m => DoneTo(parts, i, f[i]) /\ (f[i] = <<>> <=> i = 0)}
    <2>1. 0 \in Q
      BY <1>1, NothingDone
    <2>2. ASSUME NEW i \in 1..m, i - 1 \in Q PROVE i \in Q
      <3> DEFINE H == f[i - 1]
                 B == Kids(parts, titles, i)
      <3>1. i - 1 \in 0..m /\ i \in Nat /\ i # 0 /\ (i - 1 = 0 <=> i = 1)
        BY <1>2
      <3>2. DoneTo(parts, i - 1, H) /\ (H = <<>> <=> i = 1) /\ H \in Seq(Parts(n))
        BY <1>1, <2>2, <3>1
      <3>3. i \in 1..Len(parts)
        BY DEF m
      <3>4. /\ B \in Seq(Parts(n)) /\ B # <<>> /\ B[1].lo = parts[i].lo
            /\ \A k \in DOMAIN B : B[k].visits = parts[i].visits
            /\ \A b \in 1..(N + 1) :
                  /\ parts[i].lo < b /\ parts[i].hi < b
                  /\ \A t \in titles :
                        P!LocatedAt(parts, t) = i => parts[i].lo <= t /\ t < b
                  => SortedTo(B, b)
        <4>1. Replaced(B, n, parts, titles, i)
          BY <3>3, KidsShape
        <4> HIDE DEF B, H, Q
        <4> QED BY <4>1 DEF Replaced
      <3>5. /\ Begin(parts, i + 1) \in 1..(N + 1)
            /\ parts[i].lo < Begin(parts, i + 1) /\ parts[i].hi < Begin(parts, i + 1)
            /\ \A t \in 1..N : Reaches(parts, i, t) => t < Begin(parts, i + 1)
        BY <1>4, <3>3, BeginIs
      <3>6. ASSUME NEW t \in titles, P!LocatedAt(parts, t) = i
            PROVE  parts[i].lo <= t /\ t < Begin(parts, i + 1)
        <4>1. parts # <<>> /\ t \in 1..N
          BY <3>3
        <4>2. parts[1].lo <= t
          BY <1>4, <4>1 DEF Leads
        <4>3. Reaches(parts, i, t)
          BY <1>4, <3>6, <4>1, <4>2, LocatedSorted
        <4> QED BY <3>5, <4>1, <4>3 DEF Reaches
      <3>7. SortedTo(B, Begin(parts, i + 1))
        <4> HIDE DEF B
        <4> QED BY <3>4, <3>5, <3>6
      <3>8. H \o B # <<>> /\ DoneTo(parts, i, H \o B)
        <4> HIDE DEF H, B
        <4> QED BY <1>4, <3>2, <3>3, <3>4, <3>7, OneMore
      <3> QED BY <1>1, <3>1, <3>8
    <2>3. Q \in SUBSET Nat
      OBVIOUS
    <2>4. \A i \in 0..m : i \in Q
      <3> HIDE DEF Q
      <3> QED BY <1>2, <2>1, <2>2, <2>3, UpTo
    <2> QED BY <1>1, <1>2, <2>4
  <1> QED BY <1>3, <1>4 DEF q, m

-----------------------------------------------------------------------------
\* Neighbours that are joined.

LEMMA JoinIs ==
    ASSUME NEW n \in Nat, NEW p \in Parts(n), NEW r \in Parts(n)
    PROVE  LET j == P!Join(p, r)
           IN  /\ j \in Parts(n) /\ j.lo = p.lo /\ j.hi = r.hi
               /\ \A s \in Lookers : /\ j.visits[s] <= p.visits[s] /\ j.visits[s] <= r.visits[s]
                                     /\ P!SameSweeps(p, r) /\ j.visits[s] # 0 =>
                                           p.visits[s] # 0 /\ r.visits[s] # 0
  <1> DEFINE v == [s \in Lookers |-> P!Older(p.visits[s], r.visits[s])]
             j == P!Join(p, r)
  <1>1. /\ p.lo \in 1..N /\ p.hi \in 1..N /\ p.count \in Nat
        /\ r.lo \in 1..N /\ r.hi \in 1..N /\ r.count \in Nat
        /\ p.visits \in [Lookers -> 0..n] /\ r.visits \in [Lookers -> 0..n]
    BY DEF Parts
  <1>2. \A s \in Lookers : p.visits[s] \in 0..n /\ r.visits[s] \in 0..n
    BY <1>1
  <1>3. \A a, b \in 0..n : /\ P!Older(a, b) \in 0..n
                           /\ P!Older(a, b) <= a /\ P!Older(a, b) <= b
                           /\ P!Older(a, b) \in {a, b}
    BY DEF P!Older
  <1>4. j = [lo |-> p.lo, hi |-> r.hi, count |-> p.count + r.count, visits |-> v]
    BY DEF P!Join, P!Partition
  <1>5. v \in [Lookers -> 0..n]
    BY <1>2, <1>3
  <1>6. \A s \in Lookers : v[s] = P!Older(p.visits[s], r.visits[s])
    BY Zenon
  <1>7. p.count + r.count \in Nat
    BY <1>1
  <1> HIDE DEF v, j
  <1>8. j \in Parts(n)
    BY <1>1, <1>4, <1>5, <1>7 DEF Parts
  <1>9. j.lo = p.lo /\ j.hi = r.hi /\ j.visits = v
    BY <1>4
  <1>10. ASSUME NEW s \in Lookers
         PROVE  /\ j.visits[s] <= p.visits[s] /\ j.visits[s] <= r.visits[s]
                /\ P!SameSweeps(p, r) /\ j.visits[s] # 0 => p.visits[s] # 0 /\ r.visits[s] # 0
    <2>1. /\ j.visits[s] <= p.visits[s] /\ j.visits[s] <= r.visits[s]
          /\ j.visits[s] \in {p.visits[s], r.visits[s]}
      BY <1>2, <1>3, <1>6, <1>9
    <2>2. P!SameSweeps(p, r) => (p.visits[s] = 0 <=> r.visits[s] = 0)
      BY DEF P!SameSweeps
    <2> QED BY <2>1, <2>2
  <1> QED BY <1>8, <1>9, <1>10 DEF j

LEMMA MergeTypes ==
    ASSUME NEW n \in Nat, NEW H \in Seq(Parts(n)), NEW p \in Parts(n)
    PROVE  P!MergedWith(H, p) \in Seq(Parts(n)) /\ P!MergedWith(H, p) # <<>>
  <1>1. Append(H, p) \in Seq(Parts(n)) /\ Append(H, p) # <<>>
    <2>1. Append(H, p) \in Seq(Parts(n)) /\ Len(Append(H, p)) = Len(H) + 1 /\ Len(H) \in Nat
      OBVIOUS
    <2> QED BY <2>1
  <1>2. ASSUME H # <<>>
        PROVE  /\ [H EXCEPT ![Len(H)] = P!Join(H[Len(H)], p)] \in Seq(Parts(n))
               /\ [H EXCEPT ![Len(H)] = P!Join(H[Len(H)], p)] # <<>>
    <2> DEFINE j == P!Join(H[Len(H)], p)
    <2>1. H[Len(H)] \in Parts(n)
      BY <1>2
    <2>2. j \in Parts(n)
      BY <2>1, JoinIs
    <2> HIDE DEF j
    <2>3. [H EXCEPT ![Len(H)] = j] \in Seq(Parts(n)) /\ [H EXCEPT ![Len(H)] = j] # <<>>
      BY <1>2, <2>2
    <2> QED BY <2>3 DEF j
  <1> QED BY <1>1, <1>2 DEF P!MergedWith

\* One partition more in the list of the merged ones.
LEMMA MergeMore ==
    ASSUME P!PartitionsAssumption, NEW n \in Nat, NEW parts \in Seq(Parts(n)),
           SortedTo(parts, N + 1), NEW i \in 1..Len(parts),
           NEW H \in Seq(Parts(n)), DoneTo(parts, i - 1, H), H = <<>> <=> i = 1
    PROVE  DoneTo(parts, i, P!MergedWith(H, parts[i]))
  <1> DEFINE c == Begin(parts, i + 1)
             p == parts[i]
             m == Len(H)
  <1>1. /\ Begin(parts, i) = p.lo /\ c \in 1..(N + 1) /\ p.lo < c /\ p.hi < c
        /\ \A t \in 1..N : p.lo <= t /\ t < c => Reaches(parts, i, t)
    BY BeginIs
  <1>2. p \in Parts(n) /\ i \in DOMAIN parts /\ i \in Nat /\ i - 1 + 1 = i
    BY PartsShape
  <1>3. p.lo \in 1..N /\ p.hi \in 1..N
    BY <1>2 DEF Parts
  <1>4. /\ SortedTo(H, p.lo)
        /\ i - 1 >= 1 => H[1].lo = parts[1].lo
        /\ \A S \in SUBSET (1..N), w \in [Lookers -> [1..N -> Nat]] :
              EarnedTo(parts, N + 1, S, w) => EarnedTo(H, p.lo, S, w)
    BY <1>1, <1>2 DEF DoneTo
  <1>5. CASE H = <<>> \/ ~P!Joins(H[m], p)
    <2>1. P!MergedWith(H, p) = Append(H, p)
      BY <1>5 DEF P!MergedWith
    <2>2. Append(H, p) = H \o <<p>>
      BY <1>2
    <2>3. <<p>> \in Seq(Parts(n)) /\ <<p>> # <<>> /\ DOMAIN <<p>> = 1..1 /\ <<p>>[1] = p
      BY <1>2
    <2>4. \A k \in DOMAIN <<p>> : k = 1
      BY <2>3
    <2>5. SortedTo(<<p>>, c)
      <3>1. \A k, l \in DOMAIN <<p>> : ~(k < l)
        BY <2>4
      <3> HIDE DEF c, p
      <3> QED BY <1>1, <2>3, <2>4, <3>1 DEF SortedTo
    <2>6. /\ <<p>>[1].lo = parts[i].lo
          /\ \A k \in DOMAIN <<p>> : <<p>>[k].visits = parts[i].visits
      BY <2>3, <2>4
    <2>7. \A B \in Seq(Parts(n)) :
             /\ B # <<>> /\ B[1].lo = parts[i].lo
             /\ \A k \in DOMAIN B : B[k].visits = parts[i].visits
             /\ SortedTo(B, Begin(parts, i + 1))
             => DoneTo(parts, i, H \o B)
      BY OneMore
    <2>8. DoneTo(parts, i, H \o <<p>>)
      <3> HIDE DEF p
      <3> QED BY <2>3, <2>5, <2>6, <2>7 DEF c
    <2> QED BY <2>1, <2>2, <2>8
  <1>6. CASE H # <<>> /\ P!Joins(H[m], p)
    <2> DEFINE j == P!Join(H[m], p)
               C == [H EXCEPT ![m] = j]
    <2>1. P!MergedWith(H, p) = C
      BY <1>6 DEF P!MergedWith
    <2>2. m \in Nat /\ m >= 1 /\ DOMAIN H = 1..m /\ m \in 1..m /\ 1 \in 1..m
      BY <1>6, PartsShape
    <2>3. H[m] \in Parts(n)
      BY <2>2
    <2>4. /\ j.lo = H[m].lo /\ j.hi = p.hi
          /\ \A s \in Lookers : /\ j.visits[s] <= H[m].visits[s] /\ j.visits[s] <= p.visits[s]
                                /\ P!SameSweeps(H[m], p) /\ j.visits[s] # 0 =>
                                      H[m].visits[s] # 0 /\ p.visits[s] # 0
          /\ j \in Parts(n)
      BY <1>2, <2>3, JoinIs
    <2>5. P!SameSweeps(H[m], p)
      BY <1>6 DEF P!Joins
    <2>6. DOMAIN C = 1..m /\ C[m] = j /\ \A k \in 1..m : k # m => C[k] = H[k]
      BY <2>2
    <2>7. \A k \in 1..m : C[k].lo = H[k].lo
      BY <2>4, <2>6
    <2>8. /\ \A k, l \in 1..m : k < l => H[k].lo < H[l].lo /\ H[k].hi < H[l].lo
          /\ \A k \in 1..m : H[k].lo < p.lo /\ H[k].hi < p.lo
      BY <1>4, <2>2 DEF SortedTo
    <2>9. \A k \in 1..m : H[k].lo \in 1..N /\ H[k].hi \in 1..N
      BY PartsShape
    <2>10. /\ \A k \in 1..m : H[k].lo \in Int /\ H[k].hi \in Int
           /\ p.lo \in Int /\ p.hi \in Int /\ c \in Int
      BY <1>1, <1>3, <2>9
    <2> HIDE DEF C, j, c, p, m
    <2>11. SortedTo(C, c)
      <3>1. ASSUME NEW k \in 1..m, NEW l \in 1..m, k < l
            PROVE  C[k].lo < C[l].lo /\ C[k].hi < C[l].lo
        <4>1. k # m
          BY <2>2, <3>1
        <4> QED BY <2>6, <2>7, <2>8, <3>1, <4>1
      <3>2. ASSUME NEW k \in 1..m PROVE C[k].lo < c /\ C[k].hi < c
        <4>1. C[k].lo < c
          BY <1>1, <2>7, <2>8, <2>10
        <4>2. k # m => C[k].hi < c
          BY <1>1, <2>6, <2>8, <2>10
        <4>3. C[m].hi < c
          BY <1>1, <2>4, <2>6
        <4> QED BY <4>1, <4>2, <4>3
      <3> QED BY <2>6, <3>1, <3>2 DEF SortedTo
    <2>12. C[1].lo = parts[1].lo
      <3>1. i - 1 >= 1
        BY <1>2, <1>6
      <3> QED BY <1>4, <2>2, <2>7, <3>1
    <2>13. ASSUME NEW S \in SUBSET (1..N), NEW w \in [Lookers -> [1..N -> Nat]],
                  EarnedTo(parts, N + 1, S, w)
           PROVE  EarnedTo(C, c, S, w)
      <3> SUFFICES ASSUME NEW k \in 1..m, NEW s \in Lookers, C[k].visits[s] # 0,
                          NEW t \in S, t < c, Reaches(C, k, t)
                   PROVE  C[k].visits[s] <= w[s][t]
        BY <2>6 DEF EarnedTo
      <3>1. EarnedTo(H, p.lo, S, w)
        BY <1>4, <2>13
      <3>2. C[k].lo <= t /\ \A l \in 1..m : k < l => t < C[l].lo
        BY <2>6 DEF Reaches
      <3>3. Reaches(H, k, t)
        BY <2>2, <2>7, <3>2 DEF Reaches
      <3>4. t \in 1..N /\ t \in Int /\ w[s][t] \in Nat
        <4>1. t \in 1..N
          OBVIOUS
        <4>2. w[s] \in [1..N -> Nat]
          OBVIOUS
        <4> QED BY <4>1, <4>2
      <3>5. CASE k # m
        <4>1. k < m
          BY <2>2, <3>5
        <4>2. t < C[m].lo
          BY <2>2, <3>2, <4>1
        <4>3. t < H[m].lo /\ H[m].lo < p.lo
          BY <2>2, <2>7, <2>8, <4>2
        <4>4. H[m].lo \in Int /\ p.lo \in Int
          BY <2>2, <2>10
        <4>5. t < p.lo
          BY <3>4, <4>3, <4>4
        <4>6. C[k] = H[k]
          BY <2>6, <3>5
        <4> QED BY <2>2, <3>1, <3>3, <4>5, <4>6 DEF EarnedTo
      <3>6. CASE k = m
        <4>1. C[k] = j
          BY <2>6, <3>6
        <4>2. /\ j.visits[s] <= H[m].visits[s] /\ j.visits[s] <= p.visits[s]
              /\ H[m].visits[s] # 0 /\ p.visits[s] # 0
          BY <2>4, <2>5, <4>1
        <4>3. j.visits[s] \in Int /\ H[m].visits[s] \in Int /\ p.visits[s] \in Int
          <5>1. \A x \in Parts(n) : x.visits[s] \in Int
            <6>1. \A x \in Parts(n) : x.visits \in [Lookers -> 0..n]
              BY DEF Parts
            <6>2. \A x \in Parts(n) : x.visits[s] \in 0..n
              BY <6>1
            <6> QED BY <6>2
          <5> QED BY <1>2, <2>3, <2>4, <5>1
        <4>4. CASE t < p.lo
          <5>1. H[m].visits[s] <= w[s][t]
            BY <2>2, <3>1, <3>3, <3>6, <4>2, <4>4 DEF EarnedTo
          <5> QED BY <3>4, <4>1, <4>2, <4>3, <5>1
        <4>5. CASE ~(t < p.lo)
          <5>1. p.lo <= t
            BY <2>10, <3>4, <4>5
          <5>2. Reaches(parts, i, t)
            BY <1>1, <3>4, <5>1
          <5>3. t < N + 1
            BY <3>4, Intervals
          <5>4. p.visits[s] <= w[s][t]
            BY <1>2, <2>13, <4>2, <5>2, <5>3 DEF EarnedTo, p
          <5> QED BY <3>4, <4>1, <4>2, <4>3, <5>4
        <4> QED BY <4>4, <4>5
      <3> QED BY <3>5, <3>6
    <2>14. DoneTo(parts, i, C)
      BY <2>11, <2>12, <2>13 DEF DoneTo, c
    <2> QED BY <2>1, <2>14 DEF p
  <1> QED BY <1>5, <1>6

LEMMA MergeLoop ==
    ASSUME P!PartitionsAssumption, NEW n \in Nat, NEW parts \in Seq(Parts(n))
    PROVE  \E f \in [0..Len(parts) -> Seq(Parts(n))] :
              /\ f[0] = <<>>
              /\ \A i \in 1..Len(parts) : f[i] = P!MergedWith(f[i - 1], parts[i])
              /\ P!Merged(parts) = f[Len(parts)]
  <1> DEFINE X == Seq(Parts(n))
             m == Len(parts)
             st == [i \in 1..m |-> [x \in X |-> P!MergedWith(x, parts[i])]]
             f == CHOOSE f : f = [i \in 0..m |->
                     IF i = 0 THEN <<>> ELSE P!MergedWith(f[i - 1], parts[i])]
  <1>1. m \in Nat /\ <<>> \in X
    OBVIOUS
  <1>2. \A i \in 1..m, x \in X : P!MergedWith(x, parts[i]) \in X
    <2>1. \A i \in 1..m : parts[i] \in Parts(n)
      OBVIOUS
    <2> QED BY <2>1, MergeTypes
  <1>3. st \in [1..m -> [X -> X]]
    <2> HIDE DEF X
    <2> QED BY <1>2
  <1>4. \E g : Iterates(g, m, X, <<>>, st)
    <2> HIDE DEF X, m, st, f
    <2> QED BY <1>1, <1>3, Iterated
  <1> PICK g : Iterates(g, m, X, <<>>, st)
    BY <1>4
  <1>5. g \in [0..m -> X] /\ g[0] = <<>> /\ \A i \in 1..m : g[i] = st[i][g[i - 1]]
    BY DEF Iterates
  <1>6. ASSUME NEW i \in 1..m
        PROVE  g[i] = P!MergedWith(g[i - 1], parts[i])
    <2>1. i - 1 \in 0..m
      OBVIOUS
    <2>2. g[i] = st[i][g[i - 1]] /\ g[i - 1] \in X
      <3> HIDE DEF st, X
      <3> QED BY <1>5, <2>1
    <2> HIDE DEF X
    <2> QED BY <2>2
  <1>7. g = [i \in 0..m |-> IF i = 0 THEN <<>> ELSE P!MergedWith(g[i - 1], parts[i])]
    <2>1. \A i \in 0..m : g[i] = IF i = 0 THEN <<>> ELSE P!MergedWith(g[i - 1], parts[i])
      <3>1. \A i \in 0..m : i = 0 \/ i \in 1..m
        BY <1>1
      <3> QED BY <1>5, <1>6, <3>1
    <2>2. g = [i \in 0..m |-> g[i]]
      <3> HIDE DEF X
      <3> QED BY <1>5
    <2> QED BY <2>1, <2>2
  <1>8. f = [i \in 0..m |-> IF i = 0 THEN <<>> ELSE P!MergedWith(f[i - 1], parts[i])]
    BY <1>7
  <1>9. P!Merged(parts) = f[m]
    BY DEF P!Merged
  <1> HIDE DEF f
  <1>10. f[0] = <<>> /\ \A i \in 1..m : f[i] = P!MergedWith(f[i - 1], parts[i])
    <2>1. \A i \in 0..m : f[i] = IF i = 0 THEN <<>> ELSE P!MergedWith(f[i - 1], parts[i])
      BY <1>8
    <2>2. 0 \in 0..m /\ \A i \in 1..m : i \in 0..m /\ i # 0
      BY <1>1
    <2> QED BY <2>1, <2>2
  <1>11. f \in [0..m -> X]
    <2> DEFINE Q == {i \in Nat : i \in 0..m => f[i] \in X}
    <2>1. 0 \in Q
      BY <1>1, <1>10
    <2>2. ASSUME NEW i \in 1..m, i - 1 \in Q PROVE i \in Q
      <3>1. i - 1 \in 0..m /\ i \in Nat
        BY <1>1
      <3>2. f[i - 1] \in X
        BY <2>2, <3>1
      <3> HIDE DEF X
      <3> QED BY <1>2, <1>10, <3>1, <3>2
    <2>3. Q \in SUBSET Nat
      OBVIOUS
    <2>4. \A i \in 0..m : i \in Q
      <3> HIDE DEF Q
      <3> QED BY <1>1, <2>1, <2>2, <2>3, UpTo
    <2>5. \A i \in 0..m : f[i] \in X
      BY <2>4
    <2> HIDE DEF X
    <2> QED BY <1>8, <2>5
  <1> QED BY <1>9, <1>10, <1>11

LEMMA MergedShape ==
    ASSUME P!PartitionsAssumption, NEW n \in Nat, NEW parts \in Seq(Parts(n))
    PROVE  LET q == P!Merged(parts)
           IN  /\ q \in Seq(Parts(n))
               /\ SortedTo(parts, N + 1) =>
                     DoneTo(parts, Len(parts), q) /\ (q = <<>> <=> parts = <<>>)
  <1> DEFINE q == P!Merged(parts)
             m == Len(parts)
  <1>1. PICK f \in [0..m -> Seq(Parts(n))] :
              /\ f[0] = <<>>
              /\ \A i \in 1..m : f[i] = P!MergedWith(f[i - 1], parts[i])
              /\ q = f[m]
    BY MergeLoop
  <1>2. m \in Nat /\ (parts = <<>> <=> m = 0) /\ m \in 0..m
    BY PartsShape
  <1> HIDE DEF q, m
  <1>3. q \in Seq(Parts(n))
    BY <1>1, <1>2
  <1>4. ASSUME SortedTo(parts, N + 1)
        PROVE  DoneTo(parts, m, q) /\ (q = <<>> <=> parts = <<>>)
    <2> DEFINE Q == {i \in Nat : i \in 0..m => DoneTo(parts, i, f[i]) /\ (f[i] = <<>> <=> i = 0)}
    <2>1. 0 \in Q
      BY <1>1, NothingDone
    <2>2. ASSUME NEW i \in 1..m, i - 1 \in Q PROVE i \in Q
      <3> DEFINE H == f[i - 1]
                 C == P!MergedWith(H, parts[i])
      <3>1. i - 1 \in 0..m /\ i \in Nat /\ i # 0 /\ (i - 1 = 0 <=> i = 1)
        BY <1>2
      <3>2. DoneTo(parts, i - 1, H) /\ (H = <<>> <=> i = 1) /\ H \in Seq(Parts(n))
        BY <1>1, <2>2, <3>1
      <3>3. i \in 1..Len(parts) /\ parts[i] \in Parts(n)
        BY PartsShape DEF m
      <3>4. C # <<>> /\ DoneTo(parts, i, C)
        <4> HIDE DEF H
        <4> QED BY <1>4, <3>2, <3>3, MergeMore, MergeTypes
      <3> QED BY <1>1, <3>1, <3>4
    <2>3. Q \in SUBSET Nat
      OBVIOUS
    <2>4. \A i \in 0..m : i \in Q
      <3> HIDE DEF Q
      <3> QED BY <1>2, <2>1, <2>2, <2>3, UpTo
    <2> QED BY <1>1, <1>2, <2>4
  <1> QED BY <1>3, <1>4 DEF q, m

-----------------------------------------------------------------------------
\* What keeps the keys, and what only lets marks go.

\* The same keys.
SameKeys(q, r) ==
    /\ Len(r) = Len(q)
    /\ \A i \in 1..Len(q) : r[i].lo = q[i].lo /\ r[i].hi = q[i].hi

LEMMA KeysKeep ==
    ASSUME P!PartitionsAssumption, NEW n \in Nat, NEW q \in Seq(Parts(n)),
           NEW k \in Nat, NEW r \in Seq(Parts(k)), SameKeys(q, r)
    PROVE  /\ q = <<>> <=> r = <<>>
           /\ DOMAIN r = DOMAIN q
           /\ SortedTo(q, N + 1) => SortedTo(r, N + 1)
           /\ \A S : Leads(q, S) => Leads(r, S)
           /\ \A i \in DOMAIN q : \A t : Reaches(r, i, t) => Reaches(q, i, t)
  <1>1. Len(q) \in Nat /\ Len(r) = Len(q) /\ DOMAIN q = 1..Len(q) /\ DOMAIN r = 1..Len(q)
    BY DEF SameKeys
  <1>2. \A i \in 1..Len(q) : r[i].lo = q[i].lo /\ r[i].hi = q[i].hi
    BY DEF SameKeys
  <1>3. q = <<>> <=> r = <<>>
    BY <1>1
  <1>4. q # <<>> => 1 \in 1..Len(q)
    BY <1>1
  <1> QED BY <1>1, <1>2, <1>3, <1>4 DEF SortedTo, Leads, Reaches

LEMMA CountedShape ==
    ASSUME P!PartitionsAssumption, NEW n \in Nat, NEW q \in Seq(Parts(n)),
           NEW titles \in SUBSET (1..N)
    PROVE  LET r == P!Counted(q, titles)
           IN  /\ r \in Seq(Parts(n)) /\ SameKeys(q, r)
               /\ \A i \in 1..Len(q) : r[i].visits = q[i].visits
  <1> DEFINE r == P!Counted(q, titles)
  <1>1. Len(q) \in Nat /\ DOMAIN q = 1..Len(q) /\ \A i \in 1..Len(q) : q[i] \in Parts(n)
    BY PartsShape
  <1>2. CASE titles = {}
    <2>1. r = q
      BY <1>2 DEF P!Counted
    <2> QED BY <1>1, <2>1 DEF SameKeys
  <1>3. CASE titles # {}
    <2> DEFINE c(i) == Cardinality(P!Members(P!Located(q), i, titles))
    <2>1. r = [i \in 1..Len(q) |-> [q[i] EXCEPT !.count = c(i)]]
      BY <1>1, <1>3, PartCounts DEF P!Counted
    <2>2. \A i \in 1..Len(q) : c(i) \in Nat
      BY MembersAre, Intervals
    <2> HIDE DEF c, r
    <2>4. \A i \in 1..Len(q) : r[i] = [q[i] EXCEPT !.count = c(i)]
      BY <2>1
    <2>5. ASSUME NEW i \in 1..Len(q)
          PROVE  /\ r[i] \in Parts(n) /\ r[i].lo = q[i].lo /\ r[i].hi = q[i].hi
                 /\ r[i].visits = q[i].visits
      <3>1. r[i] = [q[i] EXCEPT !.count = c(i)] /\ q[i] \in Parts(n) /\ c(i) \in Nat
        BY <1>1, <2>2, <2>4
      <3> QED BY <3>1 DEF Parts
    <2>6. r \in Seq(Parts(n)) /\ Len(r) = Len(q)
      <3>1. r = [i \in 1..Len(q) |-> r[i]]
        BY <2>1
      <3> QED BY <1>1, <2>5, <3>1
    <2> QED BY <2>5, <2>6 DEF SameKeys, r
  <1> QED BY <1>2, <1>3

LEMMA MarksKeep ==
    ASSUME P!PartitionsAssumption, NEW n \in Nat, NEW q \in Seq(Parts(n)),
           NEW r \in Seq(Parts(n)), SameKeys(q, r),
           \A i \in 1..Len(q) : r[i].visits = q[i].visits,
           NEW S \in SUBSET (1..N), NEW w, EarnedTo(q, N + 1, S, w)
    PROVE  EarnedTo(r, N + 1, S, w)
  <1>1. DOMAIN r = DOMAIN q /\ \A i \in DOMAIN q : \A t : Reaches(r, i, t) => Reaches(q, i, t)
    BY KeysKeep
  <1>2. \A i \in DOMAIN q : r[i].visits = q[i].visits
    BY PartsShape
  <1> QED BY <1>1, <1>2 DEF EarnedTo

\* The end of a list is the end of all titles.
LEMMA DoneAll ==
    ASSUME NEW n \in Nat, NEW parts \in Seq(Parts(n)), NEW q \in Seq(Parts(n)),
           DoneTo(parts, Len(parts), q), q = <<>> <=> parts = <<>>
    PROVE  /\ SortedTo(q, N + 1)
           /\ \A S : Leads(parts, S) => Leads(q, S)
           /\ \A S \in SUBSET (1..N), w \in [Lookers -> [1..N -> Nat]] :
                 EarnedTo(parts, N + 1, S, w) => EarnedTo(q, N + 1, S, w)
  <1>1. Len(parts) \in Nat /\ (parts = <<>> <=> Len(parts) = 0)
    OBVIOUS
  <1>2. Begin(parts, Len(parts) + 1) = N + 1
    BY <1>1 DEF Begin
  <1>3. q # <<>> => q[1].lo = parts[1].lo
    BY <1>1 DEF DoneTo
  <1> QED BY <1>2, <1>3 DEF DoneTo, Leads

\* cleared_where_unseen: where nothing is new, what is marked was looked at.
LEMMA ClearedShape ==
    ASSUME P!PartitionsAssumption, NEW n \in Nat, NEW q \in Seq(Parts(n)), NEW d
    PROVE  LET r == P!ClearedWhereUnseen(q, d)
           IN  /\ r \in Seq(Parts(n)) /\ SameKeys(q, r)
               /\ \A S \in SUBSET (1..N) : \A w :
                     /\ SortedTo(q, N + 1) /\ Leads(q, P!Living(d))
                     /\ \A t \in P!Living(d) : d[t] # "new" => t \in S
                     /\ EarnedTo(q, N + 1, S, w)
                     => EarnedTo(r, N + 1, P!Living(d), w)
  <1> DEFINE r == P!ClearedWhereUnseen(q, d)
             unseen == {P!LocatedAt(q, t) : t \in {u \in P!Living(d) : d[u] = "new"}}
  <1>1. Len(q) \in Nat /\ DOMAIN q = 1..Len(q) /\ \A i \in 1..Len(q) : q[i] \in Parts(n)
    BY PartsShape
  <1>2. r = [i \in 1..Len(q) |->
               IF i \in unseen THEN [q[i] EXCEPT !.visits = P!Unvisited] ELSE q[i]]
    BY <1>1 DEF P!ClearedWhereUnseen
  <1>3. P!Unvisited \in [Lookers -> 0..n] /\ \A s \in Lookers : P!Unvisited[s] = 0
    BY DEF P!Unvisited
  <1>4. \A x \in Parts(n) :
           /\ [x EXCEPT !.visits = P!Unvisited] \in Parts(n)
           /\ [x EXCEPT !.visits = P!Unvisited].lo = x.lo
           /\ [x EXCEPT !.visits = P!Unvisited].hi = x.hi
           /\ [x EXCEPT !.visits = P!Unvisited].visits = P!Unvisited
    BY <1>3 DEF Parts
  <1> HIDE DEF r, unseen
  <1>5. \A i \in 1..Len(q) :
           r[i] = IF i \in unseen THEN [q[i] EXCEPT !.visits = P!Unvisited] ELSE q[i]
    BY <1>2
  <1>6. \A i \in 1..Len(q) : /\ r[i] \in Parts(n) /\ r[i].lo = q[i].lo /\ r[i].hi = q[i].hi
                             /\ i \in unseen => r[i].visits = P!Unvisited
                             /\ i \notin unseen => r[i].visits = q[i].visits
    BY <1>1, <1>4, <1>5
  <1>7. r \in Seq(Parts(n)) /\ SameKeys(q, r)
    <2>1. r = [i \in 1..Len(q) |-> r[i]]
      BY <1>2
    <2>2. r \in Seq(Parts(n)) /\ Len(r) = Len(q)
      BY <1>1, <1>6, <2>1
    <2> QED BY <1>6, <2>2 DEF SameKeys
  <1>8. ASSUME NEW S \in SUBSET (1..N), NEW w, SortedTo(q, N + 1), Leads(q, P!Living(d)),
               \A t \in P!Living(d) : d[t] # "new" => t \in S, EarnedTo(q, N + 1, S, w)
        PROVE  EarnedTo(r, N + 1, P!Living(d), w)
    <2> SUFFICES ASSUME NEW i \in DOMAIN q, NEW s \in Lookers, r[i].visits[s] # 0,
                        NEW t \in P!Living(d), t < N + 1, Reaches(r, i, t)
                 PROVE  r[i].visits[s] <= w[s][t]
      BY <1>7, KeysKeep DEF EarnedTo
    <2>1. i \in 1..Len(q) /\ Reaches(q, i, t)
      BY <1>1, <1>7, KeysKeep
    <2>2. t \in 1..N
      BY LivingIn
    <2>3. P!LocatedAt(q, t) = i
      BY <1>8, <2>1, <2>2, LocatedSorted
    <2>4. i \notin unseen
      BY <1>3, <1>6, <2>1
    <2>5. d[t] # "new"
      BY <2>3, <2>4 DEF unseen
    <2>6. t \in S
      BY <1>8, <2>5
    <2> QED BY <1>6, <1>8, <2>1, <2>4, <2>6 DEF EarnedTo
  <1> QED BY <1>7, <1>8 DEF r

-----------------------------------------------------------------------------
\* A list that is cut anew: which marks it takes over.

LEMMA OldestIs ==
    ASSUME NEW n \in Nat, NEW S \in SUBSET (0..n), S # {}
    PROVE  P!Min(S) \in S /\ \A x \in S : P!Min(S) <= x
  <1>1. S \in SUBSET Nat /\ \A x \in S : x \in Int
    OBVIOUS
  <1>2. \E x \in S : \A y \in S : x <= y
    BY <1>1, LeastOf
  <1> QED BY <1>2 DEF P!Min

LEMMA InheritedIs ==
    ASSUME NEW n \in Nat, NEW over \in SUBSET Parts(n)
    PROVE  LET v == P!InheritedOf(over)
           IN  /\ v \in [Lookers -> 0..n]
               /\ over = {} => v = P!Unvisited
               /\ \A s \in Lookers : v[s] # 0 =>
                     \A p \in over : p.visits[s] # 0 /\ v[s] <= p.visits[s]
  <1> DEFINE v == P!InheritedOf(over)
             ages(s) == {p.visits[s] : p \in over}
  <1>1. \A p \in over, s \in Lookers : p.visits[s] \in 0..n
    <2>1. \A p \in over : p.visits \in [Lookers -> 0..n]
      BY DEF Parts
    <2> QED BY <2>1
  <1>2. v = [s \in Lookers |->
               IF over = {} \/ \E p \in over : p.visits[s] = 0 THEN 0 ELSE P!Min(ages(s))]
    BY DEF P!InheritedOf
  <1>3. \A s \in Lookers : ages(s) \in SUBSET (0..n)
    BY <1>1
  <1>4. \A s \in Lookers : \A p \in over : p.visits[s] \in ages(s)
    OBVIOUS
  <1> HIDE DEF v, ages
  <1>5. ASSUME NEW s \in Lookers, over # {}
        PROVE  P!Min(ages(s)) \in 0..n /\ \A p \in over : P!Min(ages(s)) <= p.visits[s]
    <2>1. ages(s) # {}
      BY <1>4, <1>5
    <2>2. P!Min(ages(s)) \in ages(s) /\ \A x \in ages(s) : P!Min(ages(s)) <= x
      BY <1>3, <2>1, OldestIs
    <2> QED BY <1>3, <1>4, <2>2
  <1>6. \A s \in Lookers :
           v[s] = IF over = {} \/ \E p \in over : p.visits[s] = 0 THEN 0 ELSE P!Min(ages(s))
    BY <1>2
  <1>7. v \in [Lookers -> 0..n]
    <2>1. \A s \in Lookers : v[s] \in 0..n
      <3>1. 0 \in 0..n
        OBVIOUS
      <3> QED BY <1>5, <1>6, <3>1
    <2>2. v = [s \in Lookers |-> v[s]]
      BY <1>2
    <2> QED BY <2>1, <2>2
  <1>8. over = {} => v = P!Unvisited
    BY <1>2 DEF P!Unvisited
  <1>9. ASSUME NEW s \in Lookers, v[s] # 0, NEW p \in over
        PROVE  p.visits[s] # 0 /\ v[s] <= p.visits[s]
    <2>1. over # {} /\ p.visits[s] # 0 /\ v[s] = P!Min(ages(s))
      BY <1>6, <1>9
    <2> QED BY <1>5, <2>1
  <1> QED BY <1>7, <1>8, <1>9 DEF v

\* What a partition of the list before is met by.
Met(before, b) ==
    LET olds == {before[i] : i \in DOMAIN before}
        same == {p \in olds : p.lo = b.lo /\ p.hi = b.hi}
    IN  IF same # {} THEN same ELSE {p \in olds : P!Overlaps(p, b)}

LEMMA RefreshedIs ==
    ASSUME P!PartitionsAssumption, NEW n \in Nat, NEW before \in Seq(Parts(n)),
           NEW built \in Seq(Parts(n))
    PROVE  LET r == P!Refreshed(built, before)
           IN  /\ r \in Seq(Parts(n))
               /\ built = <<>> => SameKeys(before, r)
               /\ built # <<>> =>
                     /\ SameKeys(built, r)
                     /\ \A i \in 1..Len(built) :
                           r[i].visits = P!InheritedOf(Met(before, built[i]))
               /\ \A i \in 1..Len(built) : Met(before, built[i]) \in SUBSET Parts(n)
  <1> DEFINE r == P!Refreshed(built, before)
  <1>1. /\ Len(before) \in Nat /\ DOMAIN before = 1..Len(before)
        /\ \A i \in 1..Len(before) : before[i] \in Parts(n)
    BY PartsShape
  <1>2. /\ Len(built) \in Nat /\ DOMAIN built = 1..Len(built)
        /\ \A i \in 1..Len(built) : built[i] \in Parts(n)
    BY PartsShape
  <1>3. \A i \in 1..Len(built) : Met(before, built[i]) \in SUBSET Parts(n)
    BY <1>1 DEF Met
  <1>4. CASE built = <<>>
    <2>1. r = [i \in 1..Len(before) |-> [before[i] EXCEPT !.count = 0]]
      BY <1>1, <1>4 DEF P!Refreshed
    <2> HIDE DEF r
    <2>2. ASSUME NEW i \in 1..Len(before)
          PROVE  r[i] \in Parts(n) /\ r[i].lo = before[i].lo /\ r[i].hi = before[i].hi
      <3>1. r[i] = [before[i] EXCEPT !.count = 0] /\ before[i] \in Parts(n)
        BY <1>1, <2>1
      <3>2. /\ r[i] = [lo |-> before[i].lo, hi |-> before[i].hi, count |-> 0,
                       visits |-> before[i].visits]
            /\ before[i].lo \in 1..N /\ before[i].hi \in 1..N
            /\ before[i].visits \in [Lookers -> 0..n]
        BY <3>1 DEF Parts
      <3>3. r[i] \in Parts(n)
        BY <3>2 DEF Parts
      <3> QED BY <3>2, <3>3
    <2>3. r \in Seq(Parts(n)) /\ Len(r) = Len(before)
      <3>1. r = [i \in 1..Len(before) |-> r[i]]
        BY <2>1
      <3> QED BY <1>1, <2>2, <3>1
    <2> QED BY <1>3, <1>4, <2>2, <2>3 DEF SameKeys, r
  <1>5. CASE built # <<>>
    <2> DEFINE v(i) == P!InheritedOf(Met(before, built[i]))
    <2>1. r = [i \in 1..Len(built) |-> [built[i] EXCEPT !.visits = v(i)]]
      BY <1>2, <1>5 DEF P!Refreshed, Met
    <2>2. \A i \in 1..Len(built) : v(i) \in [Lookers -> 0..n]
      BY <1>3, InheritedIs
    <2> HIDE DEF r, v
    <2>3. ASSUME NEW i \in 1..Len(built)
          PROVE  r[i] \in Parts(n) /\ r[i].lo = built[i].lo /\ r[i].hi = built[i].hi
                 /\ r[i].visits = v(i)
      <3>1. /\ r[i] = [built[i] EXCEPT !.visits = v(i)] /\ built[i] \in Parts(n)
            /\ v(i) \in [Lookers -> 0..n]
        BY <1>2, <2>1, <2>2
      <3>2. /\ r[i] = [lo |-> built[i].lo, hi |-> built[i].hi, count |-> built[i].count,
                       visits |-> v(i)]
            /\ built[i].lo \in 1..N /\ built[i].hi \in 1..N /\ built[i].count \in Nat
        BY <3>1 DEF Parts
      <3>3. r[i] \in Parts(n)
        BY <3>1, <3>2 DEF Parts
      <3> QED BY <3>2, <3>3
    <2>4. r \in Seq(Parts(n)) /\ Len(r) = Len(built)
      <3>1. r = [i \in 1..Len(built) |-> r[i]]
        BY <2>1
      <3> QED BY <1>2, <2>3, <3>1
    <2> QED BY <1>3, <1>5, <2>3, <2>4 DEF SameKeys, r, v
  <1> QED BY <1>4, <1>5

\* Every document lies in the key of its partition.
Covered(before, S) ==
    \A t \in S : /\ before[P!LocatedAt(before, t)].lo <= t
                 /\ t <= before[P!LocatedAt(before, t)].hi

\* What a new partition takes over from what it meets, it has earned.
LEMMA RefreshedEarned ==
    ASSUME P!PartitionsAssumption, NEW n \in Nat, NEW before \in Seq(Parts(n)), before # <<>>,
           SortedTo(before, N + 1), NEW S \in SUBSET (1..N), Leads(before, S),
           Covered(before, S), NEW w \in [Lookers -> [1..N -> Nat]],
           EarnedTo(before, N + 1, S, w)
    PROVE  EarnedTo(P!Refreshed(P!Chunks(S), before), N + 1, S, w)
  <1> DEFINE built == P!Chunks(S)
             r == P!Refreshed(built, before)
  <1>1. /\ built \in Seq(Parts(n)) /\ (built = <<>> <=> S = {})
        /\ \A i \in DOMAIN built, t \in S : Reaches(built, i, t) => t <= built[i].hi
    BY ChunksShape
  <1>2. /\ Len(before) \in Nat /\ DOMAIN before = 1..Len(before)
        /\ \A i \in 1..Len(before) : /\ before[i] \in Parts(n)
                                     /\ before[i].lo \in 1..N /\ before[i].hi \in 1..N
    BY PartsShape
  <1>3. DOMAIN built = 1..Len(built)
        /\ \A i \in 1..Len(built) : built[i].lo \in 1..N /\ built[i].hi \in 1..N
    BY <1>1, PartsShape
  <1> HIDE DEF built
  <1>4. CASE S = {}
    BY <1>4 DEF EarnedTo
  <1>5. CASE S # {}
    <2>1. /\ r \in Seq(Parts(n)) /\ SameKeys(built, r)
          /\ \A i \in 1..Len(built) : r[i].visits = P!InheritedOf(Met(before, built[i]))
          /\ \A i \in 1..Len(built) : Met(before, built[i]) \in SUBSET Parts(n)
      BY <1>1, <1>5, RefreshedIs
    <2> HIDE DEF r
    <2>2. SUFFICES ASSUME NEW i \in DOMAIN r, NEW s \in Lookers, r[i].visits[s] # 0,
                          NEW t \in S, Reaches(r, i, t)
                   PROVE  r[i].visits[s] <= w[s][t]
      BY DEF EarnedTo, r, built
    <2>3. i \in 1..Len(built) /\ Reaches(built, i, t)
      BY <1>1, <1>3, <2>1, <2>2, KeysKeep
    <2>4. built[i].lo <= t /\ t <= built[i].hi
      BY <1>1, <1>3, <2>3 DEF Reaches
    <2> DEFINE k == P!LocatedAt(before, t)
    <2>5. k \in 1..Len(before) /\ Reaches(before, k, t)
      <3>1. before[1].lo <= t
        BY DEF Leads
      <3> QED BY <1>2, <3>1, LocatedIn, LocatedSorted
    <2>6. before[k].lo <= t /\ t <= before[k].hi
      BY DEF Covered
    <2>7. t \in 1..N /\ t < N + 1
      BY Intervals
    <2>8. ASSUME NEW l \in 1..Len(before), before[l].lo <= t, t <= before[l].hi PROVE l = k
      <3>1. ASSUME NEW j \in 1..Len(before), l < j PROVE t < before[j].lo
        <4>1. before[l].hi < before[j].lo
          BY <1>2, <3>1 DEF SortedTo
        <4> QED BY <1>2, <2>7, <2>8, <4>1
      <3>2. Reaches(before, l, t)
        BY <1>2, <2>8, <3>1 DEF Reaches
      <3> QED BY <1>2, <2>7, <3>2, LocatedSorted
    <2>9. before[k] \in Met(before, built[i])
      <3> DEFINE olds == {before[l] : l \in DOMAIN before}
                 same == {p \in olds : p.lo = built[i].lo /\ p.hi = built[i].hi}
      <3>1. before[k] \in olds
        BY <1>2, <2>5
      <3>2. CASE same # {}
        <4>1. PICK l \in 1..Len(before) :
                 before[l] \in same /\ before[l].lo = built[i].lo /\ before[l].hi = built[i].hi
          BY <1>2, <3>2
        <4>2. l = k
          BY <2>4, <2>8, <4>1
        <4>3. before[k] \in same
          BY <4>1, <4>2
        <4> QED BY <3>2, <4>3 DEF Met
      <3>3. CASE same = {}
        <4>1. before[k].lo <= built[i].hi /\ built[i].lo <= before[k].hi
          <5>1. /\ before[k].lo \in Int /\ before[k].hi \in Int
                /\ built[i].lo \in Int /\ built[i].hi \in Int /\ t \in Int
            BY <1>2, <1>3, <2>3, <2>5, <2>7
          <5> QED BY <2>4, <2>6, <5>1
        <4>2. P!Overlaps(before[k], built[i])
          BY <4>1 DEF P!Overlaps
        <4> QED BY <3>1, <3>3, <4>2 DEF Met
      <3> QED BY <3>2, <3>3
    <2>10. before[k].visits[s] # 0 /\ r[i].visits[s] <= before[k].visits[s]
      BY <2>1, <2>2, <2>3, <2>9, InheritedIs
    <2>11. before[k].visits[s] <= w[s][t]
      BY <1>2, <2>5, <2>7, <2>10 DEF EarnedTo
    <2>12. /\ r[i].visits[s] \in Int /\ before[k].visits[s] \in Int /\ w[s][t] \in Int
      <3>1. \A x \in Parts(n) : x.visits[s] \in Int
        <4>1. \A x \in Parts(n) : x.visits \in [Lookers -> 0..n]
          BY DEF Parts
        <4>2. \A x \in Parts(n) : x.visits[s] \in 0..n
          BY <4>1
        <4> QED BY <4>2
      <3>2. r[i] \in Parts(n)
        BY <2>1, PartsShape
      <3>3. w[s] \in [1..N -> Nat]
        OBVIOUS
      <3>4. w[s][t] \in Nat
        BY <2>7, <3>3
      <3> QED BY <1>2, <2>5, <3>1, <3>2, <3>4
    <2> HIDE DEF k
    <2> QED BY <2>10, <2>11, <2>12
  <1> QED BY <1>4, <1>5

\* carried_by_docs: what every document had, each of them has earned.
LEMMA CarriedShape ==
    ASSUME P!PartitionsAssumption, NEW n \in Nat, NEW before \in Seq(Parts(n)),
           NEW q \in Seq(Parts(n)), NEW d
    PROVE  LET r == P!Carried(q, before, d)
           IN  /\ r \in Seq(Parts(n)) /\ SameKeys(q, r)
               /\ before = <<>> => r = q
               /\ \A w \in [Lookers -> [1..N -> Nat]] :
                     /\ SortedTo(before, N + 1) /\ Leads(before, P!Living(d))
                     /\ EarnedTo(before, N + 1, P!Living(d), w)
                     /\ SortedTo(q, N + 1)
                     /\ EarnedTo(q, N + 1, P!Living(d), w)
                     => EarnedTo(r, N + 1, P!Living(d), w)
  <1> DEFINE r == P!Carried(q, before, d)
             L == P!Living(d)
             was(t) == before[P!Located(before)[t]].visits
             here(i) == P!Members(P!Located(q), i, L)
             ages(i, s) == {was(t)[s] : t \in here(i)}
             carries(i, s) == /\ here(i) # {}
                              /\ \A t \in here(i) : d[t] # "new" /\ was(t)[s] # 0
             v(i) == [s \in Lookers |-> IF q[i].visits[s] = 0 /\ carries(i, s)
                                        THEN P!Min(ages(i, s)) ELSE q[i].visits[s]]
  <1>1. Len(q) \in Nat /\ DOMAIN q = 1..Len(q) /\ \A i \in 1..Len(q) : q[i] \in Parts(n)
    BY PartsShape
  <1>2. L \in SUBSET (1..N)
    BY LivingIn
  <1>3. CASE before = <<>>
    <2>1. r = q
      BY <1>3 DEF P!Carried
    <2>2. SameKeys(q, q)
      BY DEF SameKeys
    <2> QED BY <2>1, <2>2
  <1>4. CASE before # <<>>
    <2>1. r = [i \in 1..Len(q) |-> [q[i] EXCEPT !.visits = v(i)]]
      <3>1. r = [i \in DOMAIN q |-> [q[i] EXCEPT !.visits =
                   [s \in Lookers |-> IF @[s] = 0 /\ carries(i, s)
                                      THEN P!Min(ages(i, s)) ELSE @[s]]]]
        BY <1>4 DEF P!Carried
      <3> QED BY <1>1, <3>1
    <2>2. \A i : here(i) = {t \in L : P!LocatedAt(q, t) = i}
      BY <1>2, MembersAre
    <2>3. \A t \in L : was(t) = before[P!LocatedAt(before, t)].visits
      BY <1>2, MembersAre
    <2> HIDE DEF here
    <2>4. \A t \in L, s \in Lookers : was(t)[s] \in 0..n
      <3> SUFFICES ASSUME NEW t \in L, NEW s \in Lookers PROVE was(t)[s] \in 0..n
        OBVIOUS
      <3>1. P!LocatedAt(before, t) \in DOMAIN before
        BY <1>4, LocatedIn
      <3>2. before[P!LocatedAt(before, t)].visits[s] \in 0..n
        <4>1. \A k \in DOMAIN before : \A x \in Lookers : before[k].visits[x] \in 0..n
          <5>1. DOMAIN before = 1..Len(before)
            BY PartsShape
          <5>2. \A k \in 1..Len(before) : \A x \in Lookers : before[k].visits[x] \in 0..n
            BY PartsShape
          <5> QED BY <5>1, <5>2
        <4> QED BY <3>1, <4>1
      <3> HIDE DEF was
      <3> QED BY <2>3, <3>2
    <2> HIDE DEF was
    <2>5. \A i, s : \A t \in here(i) : was(t)[s] \in ages(i, s)
      OBVIOUS
    <2>6. \A i : \A s \in Lookers : ages(i, s) \in SUBSET (0..n)
      <3>1. \A i, t : t \in here(i) => t \in L
        BY <2>2
      <3> QED BY <2>4, <3>1
    <2> HIDE DEF ages
    <2>7. \A i : \A s \in Lookers : here(i) # {} =>
             P!Min(ages(i, s)) \in 0..n /\ \A t \in here(i) : P!Min(ages(i, s)) <= was(t)[s]
      <3> SUFFICES ASSUME NEW i, NEW s \in Lookers, here(i) # {}
                   PROVE  /\ P!Min(ages(i, s)) \in 0..n
                          /\ \A t \in here(i) : P!Min(ages(i, s)) <= was(t)[s]
        OBVIOUS
      <3>1. ages(i, s) # {} /\ ages(i, s) \in SUBSET (0..n)
        BY <2>5, <2>6
      <3>2. P!Min(ages(i, s)) \in ages(i, s) /\ \A x \in ages(i, s) : P!Min(ages(i, s)) <= x
        BY <3>1, OldestIs
      <3> QED BY <2>5, <3>1, <3>2
    <2>8. \A i \in 1..Len(q) : \A s \in Lookers :
             v(i)[s] = IF q[i].visits[s] = 0 /\ carries(i, s)
                       THEN P!Min(ages(i, s)) ELSE q[i].visits[s]
      <3> HIDE DEF carries
      <3> QED OBVIOUS
    <2>9. \A i \in 1..Len(q) : v(i) \in [Lookers -> 0..n]
      <3> SUFFICES ASSUME NEW i \in 1..Len(q) PROVE v(i) \in [Lookers -> 0..n]
        OBVIOUS
      <3>1. \A s \in Lookers : q[i].visits[s] \in 0..n
        BY PartsShape
      <3>2. \A s \in Lookers : v(i)[s] \in 0..n
        <4>1. \A s \in Lookers : carries(i, s) => P!Min(ages(i, s)) \in 0..n
          BY <2>7
        <4> HIDE DEF v, carries
        <4> QED BY <2>8, <3>1, <4>1
      <3>3. v(i) = [s \in Lookers |-> v(i)[s]]
        OBVIOUS
      <3> HIDE DEF v
      <3> QED BY <3>2, <3>3
    <2> HIDE DEF r, v
    <2>10. ASSUME NEW i \in 1..Len(q)
           PROVE  /\ r[i] \in Parts(n) /\ r[i].lo = q[i].lo /\ r[i].hi = q[i].hi
                  /\ r[i].visits = v(i)
      <3>1. /\ r[i] = [q[i] EXCEPT !.visits = v(i)] /\ q[i] \in Parts(n)
            /\ v(i) \in [Lookers -> 0..n]
        BY <1>1, <2>1, <2>9
      <3>2. /\ r[i] = [lo |-> q[i].lo, hi |-> q[i].hi, count |-> q[i].count, visits |-> v(i)]
            /\ q[i].lo \in 1..N /\ q[i].hi \in 1..N /\ q[i].count \in Nat
        BY <3>1 DEF Parts
      <3>3. r[i] \in Parts(n)
        BY <3>1, <3>2 DEF Parts
      <3> QED BY <3>2, <3>3
    <2>11. r \in Seq(Parts(n)) /\ SameKeys(q, r)
      <3>1. r = [i \in 1..Len(q) |-> r[i]]
        BY <2>1
      <3>2. r \in Seq(Parts(n)) /\ Len(r) = Len(q)
        BY <1>1, <2>10, <3>1
      <3> QED BY <2>10, <3>2 DEF SameKeys
    <2>12. ASSUME NEW w \in [Lookers -> [1..N -> Nat]],
                  SortedTo(before, N + 1), Leads(before, L), EarnedTo(before, N + 1, L, w),
                  SortedTo(q, N + 1), EarnedTo(q, N + 1, L, w)
           PROVE  EarnedTo(r, N + 1, L, w)
      <3> SUFFICES ASSUME NEW i \in DOMAIN q, NEW s \in Lookers, r[i].visits[s] # 0,
                          NEW t \in L, t < N + 1, Reaches(r, i, t)
                   PROVE  r[i].visits[s] <= w[s][t]
        BY <2>11, KeysKeep DEF EarnedTo
      <3>1. i \in 1..Len(q) /\ Reaches(q, i, t) /\ t \in 1..N
        BY <1>1, <1>2, <2>11, KeysKeep
      <3>2. r[i].visits = v(i)
        BY <2>10, <3>1
      <3>3. CASE q[i].visits[s] # 0
        <4>1. v(i)[s] = q[i].visits[s]
          BY <2>8, <3>1, <3>3
        <4> QED BY <2>12, <3>1, <3>2, <3>3, <4>1 DEF EarnedTo
      <3>4. CASE q[i].visits[s] = 0
        <4>1. carries(i, s) /\ v(i)[s] = P!Min(ages(i, s))
          BY <2>8, <3>1, <3>2, <3>4
        <4>2. t \in here(i)
          <5>1. P!LocatedAt(q, t) = i
            BY <2>12, <3>1, LocatedSorted
          <5> QED BY <2>2, <5>1
        <4>3. v(i)[s] <= was(t)[s] /\ was(t)[s] # 0
          BY <2>7, <4>1, <4>2
        <4> DEFINE k == P!LocatedAt(before, t)
        <4>4. k \in DOMAIN before /\ Reaches(before, k, t)
          <5>1. before[1].lo <= t
            BY <1>4, <2>12 DEF Leads
          <5> QED BY <1>4, <2>12, <3>1, <5>1, LocatedIn, LocatedSorted
        <4>5. was(t)[s] = before[k].visits[s]
          BY <2>3
        <4> HIDE DEF k
        <4>6. was(t)[s] <= w[s][t]
          BY <2>12, <4>3, <4>4, <4>5 DEF EarnedTo
        <4>7. v(i)[s] \in Int /\ was(t)[s] \in Int /\ w[s][t] \in Int
          <5>1. v(i)[s] \in 0..n
            BY <2>9, <3>1
          <5>2. was(t)[s] \in 0..n
            BY <2>4
          <5>3. w[s] \in [1..N -> Nat]
            OBVIOUS
          <5>4. w[s][t] \in Nat
            BY <3>1, <5>3
          <5> QED BY <5>1, <5>2, <5>4
        <4> QED BY <3>2, <4>3, <4>6, <4>7
      <3> QED BY <3>3, <3>4
    <2> HIDE DEF L
    <2> QED BY <1>4, <2>11, <2>12 DEF r, L
  <1> QED BY <1>3, <1>4

\* plan_partitions, for a ledger that is cut anew.
LEMMA CutAnewShape ==
    ASSUME P!PartitionsAssumption, NEW n \in Nat, NEW before \in Seq(Parts(n)), NEW d
    PROVE  LET r == P!CutAnew(before, d)
               L == P!Living(d)
           IN  /\ r \in Seq(Parts(n))
               /\ SortedTo(before, N + 1) /\ Leads(before, L) =>
                     /\ SortedTo(r, N + 1) /\ Leads(r, L)
                     /\ \A w \in [Lookers -> [1..N -> Nat]] :
                           /\ before # <<>> => Covered(before, L)
                           /\ EarnedTo(before, N + 1, L, w)
                           => EarnedTo(r, N + 1, L, w)
  <1> DEFINE L == P!Living(d)
             built == P!Chunks(L)
             q == P!Refreshed(built, before)
             c == P!Carried(q, before, d)
             r == P!Merged(c)
  <1>1. L \in SUBSET (1..N)
    BY LivingIn
  <1>2. /\ built \in Seq(Parts(n)) /\ (built = <<>> <=> L = {}) /\ SortedTo(built, N + 1)
        /\ L # {} => \A t \in L : built[1].lo <= t
    <2> HIDE DEF L
    <2> QED BY <1>1, ChunksShape
  <1>3. /\ q \in Seq(Parts(n))
        /\ built = <<>> => SameKeys(before, q)
        /\ built # <<>> => SameKeys(built, q)
        /\ built # <<>> => \A i \in 1..Len(built) :
                              q[i].visits = P!InheritedOf(Met(before, built[i]))
    <2> HIDE DEF built
    <2> QED BY <1>2, RefreshedIs
  <1>4. c \in Seq(Parts(n)) /\ SameKeys(q, c)
    <2> HIDE DEF q
    <2> QED BY <1>3, CarriedShape
  <1>5. r \in Seq(Parts(n))
    <2> HIDE DEF c
    <2> QED BY <1>4, MergedShape
  <1>6. P!CutAnew(before, d) = r
    BY DEF P!CutAnew
  <1>7. ASSUME SortedTo(before, N + 1), Leads(before, L)
        PROVE  /\ SortedTo(r, N + 1) /\ Leads(r, L)
               /\ \A w \in [Lookers -> [1..N -> Nat]] :
                     (before # <<>> => Covered(before, L)) /\ EarnedTo(before, N + 1, L, w)
                        => EarnedTo(r, N + 1, L, w)
    <2> HIDE DEF L, built, q, c, r
    <2>1. Leads(built, L)
      BY <1>2 DEF Leads
    <2>2. SortedTo(q, N + 1) /\ Leads(q, L)
      BY <1>2, <1>3, <1>7, <2>1, KeysKeep
    <2>3. SortedTo(c, N + 1) /\ Leads(c, L)
      BY <1>3, <1>4, <2>2, KeysKeep
    <2>4. DoneTo(c, Len(c), r) /\ (r = <<>> <=> c = <<>>)
      BY <1>4, <2>3, MergedShape DEF r
    <2>5. /\ SortedTo(r, N + 1) /\ Leads(r, L)
          /\ \A w \in [Lookers -> [1..N -> Nat]] :
                EarnedTo(c, N + 1, L, w) => EarnedTo(r, N + 1, L, w)
      BY <1>1, <1>4, <1>5, <2>3, <2>4, DoneAll
    <2>6. ASSUME NEW w \in [Lookers -> [1..N -> Nat]],
                 before # <<>> => Covered(before, L), EarnedTo(before, N + 1, L, w)
          PROVE  EarnedTo(c, N + 1, L, w)
      <3>1. EarnedTo(q, N + 1, L, w)
        <4>1. CASE before # <<>>
          BY <1>1, <1>7, <2>6, <4>1, RefreshedEarned DEF q, built
        <4>2. CASE before = <<>> /\ built # <<>>
          <5>1. DOMAIN before = {}
            BY <4>2
          <5>2. \A i \in 1..Len(built) : Met(before, built[i]) = {}
            BY <5>1 DEF Met
          <5>3. P!InheritedOf({}) = P!Unvisited
            BY InheritedIs
          <5>4. \A i \in 1..Len(built) : \A s \in Lookers : q[i].visits[s] = 0
            BY <1>3, <4>2, <5>2, <5>3 DEF P!Unvisited
          <5>5. DOMAIN q = 1..Len(built)
            BY <1>2, <1>3, <4>2, KeysKeep, PartsShape
          <5> QED BY <5>4, <5>5 DEF EarnedTo
        <4>3. CASE built = <<>>
          BY <1>2, <4>3 DEF EarnedTo
        <4> QED BY <4>1, <4>2, <4>3
      <3>2. /\ SortedTo(before, N + 1) /\ Leads(before, P!Living(d))
            /\ EarnedTo(before, N + 1, P!Living(d), w)
            /\ SortedTo(q, N + 1) /\ EarnedTo(q, N + 1, P!Living(d), w)
        BY <1>7, <2>2, <2>6, <3>1 DEF L
      <3>3. EarnedTo(P!Carried(q, before, d), N + 1, P!Living(d), w)
        BY <1>3, <3>2, CarriedShape
      <3> QED BY <3>3 DEF c, L
    <2> QED BY <2>5, <2>6
  <1> HIDE DEF r
  <1> QED BY <1>5, <1>6, <1>7 DEF L

\* plan_partitions: what a plan of a ledger is.
LEMMA PlannedShape ==
    ASSUME P!PartitionsAssumption, NEW n \in Nat, NEW before \in Seq(Parts(n)), NEW d
    PROVE  LET r == P!Planned(before, d)
               L == P!Living(d)
           IN  /\ r \in Seq(Parts(n))
               /\ SortedTo(before, N + 1) /\ Leads(before, L) =>
                     /\ SortedTo(r, N + 1) /\ Leads(r, L)
                     /\ \A S \in SUBSET (1..N), w \in [Lookers -> [1..N -> Nat]] :
                           EarnedTo(before, N + 1, S, w) => EarnedTo(r, N + 1, S, w)
  <1> DEFINE L == P!Living(d)
             c == P!Counted(before, L)
             q == P!SplitOutgrown(c, L)
             r == P!Merged(q)
  <1>1. L \in SUBSET (1..N)
    BY LivingIn
  <1>2. CASE before = <<>>
    <2>1. P!Planned(before, d) = P!CutAnew(<<>>, d)
      BY <1>2 DEF P!Planned
    <2>2. \A S, w : EarnedTo(<<>>, N + 1, S, w)
      BY DEF EarnedTo
    <2>3. SortedTo(<<>>, N + 1) /\ Leads(<<>>, L)
      BY DEF SortedTo, Leads
    <2>4. <<>> \in Seq(Parts(n)) /\ <<>> \in Seq(Parts(0))
      OBVIOUS
    <2>5. P!CutAnew(<<>>, d) \in Seq(Parts(n)) /\ P!CutAnew(<<>>, d) \in Seq(Parts(0))
      <3>1. \A k \in Nat : <<>> \in Seq(Parts(k)) => P!CutAnew(<<>>, d) \in Seq(Parts(k))
        BY CutAnewShape
      <3>2. 0 \in Nat
        OBVIOUS
      <3> QED BY <2>4, <3>1, <3>2
    <2>6. SortedTo(P!CutAnew(<<>>, d), N + 1) /\ Leads(P!CutAnew(<<>>, d), L)
      <3> HIDE DEF L
      <3> QED BY <2>3, <2>4, CutAnewShape DEF L
    <2>7. \A S, w : EarnedTo(P!CutAnew(<<>>, d), N + 1, S, w)
      <3>1. \A i \in DOMAIN P!CutAnew(<<>>, d), s \in Lookers :
               P!CutAnew(<<>>, d)[i].visits[s] \in 0..0
        <4>1. 0 \in Nat
          OBVIOUS
        <4> QED BY <2>5, <4>1, PartsShape
      <3>2. \A x \in 0..0 : x = 0
        OBVIOUS
      <3> QED BY <3>1, <3>2 DEF EarnedTo
    <2> QED BY <1>2, <2>1, <2>5, <2>6, <2>7
  <1>3. CASE before # <<>>
    <2>1. P!Planned(before, d) = r
      BY <1>3 DEF P!Planned
    <2>2. /\ c \in Seq(Parts(n)) /\ SameKeys(before, c)
          /\ \A i \in 1..Len(before) : c[i].visits = before[i].visits
      <3> HIDE DEF L
      <3> QED BY <1>1, CountedShape
    <2> HIDE DEF L, c
    <2>3. q \in Seq(Parts(n))
      BY <1>1, <2>2, SplitShape
    <2>4. r \in Seq(Parts(n))
      <3> HIDE DEF q
      <3> QED BY <2>3, MergedShape
    <2>5. ASSUME SortedTo(before, N + 1), Leads(before, L)
          PROVE  /\ SortedTo(r, N + 1) /\ Leads(r, L)
                 /\ \A S \in SUBSET (1..N), w \in [Lookers -> [1..N -> Nat]] :
                       EarnedTo(before, N + 1, S, w) => EarnedTo(r, N + 1, S, w)
      <3>1. SortedTo(c, N + 1) /\ Leads(c, L)
        BY <2>2, <2>5, KeysKeep
      <3>2. DoneTo(c, Len(c), q) /\ (q = <<>> <=> c = <<>>)
        BY <1>1, <2>2, <3>1, SplitShape
      <3> HIDE DEF q
      <3>3. /\ SortedTo(q, N + 1) /\ Leads(q, L)
            /\ \A S \in SUBSET (1..N), w \in [Lookers -> [1..N -> Nat]] :
                  EarnedTo(c, N + 1, S, w) => EarnedTo(q, N + 1, S, w)
        BY <2>2, <2>3, <3>1, <3>2, DoneAll
      <3>4. DoneTo(q, Len(q), r) /\ (r = <<>> <=> q = <<>>)
        BY <2>3, <3>3, MergedShape
      <3> HIDE DEF r
      <3>5. /\ SortedTo(r, N + 1) /\ Leads(r, L)
            /\ \A S \in SUBSET (1..N), w \in [Lookers -> [1..N -> Nat]] :
                  EarnedTo(q, N + 1, S, w) => EarnedTo(r, N + 1, S, w)
        BY <2>3, <2>4, <3>3, <3>4, DoneAll
      <3>6. \A S \in SUBSET (1..N), w \in [Lookers -> [1..N -> Nat]] :
               EarnedTo(before, N + 1, S, w) => EarnedTo(c, N + 1, S, w)
        BY <2>2, MarksKeep
      <3> QED BY <3>3, <3>5, <3>6
    <2> QED BY <2>1, <2>4, <2>5 DEF L
  <1> QED BY <1>2, <1>3

-----------------------------------------------------------------------------
\* What holds of a ledger: its types; without titles before the first key, its order,
\* and, if it is not cut anew over keys that say something else, what its marks say.

PartsTyped ==
    /\ stock \in [1..N -> States] /\ now \in 0..MAX_RUNS
    /\ ledger \in Seq(Parts(now)) /\ looked \in [Lookers -> [1..N -> Nat]]

PartsSorted == ~EARLY => SortedTo(ledger, N + 1) /\ Leads(ledger, P!Living(stock))

PartsEarned == ~EARLY /\ ~ANYTIME => EarnedTo(ledger, N + 1, P!Living(stock), looked)

PartsInv == PartsTyped /\ PartsSorted /\ PartsEarned

LEMMA PartsInit == ASSUME P!PartitionsAssumption, P!Init PROVE PartsInv
  <1>1. stock = [t \in 1..N |-> "none"] /\ ledger = <<>> /\ now = 0
        /\ looked = [s \in Lookers |-> [t \in 1..N |-> 0]]
    BY Intervals DEF P!Init
  <1>2. MAX_RUNS \in Nat
    BY DEF P!PartitionsAssumption
  <1>3. now \in 0..MAX_RUNS
    BY <1>1, <1>2
  <1>4. "none" \in States
    BY DEF States
  <1>5. stock \in [1..N -> States]
    BY <1>1, <1>4
  <1>6. looked \in [Lookers -> [1..N -> Nat]]
    BY <1>1
  <1>7. ledger \in Seq(Parts(now))
    BY <1>1
  <1>8. DOMAIN ledger = {}
    BY <1>1
  <1>9. SortedTo(ledger, N + 1) /\ Leads(ledger, P!Living(stock))
        /\ EarnedTo(ledger, N + 1, P!Living(stock), looked)
    BY <1>1, <1>8 DEF SortedTo, Leads, EarnedTo
  <1> QED BY <1>3, <1>5, <1>6, <1>7, <1>9 DEF PartsInv, PartsTyped, PartsSorted, PartsEarned

LEMMA LaterParts ==
    ASSUME NEW n \in Nat, NEW q \in Seq(Parts(n)) PROVE q \in Seq(Parts(n + 1))
  <1>1. 0..n \in SUBSET (0..(n + 1))
    OBVIOUS
  <1>2. ASSUME NEW p \in Parts(n) PROVE p \in Parts(n + 1)
    <2>1. [Lookers -> 0..n] \in SUBSET [Lookers -> 0..(n + 1)]
      BY <1>1
    <2> QED BY <2>1 DEF Parts
  <1> QED BY <1>2

LEMMA FreshIs ==
    ASSUME P!PartitionsAssumption, NEW added \in P!Fresh
    PROVE  added \in SUBSET (1..N) /\ \A t \in added : stock[t] = "none"
  <1>1. added \in SUBSET {t \in P!Headings : stock[t] = "none"}
    BY DEF P!Fresh, P!kSubset
  <1> QED BY <1>1, Intervals

\* The bound on the titles that come keeps the first key before them all.
LEMMA StaysFirst ==
    ASSUME P!PartitionsAssumption, ~EARLY, NEW n \in Nat, NEW q \in Seq(Parts(n)),
           SortedTo(q, N + 1), NEW S \in SUBSET (1..N), Leads(q, S),
           NEW added \in SUBSET (1..N), P!NotBefore(q, added)
    PROVE  Leads(q, S \cup added)
  <1>1. CASE q = <<>>
    BY <1>1 DEF Leads
  <1>2. CASE q # <<>>
    <2>1. /\ Len(q) \in Nat /\ DOMAIN q = 1..Len(q) /\ 1 \in 1..Len(q)
          /\ \A i \in 1..Len(q) : q[i].lo \in 1..N
      BY <1>2, PartsShape
    <2>2. \A i \in 1..Len(q) : q[i].lo \in Int
      BY <2>1
    <2>3. ASSUME NEW t \in added PROVE q[1].lo <= t
      <3>1. PICK i \in 1..Len(q) : q[i].lo <= t
        BY <1>2, <2>1 DEF P!NotBefore
      <3>2. i = 1 \/ 1 < i
        BY <2>1
      <3>3. 1 < i => q[1].lo < q[i].lo
        BY <2>1 DEF SortedTo
      <3>4. t \in Int
        OBVIOUS
      <3> QED BY <2>1, <2>2, <3>1, <3>2, <3>3, <3>4
    <2> QED BY <2>3 DEF Leads
  <1> QED BY <1>1, <1>2

LEMMA AiRunKeeps ==
    ASSUME P!PartitionsAssumption, PartsInv, NEW s \in Lookers, NEW added \in P!Fresh,
           NEW i \in 0..Len(P!Planned(ledger, stock)), NEW removed,
           P!AiRun(P!Planned(ledger, stock), s, i, added, removed)
    PROVE  PartsInv'
  <1> DEFINE parts == P!Planned(ledger, stock)
             L == P!Living(stock)
             shown == IF parts = <<>> THEN L ELSE P!Members(P!Located(parts), i, L)
             next == [t \in 1..N |-> IF t \in removed THEN "gone"
                                     ELSE IF t \in added \cup shown THEN "seen" ELSE stock[t]]
             q == [k \in DOMAIN parts |->
                      IF k = i THEN P!Visited(parts[k], s, now') ELSE parts[k]]
  <1>1. /\ stock \in [1..N -> States] /\ now \in 0..MAX_RUNS /\ MAX_RUNS \in Nat
        /\ ledger \in Seq(Parts(now)) /\ looked \in [Lookers -> [1..N -> Nat]]
    BY DEF PartsInv, PartsTyped, P!PartitionsAssumption
  <1>2. now \in Nat
    BY <1>1
  <1>3. parts \in Seq(Parts(now))
    BY <1>1, <1>2, PlannedShape
  <1>4. /\ now < MAX_RUNS /\ now' = now + 1
        /\ IF parts = <<>> THEN i = 0 ELSE i \in DOMAIN parts
        /\ P!NotBefore(parts, added) /\ removed \subseteq shown
        /\ stock' = next
        /\ looked' = [r \in Lookers |-> [t \in 1..N |->
                         IF t \in added \/ (r = s /\ t \in shown) THEN now' ELSE looked[r][t]]]
        /\ ledger' = P!Counted(q, P!Living(next))
    BY Intervals DEF P!AiRun
  <1>5. L \in SUBSET (1..N) /\ \A t \in 1..N : t \in L <=> stock[t] \in {"new", "seen"}
    BY LivingIn
  <1>6. added \in SUBSET (1..N) /\ \A t \in added : stock[t] = "none"
    BY FreshIs
  <1>7. shown \in SUBSET L
    BY <1>5, MembersAre
  <1>8. now' \in 0..MAX_RUNS /\ now' \in Nat
    BY <1>1, <1>4
  <1> HIDE DEF parts, shown, L
  <1>9. stock' \in [1..N -> States]
    <2>1. {"gone", "seen"} \in SUBSET States /\ \A t \in 1..N : stock[t] \in States
      BY <1>1 DEF States
    <2> QED BY <1>4, <2>1
  <1>10. \A t \in 1..N : stock'[t] = IF t \in removed THEN "gone"
                                     ELSE IF t \in added \cup shown THEN "seen" ELSE stock[t]
    BY <1>4
  <1>11. looked' \in [Lookers -> [1..N -> Nat]]
    <2>1. \A r \in Lookers, t \in 1..N : looked[r][t] \in Nat
      BY <1>1
    <2> QED BY <1>4, <1>8, <2>1
  <1>12. \A r \in Lookers, t \in 1..N :
            looked'[r][t] = IF t \in added \/ (r = s /\ t \in shown) THEN now' ELSE looked[r][t]
    BY <1>4
  <1> HIDE DEF next
  <1>13. DOMAIN parts = 1..Len(parts) /\ Len(parts) \in Nat
         /\ \A k \in 1..Len(parts) : parts[k] \in Parts(now)
    BY <1>2, <1>3, PartsShape
  <1>14. ASSUME NEW k \in 1..Len(parts)
         PROVE  /\ q[k] \in Parts(now') /\ q[k].lo = parts[k].lo /\ q[k].hi = parts[k].hi
                /\ \A r \in Lookers :
                      q[k].visits[r] = IF k = i /\ r = s THEN now' ELSE parts[k].visits[r]
    <2>1. parts[k] \in Parts(now) /\ parts[k] \in Parts(now')
      <3>1. <<parts[k]>> \in Seq(Parts(now))
        BY <1>13
      <3>2. <<parts[k]>> \in Seq(Parts(now'))
        BY <1>2, <1>4, <3>1, LaterParts
      <3>3. <<parts[k]>>[1] = parts[k] /\ 1 \in 1..Len(<<parts[k]>>)
        OBVIOUS
      <3> QED BY <1>13, <3>2, <3>3
    <2>2. q[k] = IF k = i THEN P!Visited(parts[k], s, now') ELSE parts[k]
      BY <1>13
    <2>3. parts[k].visits \in [Lookers -> 0..now']
      BY <2>1 DEF Parts
    <2> DEFINE v == [parts[k].visits EXCEPT ![s] = now']
    <2>4. v \in [Lookers -> 0..now']
          /\ \A r \in Lookers : v[r] = IF r = s THEN now' ELSE parts[k].visits[r]
      <3>1. now' \in 0..now'
        BY <1>8
      <3> QED BY <2>3, <3>1
    <2>5. P!Visited(parts[k], s, now') = [parts[k] EXCEPT !.visits = v]
      BY <2>1 DEF P!Visited, Parts
    <2> HIDE DEF v, q
    <2>6. CASE k = i
      <3>1. q[k] = [parts[k] EXCEPT !.visits = v]
        BY <2>2, <2>5, <2>6
      <3>2. /\ q[k] = [lo |-> parts[k].lo, hi |-> parts[k].hi, count |-> parts[k].count,
                       visits |-> v]
            /\ parts[k].lo \in 1..N /\ parts[k].hi \in 1..N /\ parts[k].count \in Nat
        BY <2>1, <3>1 DEF Parts
      <3>3. q[k] \in Parts(now')
        BY <2>4, <3>2 DEF Parts
      <3>4. q[k].lo = parts[k].lo /\ q[k].hi = parts[k].hi /\ q[k].visits = v
        BY <3>2
      <3> QED BY <2>4, <2>6, <3>3, <3>4
    <2>7. CASE k # i
      BY <2>1, <2>2, <2>7
    <2> QED BY <2>6, <2>7
  <1>15. q \in Seq(Parts(now')) /\ SameKeys(parts, q)
    <2>1. q = [k \in 1..Len(parts) |-> q[k]]
      BY <1>13
    <2> HIDE DEF q
    <2>2. q \in Seq(Parts(now')) /\ Len(q) = Len(parts)
      BY <1>13, <1>14, <2>1
    <2> QED BY <1>14, <2>2 DEF SameKeys
  <1> HIDE DEF q
  <1>16. P!Living(next) \in SUBSET (1..N) /\ P!Living(next) = P!Living(stock')
         /\ \A t \in P!Living(next) : t \in added \/ t \in L
    <2>1. P!Living(next) = P!Living(stock')
      BY <1>4
    <2>2. P!Living(next) \in SUBSET (1..N)
          /\ \A t \in 1..N : t \in P!Living(next) <=> next[t] \in {"new", "seen"}
      BY LivingIn
    <2>3. ASSUME NEW t \in P!Living(next), t \notin added PROVE t \in L
      <3>1. t \in 1..N /\ stock'[t] \in {"new", "seen"}
        BY <1>4, <2>2
      <3>2. t \notin removed
        BY <1>10, <3>1
      <3>3. t \notin shown => stock'[t] = stock[t]
        BY <1>10, <2>3, <3>1, <3>2
      <3> QED BY <1>5, <1>7, <3>1, <3>3
    <2> QED BY <2>1, <2>2, <2>3
  <1> PICK M : M = P!Living(next)
    OBVIOUS
  <1>17. /\ ledger' \in Seq(Parts(now')) /\ SameKeys(q, ledger')
         /\ \A k \in 1..Len(q) : ledger'[k].visits = q[k].visits
    BY <1>4, <1>8, <1>15, <1>16, CountedShape
  <1>18. PartsTyped'
    BY <1>8, <1>9, <1>11, <1>17 DEF PartsTyped
  <1>19. ASSUME ~EARLY
         PROVE  /\ SortedTo(parts, N + 1) /\ Leads(parts, L)
                /\ SortedTo(q, N + 1) /\ Leads(q, M)
    <2>1. SortedTo(parts, N + 1) /\ Leads(parts, L)
      BY <1>1, <1>2, <1>19, PlannedShape DEF PartsInv, PartsSorted, parts, L
    <2>2. Leads(parts, L \cup added)
      BY <1>2, <1>3, <1>4, <1>5, <1>6, <1>19, <2>1, StaysFirst
    <2>3. Leads(parts, M)
      BY <1>16, <2>2 DEF Leads
    <2> QED BY <1>2, <1>3, <1>8, <1>15, <2>1, <2>3, KeysKeep
  <1>20. ASSUME ~EARLY PROVE SortedTo(ledger', N + 1) /\ Leads(ledger', M)
    BY <1>8, <1>15, <1>17, <1>19, <1>20, KeysKeep
  <1>21. ASSUME ~EARLY, ~ANYTIME PROVE EarnedTo(q, N + 1, M, looked')
    <2>1. EarnedTo(parts, N + 1, L, looked)
      BY <1>1, <1>2, <1>5, <1>21, PlannedShape
         DEF PartsInv, PartsSorted, PartsEarned, parts, L
    <2>2. SUFFICES ASSUME NEW k \in 1..Len(parts), NEW r \in Lookers, q[k].visits[r] # 0,
                          NEW t \in M, t < N + 1, Reaches(q, k, t)
                   PROVE  q[k].visits[r] <= looked'[r][t]
      BY <1>13, <1>15, <1>2, <1>3, <1>8, KeysKeep DEF EarnedTo
    <2>3. t \in 1..N /\ (t \in added \/ t \in L) /\ Reaches(parts, k, t)
      <3>1. t \in 1..N /\ (t \in added \/ t \in L)
        BY <1>16
      <3>2. \A j \in DOMAIN parts : \A u : Reaches(q, j, u) => Reaches(parts, j, u)
        BY <1>2, <1>3, <1>8, <1>15, KeysKeep
      <3> QED BY <1>13, <2>2, <3>1, <3>2
    <2>4. q[k].visits[r] \in 0..now'
      <3>1. q[k].visits \in [Lookers -> 0..now']
        BY <1>14 DEF Parts
      <3> QED BY <3>1
    <2>5. q[k].visits[r] <= now'
      BY <1>8, <2>4
    <2>6. CASE t \in added
      BY <1>12, <2>3, <2>5, <2>6
    <2>7. CASE t \in L /\ k = i /\ r = s
      <3>1. P!LocatedAt(parts, t) = i
        BY <1>2, <1>3, <1>13, <1>19, <1>21, <2>3, <2>7, LocatedSorted
      <3>2. t \in shown
        <4>1. parts # <<>>
          BY <1>13
        <4> QED BY <1>5, <2>7, <3>1, <4>1, MembersAre DEF shown
      <3> QED BY <1>12, <2>3, <2>5, <2>7, <3>2
    <2>8. CASE t \in L /\ ~(k = i /\ r = s)
      <3>1. q[k].visits[r] = parts[k].visits[r]
        BY <1>14, <2>8
      <3>2. parts[k].visits[r] <= looked[r][t]
        BY <1>13, <2>1, <2>2, <2>3, <2>8, <3>1 DEF EarnedTo
      <3>3. looked'[r][t] = now' \/ looked'[r][t] = looked[r][t]
        BY <1>12, <2>3
      <3> QED BY <2>5, <3>1, <3>2, <3>3
    <2> QED BY <2>3, <2>6, <2>7, <2>8
  <1>22. ASSUME ~EARLY, ~ANYTIME PROVE EarnedTo(ledger', N + 1, M, looked')
    BY <1>8, <1>15, <1>16, <1>17, <1>21, <1>22, MarksKeep
  <1> QED BY <1>16, <1>18, <1>20, <1>22 DEF PartsInv, PartsSorted, PartsEarned

LEMMA RosterRunKeeps ==
    ASSUME P!PartitionsAssumption, PartsInv, NEW added \in P!Fresh, P!RosterRun(added)
    PROVE  PartsInv'
  <1> DEFINE L == P!Living(stock)
             next == [t \in 1..N |-> IF t \in added THEN "new" ELSE stock[t]]
             M == P!Living(next)
             q == P!Planned(ledger, stock)
             r == P!Planned(q, next)
  <1>1. /\ stock \in [1..N -> States] /\ now \in 0..MAX_RUNS /\ MAX_RUNS \in Nat
        /\ ledger \in Seq(Parts(now)) /\ looked \in [Lookers -> [1..N -> Nat]]
    BY DEF PartsInv, PartsTyped, P!PartitionsAssumption
  <1>2. now \in Nat
    BY <1>1
  <1>3. /\ now < MAX_RUNS /\ now' = now + 1
        /\ P!NotBefore(q, added)
        /\ stock' = next /\ looked' = looked
        /\ ledger' = P!ClearedWhereUnseen(r, next)
    BY Intervals DEF P!RosterRun
  <1>4. now' \in 0..MAX_RUNS /\ now' \in Nat
    BY <1>1, <1>3
  <1>5. added \in SUBSET (1..N) /\ \A t \in added : stock[t] = "none"
    BY FreshIs
  <1>6. q \in Seq(Parts(now))
    BY <1>1, <1>2, PlannedShape
  <1>7. stock' \in [1..N -> States]
    <2>1. "new" \in States /\ \A t \in 1..N : stock[t] \in States
      BY <1>1 DEF States
    <2> QED BY <1>3, <2>1
  <1>8. /\ L \in SUBSET (1..N) /\ M \in SUBSET (1..N) /\ M \in SUBSET (L \cup added)
        /\ \A t \in M : next[t] # "new" => t \in L
    <2>1. L \in SUBSET (1..N) /\ \A t \in 1..N : t \in L <=> stock[t] \in {"new", "seen"}
      BY LivingIn
    <2>2. M \in SUBSET (1..N) /\ \A t \in 1..N : t \in M <=> next[t] \in {"new", "seen"}
      <3> HIDE DEF next
      <3> QED BY LivingIn
    <2>3. \A t \in 1..N : next[t] = IF t \in added THEN "new" ELSE stock[t]
      OBVIOUS
    <2> HIDE DEF L, M, next
    <2> QED BY <2>1, <2>2, <2>3
  <1> HIDE DEF q, next
  <1>9. r \in Seq(Parts(now)) /\ r \in Seq(Parts(now'))
    <2>1. r \in Seq(Parts(now))
      BY <1>2, <1>6, PlannedShape
    <2> HIDE DEF r
    <2> QED BY <1>2, <1>3, <2>1, LaterParts
  <1>10. ledger' \in Seq(Parts(now')) /\ SameKeys(r, ledger')
    <2> HIDE DEF r
    <2> QED BY <1>3, <1>4, <1>9, ClearedShape
  <1>11. PartsTyped'
    BY <1>1, <1>3, <1>4, <1>7, <1>10 DEF PartsTyped
  <1>12. M = P!Living(stock')
    BY <1>3
  <1>13. ASSUME ~EARLY
         PROVE  /\ SortedTo(q, N + 1) /\ Leads(q, M)
                /\ SortedTo(r, N + 1) /\ Leads(r, M)
    <2>1. SortedTo(q, N + 1) /\ Leads(q, L)
      BY <1>1, <1>2, <1>13, PlannedShape DEF PartsInv, PartsSorted, q
    <2> HIDE DEF L, M
    <2>2. Leads(q, L \cup added)
      BY <1>2, <1>3, <1>5, <1>6, <1>8, <1>13, <2>1, StaysFirst
    <2>3. Leads(q, M)
      BY <1>8, <2>2 DEF Leads
    <2>4. SortedTo(r, N + 1) /\ Leads(r, M)
      BY <1>2, <1>6, <2>1, <2>3, PlannedShape DEF M
    <2> QED BY <2>1, <2>3, <2>4
  <1>14. ASSUME ~EARLY PROVE SortedTo(ledger', N + 1) /\ Leads(ledger', M)
    <2> HIDE DEF r, M
    <2> QED BY <1>4, <1>9, <1>10, <1>13, <1>14, KeysKeep
  <1>15. ASSUME ~EARLY, ~ANYTIME PROVE EarnedTo(ledger', N + 1, M, looked')
    <2>1. EarnedTo(q, N + 1, L, looked)
      BY <1>1, <1>2, <1>8, <1>15, PlannedShape DEF PartsInv, PartsSorted, PartsEarned, q
    <2> HIDE DEF L
    <2>2. EarnedTo(r, N + 1, L, looked)
      BY <1>1, <1>2, <1>6, <1>8, <1>13, <1>15, <2>1, PlannedShape
    <2> HIDE DEF r
    <2>3. /\ SortedTo(r, N + 1) /\ Leads(r, P!Living(next))
          /\ \A t \in P!Living(next) : next[t] # "new" => t \in L
      BY <1>8, <1>13, <1>15
    <2>4. EarnedTo(P!ClearedWhereUnseen(r, next), N + 1, P!Living(next), looked)
      BY <1>4, <1>8, <1>9, <2>2, <2>3, ClearedShape
    <2> QED BY <1>3, <2>4
  <1> HIDE DEF M
  <1> QED BY <1>11, <1>12, <1>14, <1>15 DEF PartsInv, PartsSorted, PartsEarned

LEMMA RepartitionKeeps ==
    ASSUME P!PartitionsAssumption, PartsInv, P!Repartition PROVE PartsInv'
  <1> DEFINE L == P!Living(stock)
             r == P!CutAnew(ledger, stock)
  <1>1. /\ stock \in [1..N -> States] /\ now \in 0..MAX_RUNS /\ MAX_RUNS \in Nat
        /\ ledger \in Seq(Parts(now)) /\ looked \in [Lookers -> [1..N -> Nat]]
    BY DEF PartsInv, PartsTyped, P!PartitionsAssumption
  <1>2. now \in Nat
    BY <1>1
  <1>3. /\ now < MAX_RUNS /\ now' = now + 1
        /\ ledger # <<>> => ANYTIME \/ P!KeysCover
        /\ ledger' = r /\ stock' = stock /\ looked' = looked
    BY DEF P!Repartition
  <1>4. now' \in 0..MAX_RUNS /\ now' \in Nat
    BY <1>1, <1>3
  <1>5. r \in Seq(Parts(now'))
    <2>1. r \in Seq(Parts(now))
      BY <1>1, <1>2, CutAnewShape
    <2> HIDE DEF r
    <2> QED BY <1>2, <1>3, <2>1, LaterParts
  <1>6. PartsTyped'
    BY <1>1, <1>3, <1>4, <1>5 DEF PartsTyped
  <1>7. L = P!Living(stock')
    BY <1>3
  <1>8. ASSUME ~EARLY PROVE SortedTo(r, N + 1) /\ Leads(r, L)
    BY <1>1, <1>2, <1>8, CutAnewShape DEF PartsInv, PartsSorted
  <1>9. ASSUME ~EARLY, ~ANYTIME PROVE EarnedTo(r, N + 1, L, looked)
    <2>1. ledger # <<>> => Covered(ledger, L)
      BY <1>3, <1>9 DEF P!KeysCover, Covered
    <2> QED BY <1>1, <1>2, <1>9, <2>1, CutAnewShape DEF PartsInv, PartsSorted, PartsEarned
  <1> HIDE DEF r, L
  <1> QED BY <1>3, <1>6, <1>7, <1>8, <1>9 DEF PartsInv, PartsSorted, PartsEarned

LEMMA PartsStep ==
    ASSUME P!PartitionsAssumption, PartsInv, [P!Next]_P!vars PROVE PartsInv'
  <1>1. CASE UNCHANGED P!vars
    <2>1. stock' = stock /\ ledger' = ledger /\ looked' = looked /\ now' = now
      BY <1>1 DEF P!vars
    <2> QED BY <2>1 DEF PartsInv, PartsTyped, PartsSorted, PartsEarned
  <1>2. ASSUME NEW s \in Lookers, NEW added \in P!Fresh,
               NEW i \in 0..Len(P!Planned(ledger, stock)), NEW removed,
               P!AiRun(P!Planned(ledger, stock), s, i, added, removed)
        PROVE  PartsInv'
    BY <1>2, AiRunKeeps
  <1>3. ASSUME NEW added \in P!Fresh, P!RosterRun(added) PROVE PartsInv'
    BY <1>3, RosterRunKeeps
  <1>4. CASE P!Repartition
    BY <1>4, RepartitionKeeps
  <1> QED BY <1>1, <1>2, <1>3, <1>4 DEF P!Next

LEMMA PartsInvariant == ASSUME P!PartitionsAssumption PROVE P!Spec => []PartsInv
  <1>1. P!Init => PartsInv
    BY PartsInit
  <1>2. PartsInv /\ [P!Next]_P!vars => PartsInv'
    BY PartsStep
  <1> QED BY <1>1, <1>2, PTL DEF P!Spec

\* Every partition begins and ends at a title, and no mark is of a run to come
\* (src/app/partition.py).
THEOREM PartitionsTyped == ASSUME P!PartitionsAssumption PROVE P!Spec => []P!TypeOK
  <1>1. ASSUME PartsInv PROVE P!TypeOK
    <2>1. now \in 0..MAX_RUNS /\ MAX_RUNS \in Nat /\ now \in Nat
      BY <1>1 DEF PartsInv, PartsTyped, P!PartitionsAssumption
    <2>2. \A i \in DOMAIN ledger : /\ ledger[i].lo \in 1..N /\ ledger[i].hi \in 1..N
                                   /\ ledger[i].visits \in [Lookers -> 0..now]
      BY <1>1, <2>1, PartsShape DEF PartsInv, PartsTyped
    <2> QED BY <1>1, <2>1, <2>2, Intervals DEF PartsInv, PartsTyped, States, P!TypeOK
  <1> QED BY <1>1, PartsInvariant, PTL

\* Every title has one partition, whatever was split, merged and cut anew, and the query
\* for a partition leaves out nothing the locator puts there (src/app/partition.py,
\* _title_locator, _title_narrowing), as long as no title comes before the first key.
THEOREM OneEach ==
    ASSUME P!PartitionsAssumption, ~EARLY PROVE P!Spec => []P!OnePartitionEach
  <1>1. ASSUME PartsInv PROVE P!OnePartitionEach
    <2>1. /\ now \in Nat /\ ledger \in Seq(Parts(now)) /\ SortedTo(ledger, N + 1)
      BY <1>1 DEF PartsInv, PartsTyped, PartsSorted, P!PartitionsAssumption
    <2>2. /\ Len(ledger) \in Nat /\ DOMAIN ledger = 1..Len(ledger)
          /\ \A i \in 1..Len(ledger) : ledger[i].lo \in 1..N
      BY <2>1, PartsShape
    <2>3. \A i, j \in 1..Len(ledger) : i < j => ledger[i].lo < ledger[j].lo
      BY <2>1, <2>2 DEF SortedTo
    <2>4. \A i \in 1..Len(ledger) : ledger[i].lo \in Int
      BY <2>2
    <2>5. \A i, j \in 1..Len(ledger) : i < j \/ i = j \/ j < i
      BY <2>2
    <2>6. \A i, j \in 1..Len(ledger) : P!Precedes(ledger[i], ledger[j]) <=> i < j
      <3> SUFFICES ASSUME NEW i \in 1..Len(ledger), NEW j \in 1..Len(ledger)
                   PROVE  P!Precedes(ledger[i], ledger[j]) <=> i < j
        OBVIOUS
      <3>1. CASE i < j
        BY <2>3, <3>1 DEF P!Precedes
      <3>2. CASE i = j
        <4>1. ~P!Precedes(ledger[i], ledger[i])
          <5>1. \A p \in Parts(now) : p.lo \in Int /\ p.hi \in Int
            <6>1. \A p \in Parts(now) : p.lo \in 1..N /\ p.hi \in 1..N
              BY DEF Parts
            <6> QED BY <6>1
          <5>2. ledger[i] \in Parts(now)
            BY <2>1, PartsShape
          <5>3. ledger[i].lo \in Int /\ ledger[i].hi \in Int
            BY <5>1, <5>2
          <5> QED BY <5>3 DEF P!Precedes
        <4>2. ~(i < j)
          BY <2>2, <3>2
        <4> QED BY <3>2, <4>1, <4>2
      <3>3. CASE j < i
        <4>1. ledger[j].lo < ledger[i].lo /\ ~(i < j)
          BY <2>2, <2>3, <3>3
        <4>2. ~P!Precedes(ledger[i], ledger[j])
          BY <2>4, <4>1 DEF P!Precedes
        <4> QED BY <4>1, <4>2
      <3> QED BY <2>5, <3>1, <3>2, <3>3
    <2>7. ASSUME NEW t \in 1..N, ledger # <<>> PROVE P!Narrowed(ledger, P!LocatedAt(ledger, t), t)
      <3> DEFINE r == P!LocatedAt(ledger, t)
                 after == {j \in DOMAIN ledger : P!Precedes(ledger[r], ledger[j])}
      <3>1. r \in 1..Len(ledger)
        BY <2>1, <2>2, <2>7, LocatedIn
      <3>2. Reaches(ledger, r, t) \/ (r = 1 /\ ~(ledger[1].lo <= t))
        BY <2>1, <2>7, LocatedSorted
      <3> HIDE DEF r
      <3>3. ASSUME NEW j \in 1..Len(ledger), j < r PROVE t >= ledger[r].lo
        <4>1. r # 1
          BY <2>2, <3>3
        <4>2. ledger[r].lo <= t
          BY <3>2, <4>1 DEF Reaches
        <4> QED BY <2>4, <3>1, <4>2
      <3>4. ASSUME NEW j \in 1..Len(ledger), r < j PROVE t < ledger[j].lo
        <4>1. CASE Reaches(ledger, r, t)
          BY <2>2, <3>4, <4>1 DEF Reaches
        <4>2. CASE r = 1 /\ ~(ledger[1].lo <= t)
          <5>1. ledger[1].lo < ledger[j].lo
            BY <2>3, <3>1, <3>4, <4>2
          <5> QED BY <2>4, <3>1, <4>2, <5>1
        <4> QED BY <3>2, <4>1, <4>2
      <3>5. after # {} => P!Earliest(ledger, after) \in after
        <4>1. after \in SUBSET (1..Len(ledger))
          BY <2>2
        <4> HIDE DEF after
        <4> QED BY <2>1, <4>1, EarliestIs
      <3>6. after # {} => t < ledger[P!Earliest(ledger, after)].lo
        <4>1. \A j \in after : j \in 1..Len(ledger) /\ r < j
          BY <2>2, <2>6, <3>1
        <4> HIDE DEF after
        <4> QED BY <3>4, <3>5, <4>1
      <3>7. (\E j \in DOMAIN ledger : P!Precedes(ledger[j], ledger[r])) => t >= ledger[r].lo
        BY <2>2, <2>6, <3>1, <3>3
      <3>8. P!Narrowed(ledger, r, t)
        BY <3>6, <3>7 DEF P!Narrowed
      <3> QED BY <3>8 DEF r
    <2> QED BY <2>2, <2>5, <2>6, <2>7, Intervals DEF P!OnePartitionEach
  <1> QED BY <1>1, PartsInvariant, PTL

\* What was never looked at does not hide behind a mark (src/app/partition.py,
\* _inherited, carried_by_docs, cleared_where_unseen), as long as no title comes before
\* the first key and a list is cut anew while its keys say what they hold.
THEOREM PartitionMarks ==
    ASSUME P!PartitionsAssumption, ~EARLY, ~ANYTIME PROVE P!Spec => []P!MarkIsEarned
  <1>1. ASSUME PartsInv PROVE P!MarkIsEarned
    <2> DEFINE L == P!Living(stock)
    <2>1. /\ now \in Nat /\ ledger \in Seq(Parts(now))
          /\ SortedTo(ledger, N + 1) /\ Leads(ledger, L) /\ EarnedTo(ledger, N + 1, L, looked)
          /\ looked \in [Lookers -> [1..N -> Nat]]
      BY <1>1 DEF PartsInv, PartsTyped, PartsSorted, PartsEarned, P!PartitionsAssumption
    <2>2. L \in SUBSET (1..N)
      BY LivingIn
    <2>3. ASSUME NEW i \in DOMAIN ledger, NEW s \in Lookers, ledger[i].visits[s] # 0,
                 NEW t \in P!Members(P!Located(ledger), i, L)
          PROVE  looked[s][t] >= ledger[i].visits[s]
      <3>1. t \in L /\ P!LocatedAt(ledger, t) = i /\ t \in 1..N
        BY <2>2, MembersAre
      <3> HIDE DEF L
      <3>2. ledger # <<>>
        OBVIOUS
      <3>3. Reaches(ledger, i, t)
        <4>1. ledger[1].lo <= t
          BY <2>1, <3>1, <3>2 DEF Leads
        <4> QED BY <2>1, <3>1, <3>2, <4>1, LocatedSorted
      <3>4. t < N + 1
        BY <3>1, Intervals
      <3>5. ledger[i].visits[s] <= looked[s][t]
        BY <2>1, <2>3, <3>1, <3>3, <3>4 DEF EarnedTo
      <3>6. ledger[i].visits[s] \in Int /\ looked[s][t] \in Int
        <4>1. \A k \in DOMAIN ledger : \A x \in Lookers : ledger[k].visits[x] \in 0..now
          <5>1. now \in Nat /\ ledger \in Seq(Parts(now))
            BY <2>1
          <5>2. /\ DOMAIN ledger = 1..Len(ledger)
                /\ \A k \in 1..Len(ledger) : \A x \in Lookers : ledger[k].visits[x] \in 0..now
            BY <5>1, PartsShape
          <5> QED BY <5>2
        <4>2. ledger[i].visits[s] \in 0..now
          BY <4>1
        <4>3. looked[s] \in [1..N -> Nat]
          BY <2>1
        <4>4. looked[s][t] \in Nat
          BY <3>1, <4>3
        <4> QED BY <4>2, <4>4
      <3> QED BY <3>5, <3>6
    <2> QED BY <2>3 DEF P!MarkIsEarned
  <1> QED BY <1>1, PartsInvariant, PTL

-----------------------------------------------------------------------------
\* The machines side by side: each takes steps of its own or none.

LEMMA FilesSteps == MCSpec => F!Spec
  <1>1. MCInit => F!Init
    BY DEF MCInit
  <1>2. [MCNext]_<<machine, fVars, dVars, pVars>> => [F!Next]_F!vars
    BY DEF MCNext, fVars, F!vars
  <1> QED BY <1>1, <1>2, PTL DEF MCSpec, F!Spec

LEMMA DocumentsSteps == MCSpec => D!Spec
  <1>1. MCInit => D!Init
    BY DEF MCInit
  <1>2. [MCNext]_<<machine, fVars, dVars, pVars>> => [D!Next]_D!vars
    BY DEF MCNext, dVars, D!vars
  <1> QED BY <1>1, <1>2, PTL DEF MCSpec, D!Spec

LEMMA PartitionsSteps == MCSpec => P!Spec
  <1>1. MCInit => P!Init
    BY DEF MCInit
  <1>2. [MCNext]_<<machine, fVars, dVars, pVars>> => [P!Next]_P!vars
    BY DEF MCNext, pVars, P!vars
  <1> QED BY <1>1, <1>2, PTL DEF MCSpec, P!Spec

LEMMA EachAssumes == F!GenerationsAssumption /\ D!DocumentsAssumption
  BY ContentsAssumption

\* What is served, what can be gone back to and what was paid for outlive every bake,
\* rollback, deletion and rename (src/ingest/main.py, src/ingest/server.py): while
\* one request works beside the runs, and a collection has one name to go to.
THEOREM FilesKept == ASSUME OneThread, TwoNames PROVE MCSpec => FilesAreKept
  <1>1. F!Spec => []F!LinkResolves
    BY LinkNeverDangles, EachAssumes
  <1>2. F!Spec => []F!NeverUnserved
    BY ServedAlways, EachAssumes
  <1>3. F!Spec => []F!EarlierKept
    BY EarlierStays, EachAssumes
  <1>4. F!Spec => F!MaterialKept
    BY MaterialIsKept, EachAssumes
  <1> QED BY <1>1, <1>2, <1>3, <1>4, FilesSteps, PTL DEF FilesAreKept

\* What was decided about a document holds against every later answer
\* (src/app/collect.py, _stream_docs, held).
THEOREM DecisionsHold == MCSpec => DecidedStays
  <1>1. D!Spec => D!RemovedStaysRemoved
    BY RemovedStays, EachAssumes
  <1>2. D!Spec => D!LockHolds
    BY LocksAreKept, EachAssumes
  <1>3. D!Spec => D!FactOfAiStays
    BY FactsStay, EachAssumes
  <1> QED BY <1>1, <1>2, <1>3, DocumentsSteps DEF DecidedStays

\* An answer changes only what it is about (src/app/collect.py, drop_unseen_edits,
\* _reviewed, _incoming_urls).
THEOREM UnreadStays == MCSpec => UnreadIsLeftAlone
  <1>1. D!Spec => D!UnseenIsNotReplaced
    BY UnseenStays, EachAssumes
  <1>2. D!Spec => D!UnreviewedIsEarned
    BY ReviewIsEarned, EachAssumes
  <1>3. D!Spec => D!NoUrlTwice
    BY UrlsDiffer, EachAssumes
  <1> QED BY <1>1, <1>2, <1>3, DocumentsSteps DEF UnreadIsLeftAlone

\* Whichever machine moves, its state has its types (src/ingest, src/app/collect.py,
\* src/app/partition.py).
THEOREM ContentsTyped == MCSpec => []TypeOK
  <1>1. F!Spec => []F!TypeOK
    BY FilesTyped, ContentsAssumption
  <1>2. D!Spec => []D!TypeOK
    BY DocumentsTyped, ContentsAssumption
  <1>3. P!Spec => []P!TypeOK
    BY PartitionsTyped, ContentsAssumption
  <1>4. F!TypeOK /\ D!TypeOK /\ P!TypeOK => TypeOK
    BY DEF TypeOK
  <1> QED BY <1>1, <1>2, <1>3, <1>4, FilesSteps, DocumentsSteps, PartitionsSteps, PTL

\* Every title has one partition, and a mark says that its sweep looked at what lies in
\* it, through every split and join (src/app/partition.py), as long as no title comes
\* before the first key and a list is cut anew while its keys say what they hold.
THEOREM MarksAreTrue == ASSUME ~EARLY, ~ANYTIME PROVE MCSpec => []MarkIsEarned
  <1>1. P!Spec => []P!OnePartitionEach
    BY OneEach, ContentsAssumption
  <1>2. P!Spec => []P!MarkIsEarned
    BY PartitionMarks, ContentsAssumption
  <1>3. P!OnePartitionEach /\ P!MarkIsEarned => MarkIsEarned
    BY DEF MarkIsEarned
  <1> QED BY <1>1, <1>2, <1>3, PartitionsSteps, PTL

================================================================================
