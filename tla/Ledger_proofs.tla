------------------------------ MODULE Ledger_proofs ----------------------------
(***************************************************************************)
(* For any number of partitions, sweeps, clocks and troubles.  What the    *)
(* code loses in rare orders of events is named by Faults; each theorem    *)
(* leaves out only those that break what it states.                        *)
(***************************************************************************)
EXTENDS Ledger, Lists_proofs

Jobs == [phase : {"idle", "asked", "collecting", "streaming", "baking"},
         sweep : Sweeps \cup {NoSweep}, keys : Seq(Parts), focus : BOOLEAN,
         base : Ledgers, requeue : BOOLEAN, leftover : BOOLEAN]

\* What each phase of a run and each end of an undo record say.
ShapeInv ==
    /\ TypeOK
    /\ job \in Jobs /\ DOMAIN read = Clocks
    /\ job.phase = "collecting" => job.sweep \in Sweeps
    /\ job.leftover => job.phase = "baking"
    /\ job.phase \in {"collecting", "streaming", "baking"} => ~staged.full
    /\ def.focus.on => def.focus.sweep \in Sweeps
    /\ def.undo.job # "over" => def.undo.sweep # NoSweep
    /\ def.undo.job = "running" =>
          def.status = "ok" /\ job.phase \in {"streaming", "baking"} /\ ~job.leftover
    /\ \A c \in Clocks : read[c].got => Rewindable(read[c].def)

\* Answers are on their way only in a run that bakes, or in what one left.
MovingInv ==
    /\ \A s \in Sweeps, p \in Parts :
          answer[s][p] = "moving" => job.phase \in {"streaming", "baking"} \/ staged.full
    /\ def.undo.job = "running" =>
          \A p \in def.undo.visited : answer[def.undo.sweep][p] = "moving"

\* A row "the bake failed" is written once per record.
RowsInv == rows = 0 \/ (rows = 1 /\ def.status = "error")

\* Without "early_start": while a run asks or collects, nothing is to be moved back; what
\* is to be moved back with its marks waits for a clock, and no run goes on.
WaitsForClock ==
    /\ job.phase \in {"asked", "collecting"} => ~Rewindable(def)
    /\ def.undo.job = "failed" /\ def.undo.visited # {} =>
          def.status = "ok" /\ job.phase = "idle"

\* Without "focus_names": a focus names no partition.
FocusNamesNone ==
    /\ def.focus.on => def.focus.parts = {}
    /\ job.phase = "collecting" /\ job.focus => job.keys = <<>>

\* Of what a failed bake took along nothing is served or on its way.
FailedInv ==
    def.undo.job = "failed" =>
        \A p \in def.undo.visited : answer[def.undo.sweep][p] \in {"none", "lost"}

\* Marks whose answers are on their way are those of the run's undo record, or of material
\* that is left; a run starts from marks that are earned.
EarnedInv ==
    /\ MarksAreEarned
    /\ \A s \in Sweeps : \A p \in Marked(def.ledger, s) :
          answer[s][p] = "moving" =>
              \/ staged.full \/ job.leftover
              \/ def.undo.job = "running" /\ def.undo.sweep = s /\ p \in def.undo.visited
    /\ job.phase = "collecting" =>
          \A s \in Sweeps : \A p \in Marked(job.base, s) : answer[s][p] \in {"none", "served"}

\* A requeue is in the material only as long as it is still asked for or can come back.
RequeueInv ==
    /\ RequeueIsKept
    /\ job.phase = "collecting" => job.requeue = def.requeue
    /\ job.phase \in {"streaming", "baking"} /\ ~job.leftover /\ job.requeue /\ ~def.requeue =>
          def.undo.job = "running" /\ def.undo.requeue

Without(F) == Faults \cap F = {}

EarlyNamed == Without({"early_start"}) \/ Without({"focus_names"})
ForMarks == Without({"stop_download", "leftover_breaks", "early_start", "focus_names"})
ForRequeue == Without({"stop_download", "leftover_breaks", "early_start", "ask_meanwhile",
                       "redo_meanwhile"})

-----------------------------------------------------------------------------
\* What the operators of the ledger return.

LEMMA MarkedIsMembers ==
    ASSUME NEW L \in Ledgers, NEW s \in Sweeps
    PROVE  /\ L.seen[s] \in Seq(Parts)
           /\ Marked(L, s) = Members(L.seen[s])
           /\ Marked(L, s) \subseteq Parts
  <1>1. L.seen[s] \in Seq(Parts)
    BY DEF Ledgers
  <1>2. DOMAIN L.seen[s] = 1..Len(L.seen[s])
    BY <1>1
  <1>3. Members(L.seen[s]) \subseteq Parts
    BY <1>1 DEF Members
  <1> QED BY <1>1, <1>2, <1>3 DEF Marked, ToSet, Members

LEMMA ByKeyShape ==
    ASSUME NEW K \in SUBSET Parts
    PROVE  ByKey(K) \in Seq(Parts) /\ Members(ByKey(K)) = K
  <1> DEFINE all == [p \in Parts |-> p]
  <1>1. all \in Seq(Parts) /\ Members(all) = Parts
    <2>1. NPARTS \in Nat /\ Parts = 1..NPARTS
      BY PartsAssumption DEF Parts
    <2>2. all \in [1..NPARTS -> Parts] /\ DOMAIN all = 1..NPARTS
      BY <2>1
    <2>3. all \in Seq(Parts) /\ Len(all) = NPARTS
      BY <2>1, <2>2
    <2> HIDE DEF all
    <2>4. \A i \in 1..NPARTS : all[i] = i
      BY <2>1 DEF all
    <2> QED BY <2>1, <2>3, <2>4 DEF Members
  <1> HIDE DEF all
  <1>2. Kept(all, K) \in Seq(Parts) /\ Members(Kept(all, K)) = Members(all) \cap K
    BY <1>1, KeptShape
  <1> QED BY <1>1, <1>2 DEF ByKey, all

LEMMA PickShape ==
    ASSUME NEW L \in Ledgers, NEW s \in Sweeps
    PROVE  Pick(L, s, PER_RUN) \in Seq(Parts)
  <1> DEFINE rest    == Parts \ Marked(L, s)
             ordered == ByKey(rest) \o L.seen[s]
             of      == Kept(ordered, Pool(L, s))
             n       == IF PER_RUN < Len(of) THEN PER_RUN ELSE Len(of)
  <1>1. ByKey(rest) \in Seq(Parts)
    BY ByKeyShape
  <1>2. ordered \in Seq(Parts)
    BY <1>1, MarkedIsMembers, Joined
  <1> HIDE DEF ordered
  <1>3. of \in Seq(Parts)
    BY <1>2, KeptShape
  <1> HIDE DEF of
  <1>4. n \in 0..Len(of)
    BY <1>3, PartsAssumption
  <1>5. SubSeq(of, 1, n) \in Seq(Parts)
    BY <1>3, <1>4
  <1> QED BY <1>5 DEF Pick, of, ordered

LEMMA ForgetShape ==
    ASSUME NEW L \in Ledgers, NEW K, NEW s \in Sweeps
    PROVE  /\ ForgetVisits(L, K, s) \in Ledgers
           /\ \A t \in Sweeps :
                 Marked(ForgetVisits(L, K, s), t) =
                     IF t = s THEN Marked(L, s) \ K ELSE Marked(L, t)
  <1> DEFINE left == Kept(L.seen[s], Parts \ K)
             F    == ForgetVisits(L, K, s)
  <1>1. /\ left \in Seq(Parts)
        /\ Members(left) = Marked(L, s) \ K
    BY MarkedIsMembers, KeptShape
  <1>2. F = [L EXCEPT !.seen = [L.seen EXCEPT ![s] = left]]
    BY DEF ForgetVisits, Ledgers
  <1> HIDE DEF left, F
  <1>3. F \in Ledgers
    BY <1>1, <1>2 DEF Ledgers
  <1>4. \A t \in Sweeps : F.seen[t] = IF t = s THEN left ELSE L.seen[t]
    BY <1>2 DEF Ledgers
  <1>5. \A t \in Sweeps : Marked(F, t) = IF t = s THEN Members(left) ELSE Marked(L, t)
    BY <1>3, <1>4, MarkedIsMembers
  <1> QED BY <1>1, <1>3, <1>5 DEF F

LEMMA MarkShape ==
    ASSUME NEW L \in Ledgers, NEW K \in SUBSET Parts, NEW s \in Sweeps
    PROVE  /\ MarkVisited(L, K, s) \in Ledgers
           /\ \A t \in Sweeps :
                 Marked(MarkVisited(L, K, s), t) =
                     IF t = s THEN Marked(L, s) \cup K ELSE Marked(L, t)
  <1> DEFINE left == Kept(L.seen[s], Parts \ K)
             new  == left \o ByKey(K)
             F    == MarkVisited(L, K, s)
  <1>1. /\ left \in Seq(Parts)
        /\ Members(left) = Marked(L, s) \ K
    BY MarkedIsMembers, KeptShape
  <1>2. F = [L EXCEPT !.seen = [L.seen EXCEPT ![s] = new]]
    BY DEF MarkVisited, Ledgers
  <1> HIDE DEF left, F
  <1>3. new \in Seq(Parts) /\ Members(new) = Marked(L, s) \cup K
    BY <1>1, ByKeyShape, Joined
  <1> HIDE DEF new
  <1>4. F \in Ledgers
    BY <1>2, <1>3 DEF Ledgers
  <1>5. \A t \in Sweeps : F.seen[t] = IF t = s THEN new ELSE L.seen[t]
    BY <1>2 DEF Ledgers
  <1>6. \A t \in Sweeps : Marked(F, t) = IF t = s THEN Members(new) ELSE Marked(L, t)
    BY <1>4, <1>5, MarkedIsMembers
  <1> QED BY <1>3, <1>4, <1>6 DEF F

LEMMA ClearCutsShape ==
    ASSUME NEW L \in Ledgers, NEW K \in SUBSET Parts, NEW s \in Sweeps
    PROVE  /\ ClearCuts(L, K, s) \in Ledgers
           /\ ClearCuts(L, K, s).seen = L.seen /\ ClearCuts(L, K, s).held = L.held
           /\ \A p \in Parts : p \notin K => ClearCuts(L, K, s).cut[s][p] = L.cut[s][p]
  <1> DEFINE zeros == [p \in Parts |-> IF p \in K THEN 0 ELSE L.cut[s][p]]
             cuts  == [L.cut EXCEPT ![s] = zeros]
  <1>1. L.cut \in [Sweeps -> [Parts -> 0..MAX_CUTS]] /\ 0 \in 0..MAX_CUTS
    BY LimitsAssumption DEF Ledgers
  <1>2. zeros \in [Parts -> 0..MAX_CUTS] /\ \A p \in Parts : p \notin K => zeros[p] = L.cut[s][p]
    BY <1>1
  <1> HIDE DEF zeros
  <1>3. cuts \in [Sweeps -> [Parts -> 0..MAX_CUTS]] /\ cuts[s] = zeros
    BY <1>1, <1>2
  <1>4. ClearCuts(L, K, s) = [L EXCEPT !.cut = cuts]
    BY DEF ClearCuts, Ledgers, zeros
  <1> HIDE DEF cuts
  <1> QED BY <1>2, <1>3, <1>4 DEF Ledgers

LEMMA ClearHeldShape ==
    ASSUME NEW L \in Ledgers, NEW K \in SUBSET Parts, NEW s \in Sweeps
    PROVE  /\ ClearHeld(L, K, s) \in Ledgers
           /\ ClearHeld(L, K, s).seen = L.seen /\ ClearHeld(L, K, s).cut = L.cut
           /\ \A p \in Parts :
                 ClearHeld(L, K, s).held[s][p] = IF p \in K THEN 0 ELSE L.held[s][p]
  <1> DEFINE zeros == [p \in Parts |-> IF p \in K THEN 0 ELSE L.held[s][p]]
             helds == [L.held EXCEPT ![s] = zeros]
  <1>1. L.held \in [Sweeps -> [Parts -> 0..MAX_HOLDS]] /\ 0 \in 0..MAX_HOLDS
    BY LimitsAssumption DEF Ledgers
  <1>2. /\ zeros \in [Parts -> 0..MAX_HOLDS]
        /\ \A p \in Parts : zeros[p] = IF p \in K THEN 0 ELSE L.held[s][p]
    BY <1>1
  <1> HIDE DEF zeros
  <1>3. helds \in [Sweeps -> [Parts -> 0..MAX_HOLDS]] /\ helds[s] = zeros
    BY <1>1, <1>2
  <1>4. ClearHeld(L, K, s) = [L EXCEPT !.held = helds]
    BY DEF ClearHeld, Ledgers, zeros
  <1> HIDE DEF helds
  <1> QED BY <1>2, <1>3, <1>4 DEF Ledgers

LEMMA NoteHeldShape ==
    ASSUME NEW L \in Ledgers, NEW K \in SUBSET Parts, NEW s \in Sweeps,
           \A p \in K : L.held[s][p] < MAX_HOLDS
    PROVE  /\ NoteHeld(L, K, s) \in Ledgers
           /\ NoteHeld(L, K, s).cut = L.cut
           /\ \A t \in Sweeps : Marked(NoteHeld(L, K, s), t) \subseteq Marked(L, t)
  <1> DEFINE more    == [p \in Parts |-> IF p \in K THEN L.held[s][p] + 1 ELSE L.held[s][p]]
             counted == [L EXCEPT !.held = [L.held EXCEPT ![s] = more]]
  <1>1. L.held \in [Sweeps -> [Parts -> 0..MAX_HOLDS]]
    BY DEF Ledgers
  <1>2. more \in [Parts -> 0..MAX_HOLDS]
    BY <1>1, LimitsAssumption
  <1>3. counted \in Ledgers /\ counted.seen = L.seen /\ counted.cut = L.cut
    BY <1>1, <1>2 DEF Ledgers
  <1>4. NoteHeld(L, K, s) = ForgetVisits(counted, K, s)
    BY DEF NoteHeld, Ledgers
  <1>5. \A t \in Sweeps : Marked(counted, t) = Marked(L, t)
    BY <1>3 DEF Marked
  <1> HIDE DEF counted
  <1>6. ForgetVisits(counted, K, s).cut = counted.cut
    BY <1>3 DEF ForgetVisits, Ledgers
  <1> QED BY <1>3, <1>4, <1>5, <1>6, ForgetShape

LEMMA NoteCutShape ==
    ASSUME NEW L \in Ledgers, NEW K \in SUBSET Parts, NEW s \in Sweeps
    PROVE  /\ NoteCut(L, K, s) \in Ledgers
           /\ \A t \in Sweeps : Marked(NoteCut(L, K, s), t) = Marked(L, t)
  <1> DEFINE given == GiveUp(L, K, s)
             more  == [p \in Parts |-> IF p \in given THEN 0
                                       ELSE IF p \in K THEN L.cut[s][p] + 1 ELSE L.cut[s][p]]
             F     == NoteCut(L, K, s)
  <1>1. L.cut \in [Sweeps -> [Parts -> 0..MAX_CUTS]]
    BY DEF Ledgers
  <1>2. ASSUME NEW p \in Parts PROVE more[p] \in 0..MAX_CUTS
    <2>1. p \in K /\ p \notin given => L.cut[s][p] + 1 < MAX_CUTS
      BY <1>1, LimitsAssumption DEF GiveUp
    <2>2. more[p] = IF p \in given THEN 0
                    ELSE IF p \in K THEN L.cut[s][p] + 1 ELSE L.cut[s][p]
      OBVIOUS
    <2> QED BY <1>1, <2>1, <2>2, LimitsAssumption
  <1>3. more \in [Parts -> 0..MAX_CUTS]
    BY <1>2
  <1>4. F = [L EXCEPT !.cut = [L.cut EXCEPT ![s] = more]]
    BY DEF NoteCut, Ledgers
  <1> HIDE DEF more, F
  <1>5. F \in Ledgers /\ F.seen = L.seen
    BY <1>1, <1>3, <1>4 DEF Ledgers
  <1> QED BY <1>5 DEF Marked, F

\* A run marks what it saw and what it gave up, and nothing else.
LEMMA AfterRunShape ==
    ASSUME NEW L \in Ledgers, NEW s \in Sweeps,
           NEW seen \in SUBSET Parts, NEW kept \in SUBSET Parts, NEW cut \in SUBSET Parts,
           \A p \in kept : L.held[s][p] < MAX_HOLDS, cut \cap (seen \cup kept) = {}
    PROVE  /\ AfterRun(L, s, seen, kept, cut) \in Ledgers
           /\ \A t \in Sweeps :
                 Marked(AfterRun(L, s, seen, kept, cut), t) \subseteq
                     IF t = s THEN Marked(L, s) \cup seen \cup GiveUp(L, cut, s)
                     ELSE Marked(L, t)
  <1> DEFINE c1       == ClearCuts(L, seen, s)
             cleared  == ClearHeld(c1, seen, s)
             c2       == ClearCuts(cleared, kept, s)
             withHeld == NoteHeld(c2, kept, s)
             given    == GiveUp(withHeld, cut, s)
             noted    == NoteCut(withHeld, cut, s)
  <1>1. /\ c1 \in Ledgers /\ c1.seen = L.seen /\ c1.held = L.held
        /\ \A p \in Parts : p \notin seen => c1.cut[s][p] = L.cut[s][p]
    BY ClearCutsShape
  <1> HIDE DEF c1
  <1>2. /\ cleared \in Ledgers /\ cleared.seen = c1.seen /\ cleared.cut = c1.cut
        /\ \A p \in Parts : cleared.held[s][p] = IF p \in seen THEN 0 ELSE c1.held[s][p]
    BY <1>1, ClearHeldShape
  <1> HIDE DEF cleared
  <1>3. /\ c2 \in Ledgers /\ c2.seen = cleared.seen /\ c2.held = cleared.held
        /\ \A p \in Parts : p \notin kept => c2.cut[s][p] = cleared.cut[s][p]
    BY <1>2, ClearCutsShape
  <1> HIDE DEF c2
  <1>4. \A p \in kept : c2.held[s][p] < MAX_HOLDS
    BY <1>1, <1>2, <1>3, LimitsAssumption
  <1>5. /\ withHeld \in Ledgers /\ withHeld.cut = c2.cut
        /\ \A t \in Sweeps : Marked(withHeld, t) \subseteq Marked(c2, t)
    BY <1>3, <1>4, NoteHeldShape
  <1> HIDE DEF withHeld
  <1>6. \A t \in Sweeps : Marked(c2, t) = Marked(L, t)
    BY <1>1, <1>2, <1>3 DEF Marked
  <1>7. given = GiveUp(L, cut, s)
    <2>1. \A p \in cut : withHeld.cut[s][p] = L.cut[s][p]
      BY <1>1, <1>2, <1>3, <1>5
    <2> QED BY <2>1 DEF GiveUp
  <1>8. given \in SUBSET Parts
    BY DEF GiveUp
  <1>9. noted \in Ledgers /\ \A t \in Sweeps : Marked(noted, t) = Marked(withHeld, t)
    BY <1>5, NoteCutShape
  <1>10. AfterRun(L, s, seen, kept, cut) = MarkVisited(noted, seen \cup given, s)
    BY DEF AfterRun, withHeld, c2, cleared, c1
  <1> HIDE DEF noted, given
  <1> DEFINE marks == seen \cup given
  <1>12. marks \in SUBSET Parts
    BY <1>8
  <1> HIDE DEF marks
  <1>13. /\ MarkVisited(noted, marks, s) \in Ledgers
         /\ \A t \in Sweeps : Marked(MarkVisited(noted, marks, s), t) =
               IF t = s THEN Marked(noted, s) \cup marks ELSE Marked(noted, t)
    <2>1. noted \in Ledgers
      BY <1>9
    <2>2. \A M \in Ledgers : \A K \in SUBSET Parts :
             /\ MarkVisited(M, K, s) \in Ledgers
             /\ \A t \in Sweeps : Marked(MarkVisited(M, K, s), t) =
                   IF t = s THEN Marked(M, s) \cup K ELSE Marked(M, t)
      BY MarkShape
    <2>3. \A K \in SUBSET Parts :
             /\ MarkVisited(noted, K, s) \in Ledgers
             /\ \A t \in Sweeps : Marked(MarkVisited(noted, K, s), t) =
                   IF t = s THEN Marked(noted, s) \cup K ELSE Marked(noted, t)
      BY <2>1, <2>2
    <2> QED BY <2>3, <1>12
  <1>11. /\ MarkVisited(noted, seen \cup given, s) \in Ledgers
         /\ \A t \in Sweeps : Marked(MarkVisited(noted, seen \cup given, s), t) =
               IF t = s THEN Marked(noted, s) \cup (seen \cup given) ELSE Marked(noted, t)
    BY <1>13 DEF marks
  <1> QED BY <1>5, <1>6, <1>7, <1>9, <1>10, <1>11

-----------------------------------------------------------------------------
\* What becomes of a collection's definition, and of a run.

LEMMA EmptyTyped == EmptyLedger \in Ledgers /\ \A s \in Sweeps : Marked(EmptyLedger, s) = {}
  <1>1. <<>> \in Seq(Parts) /\ 0 \in 0..MAX_CUTS /\ 0 \in 0..MAX_HOLDS
    BY LimitsAssumption
  <1>2. EmptyLedger \in Ledgers
    BY <1>1 DEF EmptyLedger, Ledgers
  <1>3. ASSUME NEW s \in Sweeps PROVE EmptyLedger.seen[s] = <<>>
    BY DEF EmptyLedger
  <1>4. \A s \in Sweeps : Marked(EmptyLedger, s) = {}
    BY <1>3 DEF Marked, ToSet
  <1> QED BY <1>2, <1>4

LEMMA IdleTyped == Idle \in Jobs /\ Asked \in Jobs
  <1>1. <<>> \in Seq(Parts)
    OBVIOUS
  <1> QED BY <1>1, EmptyTyped DEF Idle, Asked, Jobs

\* A clock that writes writes what it says, over a failed bake.
LEMMA RewoundShape ==
    ASSUME NEW d \in Defs, Rewindable(d)
    PROVE  /\ Rewound(d) \in Defs
           /\ Rewound(d).undo = NoUndo /\ Rewound(d).status = "error"
           /\ Rewound(d).focus = d.focus
           /\ Rewound(d).requeue = (d.requeue \/ d.undo.requeue)
           /\ \A s \in Sweeps : Marked(Rewound(d).ledger, s) =
                 IF s = d.undo.sweep THEN Marked(d.ledger, s) \ d.undo.visited
                 ELSE Marked(d.ledger, s)
  <1>1. d.ledger \in Ledgers /\ d.undo.sweep \in Sweeps
    BY DEF Rewindable, Defs, Undos
  <1> DEFINE L == ForgetVisits(d.ledger, d.undo.visited, d.undo.sweep)
  <1>2. /\ L \in Ledgers
        /\ \A s \in Sweeps : Marked(L, s) =
              IF s = d.undo.sweep THEN Marked(d.ledger, s) \ d.undo.visited
              ELSE Marked(d.ledger, s)
    BY <1>1, ForgetShape
  <1> HIDE DEF L
  <1>3. Rewound(d) = [d EXCEPT !.ledger = L, !.requeue = d.requeue \/ d.undo.requeue,
                               !.undo = NoUndo, !.status = "error"]
    BY DEF Rewound, Defs, L
  <1>4. NoUndo \in Undos
    BY DEF NoUndo, Undos
  <1>5. (d.requeue \/ d.undo.requeue) \in BOOLEAN
    BY DEF Defs, Undos
  <1>6. Rewound(d) \in Defs
    BY <1>2, <1>3, <1>4, <1>5 DEF Defs
  <1> QED BY <1>2, <1>3, <1>6 DEF Defs

LEMMA InitInv == Init => ShapeInv /\ MovingInv /\ RowsInv
  <1> SUFFICES ASSUME Init PROVE ShapeInv /\ MovingInv /\ RowsInv
    OBVIOUS
  <1>1. def \in Defs
    BY EmptyTyped DEF Init, Defs, Undos, NoUndo, NoFocus
  <1>2. job \in Jobs /\ job.base \in Ledgers
    BY IdleTyped DEF Init, Jobs
  <1>5. \A c \in Clocks : read[c].got = FALSE
    BY DEF Init, NoRead
  <1>6. rows \in Nat /\ troubles \in 0..TROUBLES
    <2>1. rows = 0 /\ troubles = 0
      BY DEF Init
    <2> QED BY <2>1, LimitsAssumption
  <1>7. staged \in [full : BOOLEAN, requeue : BOOLEAN]
    BY DEF Init, Nothing
  <1>8. answer \in [Sweeps -> [Parts -> {"none", "moving", "served", "lost"}]]
    BY DEF Init
  <1>3. TypeOK
    BY <1>1, <1>2, <1>5, <1>6, <1>7, <1>8 DEF Init, TypeOK, Jobs
  <1>4. ShapeInv
    BY <1>2, <1>3, <1>5 DEF Init, ShapeInv, Idle, Nothing, NoUndo, NoFocus
  <1> QED BY <1>4 DEF Init, MovingInv, RowsInv, NoUndo

-----------------------------------------------------------------------------
\* Every step keeps what each phase says, whatever is in Faults.

Base == ShapeInv /\ MovingInv /\ RowsInv

LEMMA BaseTypes ==
    ASSUME Base
    PROVE  /\ def \in Defs /\ def.ledger \in Ledgers /\ def.undo \in Undos
           /\ def.requeue \in BOOLEAN /\ def.undo.requeue \in BOOLEAN
           /\ def.undo.visited \in SUBSET Parts
           /\ job \in Jobs /\ job.base \in Ledgers /\ job.keys \in Seq(Parts)
           /\ answer \in [Sweeps -> [Parts -> {"none", "moving", "served", "lost"}]]
           /\ staged \in [full : BOOLEAN, requeue : BOOLEAN]
           /\ NoUndo \in Undos
  BY DEF Base, ShapeInv, TypeOK, Defs, Undos, Jobs, NoUndo

LEMMA TroubleTyped ==
    ASSUME troubles \in 0..TROUBLES, Trouble PROVE troubles' \in 0..TROUBLES
  BY LimitsAssumption DEF Trouble

\* A run starts: an undo record of before or none, and the phase "asked".
LEMMA StartBase ==
    ASSUME Base, job.phase = "idle", job' = Asked,
           def' \in Defs, def'.undo \in {def.undo, NoUndo}, def'.status = def.status,
           def'.focus.on => def'.focus.sweep \in Sweeps,
           troubles' \in 0..TROUBLES, UNCHANGED <<staged, read, answer, wanted, rows>>
    PROVE  Base'
  <1>1. job' \in Jobs /\ job'.phase = "asked" /\ ~job'.leftover
    BY IdleTyped DEF Asked, Idle
  <1>2. TypeOK'
    BY <1>1 DEF Base, ShapeInv, TypeOK, Jobs
  <1>3. def.undo.job # "running"
    BY DEF Base, ShapeInv
  <1>4. def'.undo.job # "running" /\ (def'.undo.job # "over" => def'.undo.sweep # NoSweep)
    BY <1>3 DEF Base, ShapeInv, NoUndo
  <1>5. ShapeInv'
    BY <1>1, <1>2, <1>4 DEF Base, ShapeInv
  <1>6. MovingInv'
    BY <1>1, <1>4 DEF Base, MovingInv, ShapeInv
  <1>7. RowsInv'
    BY DEF Base, RowsInv
  <1> QED BY <1>5, <1>6, <1>7 DEF Base

\* A step of a person that takes marks or the undo record away, and starts nothing.
LEMMA AsideBase ==
    ASSUME Base, def' \in Defs, def'.undo \in {def.undo, NoUndo}, def'.status = def.status,
           def'.focus = def.focus, wanted' \in BOOLEAN,
           troubles' \in 0..TROUBLES, UNCHANGED <<job, staged, read, answer, rows>>
    PROVE  Base'
  <1>1. TypeOK'
    BY DEF Base, ShapeInv, TypeOK
  <1>2. def'.undo.job # "over" => def'.undo = def.undo
    BY DEF NoUndo
  <1>3. ShapeInv'
    BY <1>1, <1>2 DEF Base, ShapeInv
  <1>4. MovingInv'
    BY <1>2 DEF Base, MovingInv
  <1>5. RowsInv'
    BY DEF Base, RowsInv
  <1> QED BY <1>3, <1>4, <1>5 DEF Base

\* A run goes on without touching the definition or the answers.
LEMMA GoesOnBase ==
    ASSUME Base, job' \in Jobs, staged' \in [full : BOOLEAN, requeue : BOOLEAN],
           job'.phase = "collecting" => job'.sweep \in Sweeps,
           job'.leftover => job'.phase = "baking",
           job'.phase \in {"collecting", "streaming", "baking"} => ~staged'.full,
           def.undo.job = "running" => job'.phase \in {"streaming", "baking"} /\ ~job'.leftover,
           job.phase \in {"streaming", "baking"} \/ staged.full =>
               job'.phase \in {"streaming", "baking"} \/ staged'.full,
           troubles' \in 0..TROUBLES, UNCHANGED <<def, read, answer, wanted, rows>>
    PROVE  Base'
  <1>1. TypeOK'
    BY DEF Base, ShapeInv, TypeOK, Jobs
  <1>2. ShapeInv'
    BY <1>1 DEF Base, ShapeInv
  <1>3. MovingInv'
    BY DEF Base, MovingInv
  <1>4. RowsInv'
    BY DEF Base, RowsInv
  <1> QED BY <1>2, <1>3, <1>4 DEF Base

LEMMA UndoAsShape ==
    ASSUME Base, NEW e \in {"failed", "over"}
    PROVE  /\ UndoAs(def, e) \in Undos
           /\ UndoAs(def, e) = [def.undo EXCEPT
                                   !.job = IF def.undo.job = "running" THEN e ELSE def.undo.job]
           /\ UndoAs(def, e).sweep = def.undo.sweep
           /\ UndoAs(def, e).visited = def.undo.visited
           /\ UndoAs(def, e).requeue = def.undo.requeue
           /\ UndoAs(def, e).job = IF def.undo.job = "running" THEN e ELSE def.undo.job
           /\ [def EXCEPT !.undo = UndoAs(def, e)] \in Defs
           /\ [def EXCEPT !.undo = UndoAs(def, e)].undo = UndoAs(def, e)
  <1>1. def.undo \in Undos /\ def \in Defs
    BY BaseTypes
  <1>2. /\ UndoAs(def, e) \in Undos
        /\ UndoAs(def, e).sweep = def.undo.sweep
        /\ UndoAs(def, e).visited = def.undo.visited
        /\ UndoAs(def, e).requeue = def.undo.requeue
        /\ UndoAs(def, e).job = IF def.undo.job = "running" THEN e ELSE def.undo.job
    BY <1>1 DEF UndoAs, Undos
  <1>3. UndoAs(def, e) = [def.undo EXCEPT
                             !.job = IF def.undo.job = "running" THEN e ELSE def.undo.job]
    BY DEF UndoAs
  <1> QED BY <1>1, <1>2, <1>3 DEF Defs

LEMMA AnswersShape ==
    ASSUME Base, NEW end \in {"served", "lost"}, Answers(end)
    PROVE  /\ answer' \in [Sweeps -> [Parts -> {"none", "moving", "served", "lost"}]]
           /\ \A s \in Sweeps, p \in Parts :
                 answer'[s][p] = IF answer[s][p] = "moving" THEN end ELSE answer[s][p]
  BY BaseTypes DEF Answers

\* A run ends: what it carried is served, lost, or left as material.
LEMMA EndBase ==
    ASSUME Base, job.phase \in {"streaming", "baking"}, NEW e \in {"failed", "over"},
           def' = [def EXCEPT !.undo = UndoAs(def, e)], job' = Idle,
           staged' \in [full : BOOLEAN, requeue : BOOLEAN], wanted' \in BOOLEAN,
           \/ staged'.full /\ UNCHANGED answer
           \/ UNCHANGED staged /\ \E end \in {"served", "lost"} : Answers(end),
           troubles' \in 0..TROUBLES, UNCHANGED <<read, rows>>
    PROVE  Base'
  <1>1. def' \in Defs /\ def'.undo = UndoAs(def, e)
    BY UndoAsShape
  <1>2. /\ def'.status = def.status /\ def'.focus = def.focus
        /\ def'.undo.job = (IF def.undo.job = "running" THEN e ELSE def.undo.job)
        /\ def'.undo.sweep = def.undo.sweep
    BY <1>1, UndoAsShape, BaseTypes DEF Defs
  <1>3. job' \in Jobs /\ job'.phase = "idle" /\ ~job'.leftover
    BY IdleTyped DEF Idle
  <1>4. /\ answer' \in [Sweeps -> [Parts -> {"none", "moving", "served", "lost"}]]
        /\ \A s \in Sweeps, p \in Parts : answer'[s][p] = "moving" => staged'.full
    BY AnswersShape, BaseTypes
  <1>5. TypeOK'
    <2>1. rows' \in Nat /\ \A c \in Clocks : read'[c].got => read'[c].def \in Defs
      BY DEF Base, ShapeInv, TypeOK
    <2> QED BY <1>1, <1>3, <1>4, <2>1 DEF TypeOK, Jobs
  <1>6. def'.undo.job # "running"
    BY <1>2
  <1>7. ShapeInv'
    BY <1>2, <1>3, <1>5, <1>6 DEF Base, ShapeInv
  <1>8. MovingInv'
    BY <1>4, <1>6 DEF MovingInv
  <1>9. RowsInv'
    BY <1>2 DEF Base, RowsInv
  <1> QED BY <1>7, <1>8, <1>9 DEF Base

LEMMA CollectFailsBase == ASSUME Base, CollectFails PROVE Base'
  <1>1. troubles' \in 0..TROUBLES
    BY TroubleTyped DEF CollectFails, Base, ShapeInv, TypeOK
  <1> DEFINE undo == IF job.focus THEN def.undo
                     ELSE [NoUndo EXCEPT !.sweep = job.sweep, !.requeue = def.requeue,
                                         !.job = "failed"]
             named == IF job.focus THEN def.named ELSE {}
             focus == IF job.focus THEN NoFocus ELSE def.focus
  <1>2. /\ def' = [def EXCEPT !.ledger = job.base, !.undo = undo, !.pending = NoSweep,
                              !.named = named, !.focus = focus, !.status = "error"]
        /\ job' = Idle /\ job.phase = "collecting"
        /\ UNCHANGED <<staged, read, answer, wanted, rows>>
    BY DEF CollectFails
  <1>3. job.sweep \in Sweeps /\ def.undo.job # "running"
    BY <1>2 DEF Base, ShapeInv
  <1>4. /\ undo \in Undos /\ undo.job # "running"
        /\ (undo.job # "over" => undo.sweep # NoSweep)
    BY <1>3, BaseTypes, SweepsAssumption DEF Base, ShapeInv, Undos, NoUndo
  <1>5. /\ named \in SUBSET Parts /\ focus.on \in BOOLEAN /\ (focus.on => focus.sweep \in Sweeps)
        /\ focus \in [on : BOOLEAN, sweep : Sweeps \cup {NoSweep}, parts : SUBSET Parts]
    BY BaseTypes DEF Base, ShapeInv, NoFocus, Defs
  <1> HIDE DEF undo, named, focus
  <1>6. /\ def' \in Defs /\ def'.undo = undo /\ def'.status = "error" /\ def'.focus = focus
    BY <1>2, <1>4, <1>5, BaseTypes DEF Defs
  <1>7. job' \in Jobs /\ job'.phase = "idle" /\ ~job'.leftover
    BY <1>2, IdleTyped DEF Idle
  <1>8. TypeOK'
    BY <1>1, <1>2, <1>6, <1>7 DEF Base, ShapeInv, TypeOK, Jobs
  <1>9. ShapeInv'
    BY <1>2, <1>4, <1>5, <1>6, <1>7, <1>8 DEF Base, ShapeInv
  <1>10. MovingInv'
    <2>1. ~staged.full
      BY <1>2 DEF Base, ShapeInv
    <2>2. \A s \in Sweeps, p \in Parts : answer[s][p] # "moving"
      BY <1>2, <2>1 DEF Base, MovingInv
    <2> QED BY <1>2, <1>4, <1>6, <2>2 DEF MovingInv
  <1>11. RowsInv'
    BY <1>2, <1>6 DEF Base, RowsInv
  <1> QED BY <1>9, <1>10, <1>11 DEF Base

\* What a run that collected leaves: marks for what it saw and gave up, and their answers.
CollectedAs(seen, cut) ==
    LET s == job.sweep IN
    /\ job.keys = <<>> => seen = {} /\ cut = {}
    /\ seen \cap cut = {}
    /\ def' \in Defs
    /\ def'.undo = IF job.focus THEN def.undo
                   ELSE [sweep |-> s, visited |-> seen, requeue |-> def.requeue,
                         job |-> "running"]
    /\ def'.requeue = (def.requeue /\ job.focus)
    /\ def'.focus = IF job.focus THEN NoFocus ELSE def.focus
    /\ def'.status = "ok"
    /\ \A t \in Sweeps : Marked(def'.ledger, t) \subseteq
          IF t = s THEN Marked(job.base, s) \cup seen \cup GiveUp(job.base, cut, s)
          ELSE Marked(job.base, t)
    /\ answer' \in [Sweeps -> [Parts -> {"none", "moving", "served", "lost"}]]
    /\ \A t \in Sweeps, p \in Parts :
          answer'[t][p] = IF t = s /\ p \in seen THEN "moving"
                          ELSE IF t = s /\ p \in GiveUp(job.base, cut, s) THEN "none"
                          ELSE answer[t][p]
    /\ job' = [Idle EXCEPT !.phase = "streaming", !.requeue = job.requeue]
    /\ rows' = 0
    /\ UNCHANGED <<staged, read, wanted, troubles>>

LEMMA CollectOkShape ==
    ASSUME Base, CollectOk
    PROVE  \E seen, cut \in SUBSET Parts : CollectedAs(seen, cut)
  <1> DEFINE s == job.sweep
             part(n) == ToSet(SubSeq(job.keys, 1, n))
  <1>1. s \in Sweeps /\ job.phase = "collecting"
    BY DEF CollectOk, Base, ShapeInv
  <1> DEFINE Records(n, cut, shrinking) ==
               LET kept == WithinHoldLimit(job.base, shrinking, s)
                   seen == (part(n) \ cut) \ kept
               IN  /\ job.keys # <<>> => n > 0
                   /\ def' = [def EXCEPT
                        !.ledger  = AfterRun(job.base, s, seen, kept, cut),
                        !.undo    = IF job.focus THEN @
                                    ELSE [sweep |-> s, visited |-> seen,
                                          requeue |-> def.requeue, job |-> "running"],
                        !.pending = NoSweep,
                        !.named   = IF job.focus THEN @ ELSE {},
                        !.focus   = IF job.focus THEN NoFocus ELSE @,
                        !.requeue = @ /\ job.focus,
                        !.status  = "ok"]
                   /\ answer' = [answer EXCEPT ![s] =
                        [p \in Parts |-> IF p \in seen THEN "moving"
                                         ELSE IF p \in GiveUp(job.base, cut, s) THEN "none"
                                         ELSE @[p]]]
  <1>20. PICK n \in 0..Len(job.keys) : \E cut \in SUBSET part(n) :
           \E shrinking \in SUBSET (IF s \in HoldSweeps THEN part(n) \ cut ELSE {}) :
              Records(n, cut, shrinking)
    BY DEF CollectOk
  <1>21. PICK cut \in SUBSET part(n) :
           \E shrinking \in SUBSET (IF s \in HoldSweeps THEN part(n) \ cut ELSE {}) :
              Records(n, cut, shrinking)
    BY <1>20
  <1> DEFINE done == part(n) \ cut
  <1>3. part(n) \subseteq Parts /\ (job.keys = <<>> => part(n) = {})
    <2>1. job.keys \in Seq(Parts)
      BY BaseTypes
    <2>2. SubSeq(job.keys, 1, n) \in Seq(Parts)
      BY <2>1
    <2>3. part(n) \subseteq Parts
      BY <2>2 DEF ToSet
    <2>4. job.keys = <<>> => SubSeq(job.keys, 1, n) = <<>>
      BY <2>1
    <2>5. job.keys = <<>> => part(n) = {}
      BY <2>4 DEF ToSet
    <2> QED BY <2>3, <2>5
  <1> HIDE DEF part
  <1>4. PICK shrinking \in SUBSET done : Records(n, cut, shrinking)
    <2>1. (IF s \in HoldSweeps THEN done ELSE {}) \subseteq done
      OBVIOUS
    <2> HIDE DEF Records
    <2> QED BY <1>21, <2>1
  <1> DEFINE kept  == WithinHoldLimit(job.base, shrinking, s)
             seen  == done \ kept
             after == AfterRun(job.base, s, seen, kept, cut)
             undo  == IF job.focus THEN def.undo
                      ELSE [sweep |-> s, visited |-> seen, requeue |-> def.requeue,
                            job |-> "running"]
             named == IF job.focus THEN def.named ELSE {}
             focus == IF job.focus THEN NoFocus ELSE def.focus
             given == GiveUp(job.base, cut, s)
             ends  == [p \in Parts |-> IF p \in seen THEN "moving"
                                       ELSE IF p \in given THEN "none" ELSE answer[s][p]]
  <1>5. /\ def' = [def EXCEPT !.ledger = after, !.undo = undo, !.pending = NoSweep,
                              !.named = named, !.focus = focus,
                              !.requeue = def.requeue /\ job.focus, !.status = "ok"]
        /\ answer' = [answer EXCEPT ![s] = ends]
    BY <1>4
  <1>6. /\ kept \in SUBSET Parts /\ seen \in SUBSET Parts /\ cut \in SUBSET Parts
        /\ cut \cap (seen \cup kept) = {} /\ seen \cap cut = {}
        /\ (job.keys = <<>> => seen = {} /\ cut = {})
        /\ \A p \in kept : job.base.held[s][p] < MAX_HOLDS
    BY <1>3 DEF WithinHoldLimit
  <1> HIDE DEF kept
  <1> HIDE DEF seen
  <1>7. /\ after \in Ledgers
        /\ \A t \in Sweeps : Marked(after, t) \subseteq
              IF t = s THEN Marked(job.base, s) \cup seen \cup given ELSE Marked(job.base, t)
    BY <1>1, <1>6, BaseTypes, AfterRunShape
  <1> HIDE DEF after
  <1>8. undo \in Undos /\ focus \in [on : BOOLEAN, sweep : Sweeps \cup {NoSweep}, parts : SUBSET Parts]
        /\ named \in SUBSET Parts /\ (def.requeue /\ job.focus) \in BOOLEAN
    BY <1>1, <1>6, BaseTypes DEF Undos, Defs, NoFocus, Jobs
  <1> HIDE DEF undo, focus, named
  <1>9. /\ def' \in Defs /\ def'.ledger = after /\ def'.undo = undo /\ def'.status = "ok"
        /\ def'.requeue = (def.requeue /\ job.focus) /\ def'.focus = focus
    BY <1>5, <1>7, <1>8, BaseTypes DEF Defs
  <1>10. /\ ends \in [Parts -> {"none", "moving", "served", "lost"}]
         /\ \A p \in Parts : ends[p] = IF p \in seen THEN "moving"
                                        ELSE IF p \in given THEN "none" ELSE answer[s][p]
    BY <1>1, BaseTypes
  <1> HIDE DEF ends
  <1>11. /\ answer' \in [Sweeps -> [Parts -> {"none", "moving", "served", "lost"}]]
         /\ \A t \in Sweeps, p \in Parts :
              answer'[t][p] = IF t = s /\ p \in seen THEN "moving"
                              ELSE IF t = s /\ p \in given THEN "none" ELSE answer[t][p]
    BY <1>1, <1>5, <1>10, BaseTypes
  <1>12. /\ job' = [Idle EXCEPT !.phase = "streaming", !.requeue = job.requeue]
         /\ rows' = 0 /\ UNCHANGED <<staged, read, wanted, troubles>>
    BY DEF CollectOk
  <1>13. CollectedAs(seen, cut)
    BY <1>6, <1>7, <1>9, <1>11, <1>12 DEF CollectedAs, undo, focus
  <1> QED BY <1>6, <1>13

LEMMA CollectOkBase == ASSUME Base, CollectOk PROVE Base'
  <1>1. PICK seen \in SUBSET Parts, cut \in SUBSET Parts : CollectedAs(seen, cut)
    BY CollectOkShape
  <1>2. /\ job' = [Idle EXCEPT !.phase = "streaming", !.requeue = job.requeue]
        /\ rows' = 0 /\ UNCHANGED <<staged, read, wanted, troubles>>
        /\ def' \in Defs /\ def'.status = "ok"
        /\ def'.undo = IF job.focus THEN def.undo
                       ELSE [sweep |-> job.sweep, visited |-> seen, requeue |-> def.requeue,
                             job |-> "running"]
        /\ def'.focus = IF job.focus THEN NoFocus ELSE def.focus
        /\ answer' \in [Sweeps -> [Parts -> {"none", "moving", "served", "lost"}]]
    BY <1>1 DEF CollectedAs
  <1>3. job.phase = "collecting" /\ job.sweep \in Sweeps /\ ~staged.full
        /\ def.undo.job # "running"
    BY DEF CollectOk, Base, ShapeInv
  <1>4. /\ job' \in Jobs /\ job'.phase = "streaming" /\ ~job'.leftover
    BY <1>2, IdleTyped, BaseTypes DEF Idle, Jobs
  <1>5. TypeOK'
    <2>1. /\ \A c \in Clocks : read'[c].got => read'[c].def \in Defs
          /\ staged' \in [full : BOOLEAN, requeue : BOOLEAN] /\ wanted' \in BOOLEAN
          /\ rows' \in Nat /\ troubles' \in 0..TROUBLES
      BY <1>2 DEF Base, ShapeInv, TypeOK
    <2>2. /\ job'.phase \in {"idle", "asked", "collecting", "streaming", "baking"}
          /\ job'.sweep \in Sweeps \cup {NoSweep} /\ job'.base \in Ledgers
      BY <1>4 DEF Jobs
    <2> QED BY <1>2, <2>1, <2>2 DEF TypeOK
  <1>6. /\ def'.undo.job # "over" => def'.undo.sweep # NoSweep
        /\ def'.undo.job = "running" => def'.undo.visited = seen /\ def'.undo.sweep = job.sweep
    BY <1>2, <1>3, SweepsAssumption DEF Base, ShapeInv
  <1>7. def'.focus.on => def'.focus.sweep \in Sweeps
    BY <1>2 DEF Base, ShapeInv, NoFocus
  <1>8. ShapeInv'
    BY <1>2, <1>3, <1>4, <1>5, <1>6, <1>7 DEF Base, ShapeInv
  <1>9. \A p \in seen : answer'[job.sweep][p] = "moving"
    BY <1>1, <1>3 DEF CollectedAs
  <1>10. MovingInv'
    BY <1>4, <1>6, <1>9 DEF MovingInv
  <1>11. RowsInv'
    BY <1>2 DEF RowsInv
  <1> QED BY <1>8, <1>10, <1>11 DEF Base

LEMMA ClockWritesBase ==
    ASSUME Base, NEW c \in Clocks, ClockWrites(c) PROVE Base'
  <1>1. /\ read[c].got /\ read' = [read EXCEPT ![c] = NoRead]
        /\ UNCHANGED <<job, staged, answer, wanted, troubles>>
    BY DEF ClockWrites
  <1>2. \A x \in Clocks : read'[x].got => x # c /\ read'[x] = read[x]
    BY <1>1 DEF Base, ShapeInv, NoRead
  <1>3. DOMAIN read' = Clocks
    BY <1>1 DEF Base, ShapeInv
  <1>4. CASE ~StillAsRead(c)
    <2>1. UNCHANGED <<def, rows>>
      BY <1>4 DEF ClockWrites
    <2>2. TypeOK'
      BY <1>1, <1>2, <2>1 DEF Base, ShapeInv, TypeOK
    <2>3. ShapeInv'
      BY <1>1, <1>2, <1>3, <2>1, <2>2 DEF Base, ShapeInv
    <2>4. MovingInv' /\ RowsInv'
      BY <1>1, <2>1 DEF Base, MovingInv, RowsInv
    <2> QED BY <2>3, <2>4 DEF Base
  <1>5. CASE StillAsRead(c)
    <2>1. def' = Rewound(def) /\ rows' = rows + 1 /\ Rewindable(def)
      BY <1>1, <1>5 DEF ClockWrites, StillAsRead, Base, ShapeInv
    <2>2. /\ def' \in Defs /\ def'.undo = NoUndo /\ def'.status = "error"
          /\ def'.focus = def.focus
      BY <2>1, BaseTypes, RewoundShape
    <2>3. rows = 0
      BY <2>1 DEF Base, RowsInv, Rewindable
    <2>4. RowsInv'
      BY <2>1, <2>2, <2>3 DEF RowsInv
    <2>5. TypeOK'
      <3>1. rows' \in Nat
        BY <2>1, <2>3
      <3> QED BY <1>1, <1>2, <2>2, <3>1 DEF Base, ShapeInv, TypeOK
    <2>6. ShapeInv'
      BY <1>1, <1>2, <1>3, <2>2, <2>5 DEF Base, ShapeInv, NoUndo
    <2>7. MovingInv'
      BY <1>1, <2>2 DEF Base, MovingInv, NoUndo
    <2> QED BY <2>4, <2>6, <2>7 DEF Base
  <1> QED BY <1>4, <1>5

LEMMA NextBase == ASSUME Base, [Next]_vars PROVE Base'
  <1> USE BaseTypes
  <1>0. /\ troubles \in 0..TROUBLES /\ wanted \in BOOLEAN
    BY DEF Base, ShapeInv, TypeOK
  <1>1. ASSUME NEW s \in Sweeps, ClockStart(s) PROVE Base'
    <2>1. /\ job.phase = "idle" /\ job' = Asked
          /\ def' = [def EXCEPT !.pending = s, !.named = {}]
          /\ UNCHANGED <<staged, read, answer, wanted, rows, troubles>>
      BY <1>1 DEF ClockStart, Free, Begin
    <2>2. def' \in Defs /\ def'.undo = def.undo /\ def'.status = def.status
          /\ def'.focus = def.focus
      BY <2>1 DEF Defs
    <2> QED BY <1>0, <2>1, <2>2, StartBase DEF Base, ShapeInv
  <1>2. ASSUME NEW s \in Sweeps, NEW K \in SUBSET Parts, RunOnce(s, K) PROVE Base'
    <2>1. /\ job.phase = "idle" /\ job' = Asked /\ Trouble
          /\ def' = [def EXCEPT !.pending = s, !.named = K]
          /\ UNCHANGED <<staged, read, answer, wanted, rows>>
      BY <1>2 DEF RunOnce, Free, Begin
    <2>2. def' \in Defs /\ def'.undo = def.undo /\ def'.status = def.status
          /\ def'.focus = def.focus
      BY <2>1 DEF Defs
    <2> QED BY <1>0, <2>1, <2>2, StartBase, TroubleTyped DEF Base, ShapeInv
  <1>3. ASSUME NEW s \in Sweeps, NEW K \in SUBSET Parts, Focus(s, K) PROVE Base'
    <2>1. /\ job.phase = "idle" /\ job' = Asked /\ Trouble
          /\ def' = [def EXCEPT !.focus = [on |-> TRUE, sweep |-> s, parts |-> K]]
          /\ UNCHANGED <<staged, read, answer, wanted, rows>>
      BY <1>3 DEF Focus, Free
    <2>2. /\ def' \in Defs /\ def'.undo = def.undo /\ def'.status = def.status
          /\ def'.focus.sweep = s
      BY <2>1 DEF Defs
    <2> QED BY <1>0, <2>1, <2>2, StartBase, TroubleTyped
  <1>4. CASE Redo
    <2> DEFINE L    == ForgetVisits(def.ledger, def.undo.visited, def.undo.sweep)
               back == [def EXCEPT !.ledger = L, !.undo = NoUndo]
    <2>1. /\ Trouble /\ def.undo.sweep # NoSweep
          /\ UNCHANGED <<staged, read, answer, wanted, rows>>
          /\ IF job.phase = "idle" THEN Begin(back, def.undo.sweep, {})
             ELSE def' = back /\ UNCHANGED job
      BY <1>4 DEF Redo
    <2>2. def.undo.sweep \in Sweeps
      BY <2>1 DEF Undos
    <2>3. L \in Ledgers
      BY <2>2, ForgetShape
    <2> HIDE DEF L
    <2>4. back \in Defs /\ back.undo = NoUndo /\ back.status = def.status /\ back.focus = def.focus
      BY <2>3 DEF Defs
    <2> HIDE DEF back
    <2>5. CASE job.phase = "idle"
      <3>1. def' = [back EXCEPT !.pending = def.undo.sweep, !.named = {}] /\ job' = Asked
        BY <2>1, <2>5 DEF Begin
      <3>2. /\ def' \in Defs /\ def'.undo = NoUndo /\ def'.status = def.status
            /\ def'.focus = def.focus
        BY <2>2, <2>4, <3>1 DEF Defs
      <3> QED BY <1>0, <2>1, <2>5, <3>1, <3>2, StartBase, TroubleTyped DEF Base, ShapeInv
    <2>6. CASE job.phase # "idle"
      <3>1. def' = back /\ UNCHANGED job
        BY <2>1, <2>6
      <3> QED BY <1>0, <2>1, <2>4, <3>1, AsideBase, TroubleTyped
    <2> QED BY <2>5, <2>6
  <1>5. ASSUME NEW s \in Sweeps, RestartCycle(s) PROVE Base'
    <2>1. ForgetVisits(def.ledger, Parts, s) \in Ledgers
      BY ForgetShape
    <2>2. /\ def' \in Defs /\ def'.undo = def.undo /\ def'.status = def.status
          /\ def'.focus = def.focus
      BY <1>5, <2>1 DEF RestartCycle, Defs
    <2> QED BY <1>0, <1>5, <2>2, AsideBase, TroubleTyped DEF RestartCycle
  <1>6. CASE Requeue
    <2>1. /\ def' \in Defs /\ def'.undo = def.undo /\ def'.status = def.status
          /\ def'.focus = def.focus
      BY <1>6 DEF Requeue, Defs
    <2> QED BY <1>0, <1>6, <2>1, AsideBase, TroubleTyped DEF Requeue
  <1>7. CASE TakeLeftover
    <2>1. /\ job.phase = "asked" /\ staged.full /\ staged' = Nothing
          /\ job' = [job EXCEPT !.phase = "baking", !.leftover = TRUE, !.requeue = staged.requeue]
          /\ UNCHANGED <<def, read, answer, wanted, rows, troubles>>
      BY <1>7 DEF TakeLeftover
    <2>2. job' \in Jobs /\ job'.phase = "baking"
      BY <2>1 DEF Jobs
    <2>3. staged' \in [full : BOOLEAN, requeue : BOOLEAN] /\ ~staged'.full
      BY <2>1 DEF Nothing
    <2>4. def.undo.job # "running"
      BY <2>1 DEF Base, ShapeInv
    <2> QED BY <1>0, <2>1, <2>2, <2>3, <2>4, GoesOnBase
  <1>8. CASE Collect
    <2>1. /\ job.phase = "asked" /\ ~staged.full
          /\ UNCHANGED <<def, staged, read, answer, wanted, rows, troubles>>
      BY <1>8 DEF Collect
    <2>2. PICK s \in SweepOfRun :
            job' = [job EXCEPT !.phase = "collecting", !.sweep = s, !.keys = KeysOfRun(s),
                               !.focus = def.focus.on, !.base = def.ledger,
                               !.requeue = def.requeue]
      BY <1>8 DEF Collect
    <2>3. s \in Sweeps
      BY DEF SweepOfRun, FocusSweep, Defs, Base, ShapeInv
    <2>4. KeysOfRun(s) \in Seq(Parts)
      BY <2>3, PickShape, ByKeyShape DEF KeysOfRun, Defs
    <2>5. def.focus.on \in BOOLEAN
      BY DEF Defs
    <2>6. job' \in Jobs /\ job'.phase = "collecting" /\ job'.sweep = s /\ job'.leftover = job.leftover
      BY <2>2, <2>3, <2>4, <2>5 DEF Jobs
    <2>7. ~job'.leftover /\ def.undo.job # "running"
      BY <2>1, <2>6 DEF Base, ShapeInv
    <2> QED BY <1>0, <2>1, <2>3, <2>6, <2>7, GoesOnBase
  <1>9. CASE Refuse
    <2>1. /\ job.phase = "asked" /\ ~staged.full /\ job' = Idle
          /\ UNCHANGED <<def, staged, read, answer, wanted, rows>>
          /\ (UNCHANGED troubles \/ Trouble)
      BY <1>9 DEF Refuse
    <2>2. job' \in Jobs /\ job'.phase = "idle" /\ ~job'.leftover
      BY <2>1, IdleTyped DEF Idle
    <2>3. def.undo.job # "running"
      BY <2>1 DEF Base, ShapeInv
    <2>4. troubles' \in 0..TROUBLES
      BY <1>0, <2>1, TroubleTyped
    <2> QED BY <2>1, <2>2, <2>3, <2>4, GoesOnBase
  <1>10. CASE CollectFails
    BY <1>10, CollectFailsBase
  <1>11. CASE CollectOk
    BY <1>11, CollectOkBase
  <1>12. CASE Downloaded
    <2>1. /\ job.phase = "streaming" /\ job' = [job EXCEPT !.phase = "baking"]
          /\ UNCHANGED <<def, staged, read, answer, wanted, rows, troubles>>
      BY <1>12 DEF Downloaded
    <2>2. job' \in Jobs /\ job'.phase = "baking" /\ job'.leftover = job.leftover
      BY <2>1 DEF Jobs
    <2>3. ~staged.full /\ ~job.leftover
      BY <2>1 DEF Base, ShapeInv
    <2> QED BY <1>0, <2>1, <2>2, <2>3, GoesOnBase
  <1>13. CASE Stop
    <2>1. /\ job.phase \in {"streaming", "baking"} /\ Trouble
          /\ def' = [def EXCEPT !.undo = UndoAs(def, "over")] /\ job' = Idle
          /\ UNCHANGED <<read, wanted, rows>>
          /\ \/ staged' = [full |-> TRUE, requeue |-> job.requeue] /\ UNCHANGED answer
             \/ Answers("lost") /\ UNCHANGED staged
      BY <1>13 DEF Stop, StopsAt
    <2>2. /\ staged' \in [full : BOOLEAN, requeue : BOOLEAN]
          /\ \/ staged'.full /\ UNCHANGED answer
             \/ UNCHANGED staged /\ \E end \in {"served", "lost"} : Answers(end)
      <3>1. job.requeue \in BOOLEAN
        BY DEF Jobs
      <3>2. CASE staged' = [full |-> TRUE, requeue |-> job.requeue] /\ UNCHANGED answer
        BY <3>1, <3>2
      <3>3. CASE Answers("lost") /\ UNCHANGED staged
        BY <3>3
      <3> QED BY <2>1, <3>2, <3>3
    <2> QED BY <1>0, <2>1, <2>2, EndBase, TroubleTyped
  <1>14. CASE BakeOk
    <2>1. /\ job.phase \in {"streaming", "baking"} /\ Answers("served")
          /\ def' = [def EXCEPT !.undo = UndoAs(def, "over")] /\ job' = Idle
          /\ UNCHANGED <<staged, read, rows, troubles>> /\ wanted' \in BOOLEAN
      BY <1>0, <1>14 DEF BakeOk
    <2> QED BY <1>0, <2>1, EndBase
  <1>15. CASE BakeFails
    <2>1. /\ job.phase \in {"streaming", "baking"} /\ Answers("lost") /\ Trouble
          /\ def' = [def EXCEPT !.undo = UndoAs(def, "failed")] /\ job' = Idle
          /\ UNCHANGED <<staged, read, wanted, rows>>
      BY <1>15 DEF BakeFails
    <2> QED BY <1>0, <2>1, EndBase, TroubleTyped
  <1>16. ASSUME NEW c \in Clocks, ClockReads(c) PROVE Base'
    <2>1. /\ Rewindable(def) /\ read' = [read EXCEPT ![c] = [got |-> TRUE, def |-> def]]
          /\ UNCHANGED <<def, job, staged, answer, wanted, rows, troubles>>
      BY <1>16 DEF ClockReads
    <2>2. /\ DOMAIN read' = Clocks
          /\ \A x \in Clocks : read'[x].got => read'[x].def \in Defs /\ Rewindable(read'[x].def)
      BY <2>1 DEF Base, ShapeInv, TypeOK
    <2>3. TypeOK'
      BY <2>1, <2>2 DEF Base, ShapeInv, TypeOK
    <2>4. ShapeInv'
      BY <2>1, <2>2, <2>3 DEF Base, ShapeInv
    <2>5. MovingInv' /\ RowsInv'
      BY <2>1 DEF Base, MovingInv, RowsInv
    <2> QED BY <2>4, <2>5 DEF Base
  <1>17. ASSUME NEW c \in Clocks, ClockWrites(c) PROVE Base'
    BY <1>17, ClockWritesBase
  <1>18. CASE UNCHANGED vars
    BY <1>18 DEF vars, Base, ShapeInv, MovingInv, RowsInv, TypeOK, Rewindable
  <1> QED
    <2>1. \A K \in {{}} \cup {{p} : p \in Parts} : K \in SUBSET Parts
      OBVIOUS
    <2> QED
      BY <1>1, <1>2, <1>3, <1>4, <1>5, <1>6, <1>7, <1>8, <1>9, <1>10, <1>11, <1>12,
         <1>13, <1>14, <1>15, <1>16, <1>17, <1>18, <2>1 DEF Next

-----------------------------------------------------------------------------
\* What a step does to the marks, the undo record, the requeue and the answers: one kind
\* for all steps that do the same to them.

SameAnswers == UNCHANGED <<staged, answer, wanted>>

\* ClockStart, RunOnce and Focus.
Starting ==
    /\ job.phase = "idle" /\ Settled /\ job' = Asked /\ SameAnswers
    /\ def'.undo = def.undo /\ def'.status = def.status /\ def'.requeue = def.requeue
    /\ def'.ledger = def.ledger
    /\ \/ def'.focus = def.focus
       \/ def'.focus.parts # {} => "focus_names" \in Faults

\* Redo.
Redoing ==
    /\ def.undo.job # "over" => "redo_meanwhile" \in Faults
    /\ UNCHANGED job \/ (job.phase = "idle" /\ job' = Asked)
    /\ SameAnswers
    /\ def'.undo = NoUndo /\ def'.status = def.status /\ def'.requeue = def.requeue
    /\ def'.focus = def.focus
    /\ \A s \in Sweeps : Marked(def'.ledger, s) =
          IF s = def.undo.sweep THEN Marked(def.ledger, s) \ def.undo.visited
          ELSE Marked(def.ledger, s)

\* RestartCycle, Requeue, and the steps of a clock that leave the definition alone.
Aside ==
    /\ UNCHANGED <<job, staged, answer>>
    /\ def'.undo = def.undo /\ def'.status = def.status /\ def'.focus = def.focus
    /\ \A s \in Sweeps : Marked(def'.ledger, s) \subseteq Marked(def.ledger, s)
    /\ \/ def'.requeue = def.requeue /\ UNCHANGED wanted
       \/ /\ def'.requeue /\ wanted'
          /\ job.phase = "collecting" => "ask_meanwhile" \in Faults

\* The clock that writes over what it read.
Rewinding ==
    /\ Rewindable(def) /\ def' = Rewound(def)
    /\ UNCHANGED job /\ SameAnswers

\* A run that ends with what it collected: kept as material, served or lost.
Ending ==
    /\ job.phase \in {"streaming", "baking"} /\ job' = Idle
    /\ \E e \in {"failed", "over"} :
          /\ def' = [def EXCEPT !.undo = UndoAs(def, e)]
          /\ \/ /\ job.phase = "baking" /\ e = "over" /\ UNCHANGED <<answer, wanted>>
                /\ staged' = [full |-> TRUE, requeue |-> job.requeue]
             \/ /\ Answers("lost") /\ UNCHANGED <<staged, wanted>>
                /\ e = "over" => "stop_download" \in Faults
                /\ job.leftover => "leftover_breaks" \in Faults
             \/ /\ job.phase = "baking" /\ e = "over" /\ Answers("served") /\ UNCHANGED staged
                /\ wanted' = IF job.requeue THEN def.requeue ELSE wanted

LEMMA ForgottenUndo ==
    ASSUME NEW d \in Defs, d.undo.sweep \in Sweeps
    PROVE  \A s \in Sweeps : Marked(ForgetVisits(d.ledger, d.undo.visited, d.undo.sweep), s) =
              IF s = d.undo.sweep THEN Marked(d.ledger, s) \ d.undo.visited
              ELSE Marked(d.ledger, s)
  <1>1. d.ledger \in Ledgers /\ d.undo.sweep \in Sweeps
    BY DEF Defs
  <1> QED BY <1>1, ForgetShape

LEMMA NextKinds ==
    ASSUME Base, [Next]_vars
    PROVE  \/ Starting \/ Redoing \/ Aside \/ Rewinding \/ Ending
           \/ TakeLeftover \/ Collect \/ Refuse \/ Downloaded
           \/ CollectFails \/ CollectOk
  <1> USE BaseTypes
  <1> DEFINE Kinds == \/ Starting \/ Redoing \/ Aside \/ Rewinding \/ Ending
                      \/ TakeLeftover \/ Collect \/ Refuse \/ Downloaded
                      \/ CollectFails \/ CollectOk
  <1>1. ASSUME NEW s \in Sweeps, ClockStart(s) PROVE Starting
    <2>1. def' = [def EXCEPT !.pending = s, !.named = {}]
      BY <1>1 DEF ClockStart, Begin
    <2>2. def'.undo = def.undo /\ def'.status = def.status /\ def'.requeue = def.requeue
          /\ def'.ledger = def.ledger /\ def'.focus = def.focus
      BY <2>1 DEF Defs
    <2> QED BY <1>1, <2>2 DEF ClockStart, Begin, Free, Starting, SameAnswers
  <1>2. ASSUME NEW s \in Sweeps, NEW K, RunOnce(s, K) PROVE Starting
    <2>1. def' = [def EXCEPT !.pending = s, !.named = K]
      BY <1>2 DEF RunOnce, Begin
    <2>2. def'.undo = def.undo /\ def'.status = def.status /\ def'.requeue = def.requeue
          /\ def'.ledger = def.ledger /\ def'.focus = def.focus
      BY <2>1 DEF Defs
    <2> QED BY <1>2, <2>2 DEF RunOnce, Begin, Free, Starting, SameAnswers
  <1>3. ASSUME NEW s \in Sweeps, NEW K, Focus(s, K) PROVE Starting
    <2>1. /\ def' = [def EXCEPT !.focus = [on |-> TRUE, sweep |-> s, parts |-> K]]
          /\ K # {} => "focus_names" \in Faults
      BY <1>3 DEF Focus
    <2>2. def'.undo = def.undo /\ def'.status = def.status /\ def'.requeue = def.requeue
          /\ def'.ledger = def.ledger /\ def'.focus.parts = K
      BY <2>1 DEF Defs
    <2> QED BY <1>3, <2>1, <2>2 DEF Focus, Free, Starting, SameAnswers
  <1>4. ASSUME Redo PROVE Redoing
    <2> DEFINE L    == ForgetVisits(def.ledger, def.undo.visited, def.undo.sweep)
               back == [def EXCEPT !.ledger = L, !.undo = NoUndo]
    <2>1. /\ def.undo.sweep \in Sweeps /\ SameAnswers
          /\ (def.undo.job # "over" => "redo_meanwhile" \in Faults)
          /\ \/ job.phase = "idle" /\ job' = Asked
                /\ def' = [back EXCEPT !.pending = def.undo.sweep, !.named = {}]
             \/ UNCHANGED job /\ def' = back
      BY <1>4 DEF Redo, Begin, SameAnswers, Undos
    <2>2. def.undo.sweep \in Sweeps
      BY <2>1
    <2>3. \A s \in Sweeps : Marked(L, s) =
            IF s = def.undo.sweep THEN Marked(def.ledger, s) \ def.undo.visited
            ELSE Marked(def.ledger, s)
      BY <2>2, ForgottenUndo
    <2> HIDE DEF L
    <2>4. /\ def'.ledger = L /\ def'.undo = NoUndo /\ def'.status = def.status
          /\ def'.requeue = def.requeue /\ def'.focus = def.focus
      BY <2>1 DEF Defs
    <2> QED BY <2>1, <2>3, <2>4 DEF Redoing
  <1>5. ASSUME NEW s \in Sweeps, RestartCycle(s) PROVE Aside
    <2>1. \A t \in Sweeps :
            Marked(ForgetVisits(def.ledger, Parts, s), t) \subseteq Marked(def.ledger, t)
      BY ForgetShape
    <2>2. /\ def'.undo = def.undo /\ def'.status = def.status /\ def'.focus = def.focus
          /\ def'.requeue = def.requeue
          /\ def'.ledger = ForgetVisits(def.ledger, Parts, s)
      BY <1>5 DEF RestartCycle, Defs
    <2> QED BY <1>5, <2>1, <2>2 DEF RestartCycle, Aside
  <1>6. ASSUME Requeue PROVE Aside
    <2>1. /\ def'.undo = def.undo /\ def'.status = def.status /\ def'.focus = def.focus
          /\ def'.requeue = TRUE /\ def'.ledger = def.ledger
      BY <1>6 DEF Requeue, Defs
    <2> QED BY <1>6, <2>1 DEF Requeue, Aside
  <1>7. ASSUME Stop PROVE Ending
    <2>1. "over" \in {"failed", "over"} /\ ("streaming" \in StopsAt => "stop_download" \in Faults)
      BY DEF StopsAt
    <2>2. job.phase = "streaming" => ~job.leftover
      BY DEF Base, ShapeInv
    <2>3. /\ job.phase \in {"streaming", "baking"} /\ job' = Idle /\ UNCHANGED wanted
          /\ def' = [def EXCEPT !.undo = UndoAs(def, "over")]
          /\ \/ /\ job.phase = "baking" /\ UNCHANGED answer
                /\ staged' = [full |-> TRUE, requeue |-> job.requeue]
             \/ Answers("lost") /\ UNCHANGED staged /\ job.phase = "streaming"
                /\ "stop_download" \in Faults
      BY <1>7, <2>1 DEF Stop, StopsAt
    <2> QED BY <2>1, <2>2, <2>3 DEF Ending
  <1>8. ASSUME BakeOk PROVE Ending
    BY <1>8 DEF BakeOk, Ending
  <1>9. ASSUME BakeFails PROVE Ending
    BY <1>9 DEF BakeFails, Ending
  <1>10. ASSUME NEW c \in Clocks, ClockReads(c) PROVE Aside
    BY <1>10 DEF ClockReads, Aside
  <1>11. ASSUME NEW c \in Clocks, ClockWrites(c) PROVE Aside \/ Rewinding
    <2>1. CASE StillAsRead(c)
      BY <1>11, <2>1 DEF ClockWrites, StillAsRead, Rewinding, SameAnswers, Base, ShapeInv
    <2>2. CASE ~StillAsRead(c)
      BY <1>11, <2>2 DEF ClockWrites, Aside
    <2> QED BY <2>1, <2>2
  <1>12. ASSUME UNCHANGED vars PROVE Aside
    BY <1>12 DEF vars, Aside
  <1> QED
    BY <1>1, <1>2, <1>3, <1>4, <1>5, <1>6, <1>7, <1>8, <1>9, <1>10, <1>11, <1>12 DEF Next

-----------------------------------------------------------------------------
\* Each part of the invariant, kind by kind.

LEMMA Phases ==
    /\ Asked.phase = "asked" /\ ~Asked.leftover
    /\ Idle.phase = "idle" /\ ~Idle.leftover
  BY DEF Asked, Idle

LEMMA EndingShape ==
    ASSUME Base, Ending
    PROVE  /\ job.phase \in {"streaming", "baking"} /\ job'.phase = "idle" /\ ~job'.leftover
           /\ ~staged.full
           /\ def'.ledger = def.ledger /\ def'.focus = def.focus /\ def'.status = def.status
           /\ def'.requeue = def.requeue
           /\ def'.undo.sweep = def.undo.sweep /\ def'.undo.visited = def.undo.visited
           /\ def'.undo.requeue = def.undo.requeue
           /\ def.undo.job # "running" => def'.undo.job = def.undo.job
           /\ \/ /\ def.undo.job = "running" => def'.undo.job = "over"
                 /\ UNCHANGED <<answer, wanted>>
                 /\ staged'.full /\ staged'.requeue = job.requeue
              \/ /\ UNCHANGED <<staged, wanted>>
                 /\ \A s \in Sweeps, p \in Parts :
                       answer'[s][p] = IF answer[s][p] = "moving" THEN "lost" ELSE answer[s][p]
                 /\ "stop_download" \in Faults \/
                       (def.undo.job = "running" => def'.undo.job = "failed")
                 /\ job.leftover => "leftover_breaks" \in Faults
              \/ /\ def.undo.job = "running" => def'.undo.job = "over"
                 /\ UNCHANGED staged /\ wanted' = IF job.requeue THEN def.requeue ELSE wanted
                 /\ \A s \in Sweeps, p \in Parts :
                       answer'[s][p] = IF answer[s][p] = "moving" THEN "served" ELSE answer[s][p]
  <1>1. PICK e \in {"failed", "over"} :
          /\ def' = [def EXCEPT !.undo = UndoAs(def, e)]
          /\ \/ /\ job.phase = "baking" /\ e = "over" /\ UNCHANGED <<answer, wanted>>
                /\ staged' = [full |-> TRUE, requeue |-> job.requeue]
             \/ /\ Answers("lost") /\ UNCHANGED <<staged, wanted>>
                /\ e = "over" => "stop_download" \in Faults
                /\ job.leftover => "leftover_breaks" \in Faults
             \/ /\ job.phase = "baking" /\ e = "over" /\ Answers("served") /\ UNCHANGED staged
                /\ wanted' = IF job.requeue THEN def.requeue ELSE wanted
    BY DEF Ending
  <1>2. /\ job.phase \in {"streaming", "baking"} /\ job'.phase = "idle" /\ ~job'.leftover
        /\ ~staged.full
    BY Phases DEF Ending, Base, ShapeInv
  <1>3. /\ def'.ledger = def.ledger /\ def'.focus = def.focus /\ def'.status = def.status
        /\ def'.requeue = def.requeue /\ def'.undo = UndoAs(def, e)
    BY <1>1, BaseTypes DEF Defs
  <1>4. /\ def'.undo.sweep = def.undo.sweep /\ def'.undo.visited = def.undo.visited
        /\ def'.undo.requeue = def.undo.requeue
        /\ def'.undo.job = (IF def.undo.job = "running" THEN e ELSE def.undo.job)
    BY <1>3, UndoAsShape
  <1>5. CASE /\ e = "over" /\ UNCHANGED <<answer, wanted>>
             /\ staged' = [full |-> TRUE, requeue |-> job.requeue]
    BY <1>2, <1>3, <1>4, <1>5
  <1>6. CASE /\ Answers("lost") /\ UNCHANGED <<staged, wanted>>
             /\ e = "over" => "stop_download" \in Faults
             /\ job.leftover => "leftover_breaks" \in Faults
    <2>1. \A s \in Sweeps, p \in Parts :
             answer'[s][p] = IF answer[s][p] = "moving" THEN "lost" ELSE answer[s][p]
      BY <1>6, AnswersShape
    <2> QED BY <1>2, <1>3, <1>4, <1>6, <2>1
  <1>7. CASE /\ e = "over" /\ Answers("served") /\ UNCHANGED staged
             /\ wanted' = IF job.requeue THEN def.requeue ELSE wanted
    <2>1. \A s \in Sweeps, p \in Parts :
             answer'[s][p] = IF answer[s][p] = "moving" THEN "served" ELSE answer[s][p]
      BY <1>7, AnswersShape
    <2> QED BY <1>2, <1>3, <1>4, <1>7, <2>1
  <1> QED BY <1>1, <1>5, <1>6, <1>7

LEMMA RewindingShape ==
    ASSUME Base, Rewinding
    PROVE  /\ Rewindable(def) /\ UNCHANGED job /\ SameAnswers
           /\ def'.undo = NoUndo /\ def'.status = "error" /\ def'.focus = def.focus
           /\ def'.requeue = (def.requeue \/ def.undo.requeue)
           /\ \A s \in Sweeps : Marked(def'.ledger, s) =
                 IF s = def.undo.sweep THEN Marked(def.ledger, s) \ def.undo.visited
                 ELSE Marked(def.ledger, s)
  BY BaseTypes, RewoundShape DEF Rewinding

LEMMA CollectFailsShape ==
    ASSUME Base, CollectFails
    PROVE  /\ job.phase = "collecting" /\ ~staged.full /\ job'.phase = "idle" /\ ~job'.leftover
           /\ def'.ledger = job.base /\ def'.status = "error" /\ def'.requeue = def.requeue
           /\ def'.focus = IF job.focus THEN NoFocus ELSE def.focus
           /\ def'.undo = def.undo \/ def'.undo.visited = {}
           /\ SameAnswers
  <1> DEFINE undo == IF job.focus THEN def.undo
                     ELSE [NoUndo EXCEPT !.sweep = job.sweep, !.requeue = def.requeue,
                                         !.job = "failed"]
             named == IF job.focus THEN def.named ELSE {}
             focus == IF job.focus THEN NoFocus ELSE def.focus
  <1>1. /\ def' = [def EXCEPT !.ledger = job.base, !.undo = undo, !.pending = NoSweep,
                              !.named = named, !.focus = focus, !.status = "error"]
        /\ job' = Idle /\ job.phase = "collecting" /\ SameAnswers
    BY DEF CollectFails, SameAnswers
  <1>2. undo = def.undo \/ undo.visited = {}
    BY DEF NoUndo
  <1> HIDE DEF undo, named, focus
  <1>3. /\ def'.ledger = job.base /\ def'.status = "error" /\ def'.requeue = def.requeue
        /\ def'.focus = focus /\ def'.undo = undo
    BY <1>1, BaseTypes DEF Defs
  <1>4. ~staged.full
    BY <1>1 DEF Base, ShapeInv
  <1> QED BY <1>1, <1>2, <1>3, <1>4, Phases DEF focus

LEMMA CollectOkStart ==
    ASSUME Base, CollectOk
    PROVE  job.phase = "collecting" /\ ~staged.full /\ job.sweep \in Sweeps
  BY DEF CollectOk, Base, ShapeInv

LEMMA WaitsStep ==
    ASSUME Base, [Next]_vars, Without({"early_start"}), WaitsForClock
    PROVE  WaitsForClock'
  <1> USE Phases
  <1>1. CASE Starting
    <2>1. ~Rewindable(def)
      BY <1>1 DEF Starting, Settled, Without
    <2>2. ~(def.undo.job = "failed" /\ def.undo.visited # {})
      BY <2>1 DEF WaitsForClock, Rewindable, Base, ShapeInv
    <2> QED BY <1>1, <2>1, <2>2 DEF Starting, WaitsForClock, Rewindable
  <1>2. CASE Redoing
    BY <1>2 DEF Redoing, WaitsForClock, Rewindable, NoUndo
  <1>3. CASE Aside
    BY <1>3 DEF Aside, WaitsForClock, Rewindable
  <1>4. CASE Rewinding
    BY <1>4, RewindingShape DEF WaitsForClock, Rewindable, NoUndo
  <1>5. CASE Ending
    <2>1. /\ job.phase \in {"streaming", "baking"} /\ job'.phase = "idle"
          /\ def'.status = def.status /\ def'.undo.visited = def.undo.visited
          /\ def.undo.job # "running" => def'.undo.job = def.undo.job
      BY <1>5, EndingShape
    <2>2. def.undo.job = "running" => def.status = "ok"
      BY DEF Base, ShapeInv
    <2> QED BY <2>1, <2>2 DEF WaitsForClock
  <1>6. CASE TakeLeftover
    BY <1>6, BaseTypes DEF TakeLeftover, WaitsForClock, Jobs
  <1>7. CASE Collect
    <2>1. job.phase = "asked" /\ job'.phase = "collecting" /\ UNCHANGED def
      BY <1>7, BaseTypes DEF Collect, Jobs
    <2> QED BY <2>1 DEF WaitsForClock, Rewindable
  <1>8. CASE Refuse
    BY <1>8 DEF Refuse, WaitsForClock
  <1>9. CASE Downloaded
    BY <1>9, BaseTypes DEF Downloaded, WaitsForClock, Jobs
  <1>10. CASE CollectFails
    BY <1>10, CollectFailsShape DEF WaitsForClock
  <1>11. CASE CollectOk
    <2>1. PICK seen \in SUBSET Parts, cut \in SUBSET Parts : CollectedAs(seen, cut)
      BY <1>11, CollectOkShape
    <2>2. job'.phase = "streaming"
      BY <2>1 DEF CollectedAs, Idle
    <2>3. def'.undo = def.undo \/ def'.undo.job = "running"
      BY <2>1 DEF CollectedAs
    <2> QED BY <1>11, <2>2, <2>3, CollectOkStart DEF WaitsForClock
  <1> QED BY <1>1, <1>2, <1>3, <1>4, <1>5, <1>6, <1>7, <1>8, <1>9, <1>10, <1>11, NextKinds

LEMMA NamesStep ==
    ASSUME Base, [Next]_vars, Without({"focus_names"}), FocusNamesNone
    PROVE  FocusNamesNone'
  <1> USE Phases
  <1>1. CASE Starting
    <2>1. def'.focus = def.focus \/ def'.focus.parts = {}
      BY <1>1 DEF Starting, Without
    <2> QED BY <1>1, <2>1 DEF Starting, FocusNamesNone
  <1>2. CASE Redoing
    BY <1>2 DEF Redoing, FocusNamesNone
  <1>3. CASE Aside
    BY <1>3 DEF Aside, FocusNamesNone
  <1>4. CASE Rewinding
    BY <1>4, RewindingShape DEF FocusNamesNone
  <1>5. CASE Ending
    BY <1>5, EndingShape DEF FocusNamesNone
  <1>6. CASE TakeLeftover
    BY <1>6, BaseTypes DEF TakeLeftover, FocusNamesNone, Jobs
  <1>7. CASE Collect
    <2>1. UNCHANGED def
      BY <1>7 DEF Collect
    <2>2. PICK s : /\ job'.focus = def.focus.on
                   /\ job'.keys = KeysOfRun(s)
      BY <1>7, BaseTypes DEF Collect, Jobs
    <2>3. def.focus.on => job'.keys = ByKey({})
      BY <2>2 DEF KeysOfRun, FocusNamesNone
    <2>4. ByKey({}) \in Seq(Parts) /\ Members(ByKey({})) = {}
      BY ByKeyShape
    <2>5. ByKey({}) = <<>>
      <3>1. ASSUME NEW q \in Seq(Parts), Members(q) = {} PROVE q = <<>>
        <4>1. Len(q) \in Nat
          OBVIOUS
        <4>2. 1 \in 1..Len(q) => q[1] \in Members(q)
          BY DEF Members
        <4>3. 1 \notin 1..Len(q)
          BY <3>1, <4>2
        <4>4. Len(q) = 0
          BY <4>1, <4>3
        <4> QED BY <4>4
      <3> QED BY <2>4, <3>1
    <2> QED BY <2>1, <2>2, <2>3, <2>5 DEF FocusNamesNone
  <1>8. CASE Refuse
    BY <1>8 DEF Refuse, FocusNamesNone
  <1>9. CASE Downloaded
    BY <1>9, BaseTypes DEF Downloaded, FocusNamesNone, Jobs
  <1>10. CASE CollectFails
    BY <1>10, CollectFailsShape DEF FocusNamesNone, NoFocus
  <1>11. CASE CollectOk
    <2>1. PICK seen \in SUBSET Parts, cut \in SUBSET Parts : CollectedAs(seen, cut)
      BY <1>11, CollectOkShape
    <2>2. job'.phase = "streaming"
      BY <2>1 DEF CollectedAs, Idle
    <2>3. def'.focus = def.focus \/ ~def'.focus.on
      BY <2>1 DEF CollectedAs, NoFocus
    <2> QED BY <2>2, <2>3 DEF FocusNamesNone
  <1> QED BY <1>1, <1>2, <1>3, <1>4, <1>5, <1>6, <1>7, <1>8, <1>9, <1>10, <1>11, NextKinds

LEMMA FailedStep ==
    ASSUME Base, [Next]_vars, FailedInv,
           Without({"early_start"}) => WaitsForClock,
           Without({"focus_names"}) => FocusNamesNone,
           EarlyNamed
    PROVE  FailedInv'
  <1> USE Phases
  <1>1. CASE Starting
    BY <1>1 DEF Starting, SameAnswers, FailedInv
  <1>2. CASE Redoing
    BY <1>2 DEF Redoing, NoUndo, FailedInv
  <1>3. CASE Aside
    BY <1>3 DEF Aside, FailedInv
  <1>4. CASE Rewinding
    BY <1>4, RewindingShape DEF NoUndo, FailedInv
  <1>5. CASE Ending
    <2> SUFFICES ASSUME def'.undo.job = "failed", NEW p \in def'.undo.visited
                 PROVE  answer'[def'.undo.sweep][p] \in {"none", "lost"}
      BY DEF FailedInv
    <2>1. /\ def'.undo.sweep = def.undo.sweep /\ def'.undo.visited = def.undo.visited
          /\ def.undo.job # "running" => def'.undo.job = def.undo.job
      BY <1>5, EndingShape
    <2>2. p \in Parts /\ def.undo.sweep \in Sweeps
      BY <2>1, BaseTypes DEF Undos, Base, ShapeInv
    <2>3. CASE def.undo.job = "running"
      <3>1. answer[def.undo.sweep][p] = "moving"
        BY <2>1, <2>3 DEF Base, MovingInv
      <3>2. \A s \in Sweeps, q \in Parts :
               answer'[s][q] = IF answer[s][q] = "moving" THEN "lost" ELSE answer[s][q]
        BY <1>5, <2>3, EndingShape
      <3> QED BY <2>1, <2>2, <3>1, <3>2
    <2>4. CASE def.undo.job # "running"
      <3>1. answer[def.undo.sweep][p] \in {"none", "lost"}
        BY <2>1, <2>4 DEF FailedInv
      <3>2. answer'[def.undo.sweep][p] = answer[def.undo.sweep][p]
        BY <1>5, <2>2, <3>1, EndingShape
      <3> QED BY <2>1, <3>1, <3>2
    <2> QED BY <2>3, <2>4
  <1>6. CASE TakeLeftover
    BY <1>6 DEF TakeLeftover, FailedInv
  <1>7. CASE Collect
    BY <1>7 DEF Collect, FailedInv
  <1>8. CASE Refuse
    BY <1>8 DEF Refuse, FailedInv
  <1>9. CASE Downloaded
    BY <1>9 DEF Downloaded, FailedInv
  <1>10. CASE CollectFails
    BY <1>10, CollectFailsShape DEF SameAnswers, FailedInv
  <1>11. CASE CollectOk
    <2>1. PICK seen \in SUBSET Parts, cut \in SUBSET Parts : CollectedAs(seen, cut)
      BY <1>11, CollectOkShape
    <2> SUFFICES ASSUME def'.undo.job = "failed", NEW p \in def'.undo.visited
                 PROVE  answer'[def'.undo.sweep][p] \in {"none", "lost"}
      BY DEF FailedInv
    <2>2. job.focus /\ def'.undo = def.undo
      BY <2>1 DEF CollectedAs
    <2>3. ~(def.undo.job = "failed" /\ def.undo.visited # {} /\ job.phase = "collecting")
          \/ FocusNamesNone
      BY DEF EarlyNamed, WaitsForClock
    <2>4. job.keys = <<>>
      BY <1>11, <2>2, <2>3, CollectOkStart DEF FocusNamesNone
    <2>5. seen = {} /\ GiveUp(job.base, cut, job.sweep) = {}
      BY <2>1, <2>4 DEF CollectedAs, GiveUp
    <2>6. p \in Parts /\ def.undo.sweep \in Sweeps
      BY <2>2, BaseTypes DEF Undos, Base, ShapeInv
    <2>7. answer'[def.undo.sweep][p] = answer[def.undo.sweep][p]
      BY <2>1, <2>5, <2>6 DEF CollectedAs
    <2> QED BY <2>2, <2>7 DEF FailedInv
  <1> QED BY <1>1, <1>2, <1>3, <1>4, <1>5, <1>6, <1>7, <1>8, <1>9, <1>10, <1>11, NextKinds

\* While a run is in its bake, no mark is lost: nothing waits for a clock.
LEMMA NoneLost ==
    ASSUME Base, WaitsForClock, EarnedInv, job.phase \in {"asked", "collecting", "streaming", "baking"}
    PROVE  \A s \in Sweeps : \A p \in Marked(def.ledger, s) : answer[s][p] # "lost"
  <1> SUFFICES ASSUME NEW s \in Sweeps, NEW p \in Marked(def.ledger, s), answer[s][p] = "lost"
               PROVE  FALSE
    OBVIOUS
  <1>1. Rewindable(def) /\ p \in def.undo.visited
    BY DEF EarnedInv, MarksAreEarned
  <1> QED BY <1>1 DEF WaitsForClock, Rewindable

LEMMA EarnedStep ==
    ASSUME Base, [Next]_vars, ForMarks, WaitsForClock, FocusNamesNone, FailedInv, EarnedInv
    PROVE  EarnedInv'
  <1> USE Phases
  <1>0. "stop_download" \notin Faults /\ "leftover_breaks" \notin Faults /\ "early_start" \notin Faults
    BY DEF ForMarks, Without
  <1> DEFINE Mine(s, p) == def.undo.sweep = s /\ p \in def.undo.visited
             Once(s, p) == /\ answer[s][p] = "lost" => Rewindable(def) /\ Mine(s, p)
                           /\ answer[s][p] = "moving" =>
                                 staged.full \/ job.leftover \/ (def.undo.job = "running" /\ Mine(s, p))
  <1>20. \A s \in Sweeps : \A p \in Marked(def.ledger, s) : Once(s, p)
    BY DEF EarnedInv, MarksAreEarned
  <1>21. SUFFICES /\ \A s \in Sweeps : \A p \in Marked(def'.ledger, s) :
                        /\ answer'[s][p] = "lost" =>
                              Rewindable(def') /\ def'.undo.sweep = s /\ p \in def'.undo.visited
                        /\ answer'[s][p] = "moving" =>
                              \/ staged'.full \/ job'.leftover
                              \/ /\ def'.undo.job = "running"
                                 /\ def'.undo.sweep = s /\ p \in def'.undo.visited
                  /\ job'.phase = "collecting" =>
                        \A s \in Sweeps : \A p \in Marked(job'.base, s) :
                           answer'[s][p] \in {"none", "served"}
    BY DEF EarnedInv, MarksAreEarned
  <1>22. job.phase = "collecting" =>
            \A s \in Sweeps : \A p \in Marked(job.base, s) : answer[s][p] \in {"none", "served"}
    BY DEF EarnedInv
  <1>23. ASSUME NEW s \in Sweeps, NEW p \in Marked(def.ledger, s)
         PROVE  p \in Parts /\ answer[s][p] \in {"none", "moving", "served", "lost"}
    <2>1. p \in Parts
      BY BaseTypes, MarkedIsMembers DEF Defs
    <2> QED BY <2>1, BaseTypes
  <1>24. job.phase # "baking" => ~job.leftover
    BY DEF Base, ShapeInv
  <1>25. def.undo.job = "running" => job.phase \in {"streaming", "baking"} /\ def.status = "ok"
    BY DEF Base, ShapeInv
  <1>1. CASE Starting
    BY <1>1, <1>20, <1>24, <1>25 DEF Starting, SameAnswers, Rewindable, Marked
  <1>2. CASE Redoing
    <2>1. /\ job' = job \/ job'.phase = "asked"
          /\ UNCHANGED <<staged, answer>>
          /\ job.leftover => job' = job
      BY <1>2, <1>24 DEF Redoing, SameAnswers
    <2>2. ASSUME NEW s \in Sweeps, NEW p \in Marked(def'.ledger, s)
          PROVE  p \in Marked(def.ledger, s) /\ ~Mine(s, p)
      BY <1>2 DEF Redoing
    <2>3. ASSUME NEW s \in Sweeps, NEW p \in Marked(def'.ledger, s)
          PROVE  /\ answer'[s][p] # "lost"
                 /\ answer'[s][p] = "moving" => staged'.full \/ job'.leftover
      <3>1. Once(s, p) /\ ~Mine(s, p)
        BY <1>20, <2>2
      <3> QED BY <2>1, <3>1
    <2> QED BY <1>22, <2>1, <2>3
  <1>3. CASE Aside
    BY <1>3, <1>20, <1>22 DEF Aside, Rewindable
  <1>4. CASE Rewinding
    <2>1. def.undo.job = "failed"
      BY <1>4, RewindingShape DEF Rewindable
    <2>2. UNCHANGED <<job, staged, answer>>
      BY <1>4, RewindingShape DEF SameAnswers
    <2>3. ASSUME NEW s \in Sweeps, NEW p \in Marked(def'.ledger, s)
          PROVE  p \in Marked(def.ledger, s) /\ ~Mine(s, p)
      BY <1>4, RewindingShape
    <2>4. ASSUME NEW s \in Sweeps, NEW p \in Marked(def'.ledger, s)
          PROVE  /\ answer'[s][p] # "lost"
                 /\ answer'[s][p] = "moving" => staged'.full \/ job'.leftover
      <3>1. Once(s, p) /\ ~Mine(s, p)
        BY <1>20, <2>3
      <3> QED BY <2>2, <3>1
    <2> QED BY <1>22, <2>2, <2>4
  <1>5. CASE Ending
    <2>1. /\ job.phase \in {"streaming", "baking"} /\ job'.phase = "idle" /\ ~staged.full
          /\ def'.ledger = def.ledger /\ def'.status = def.status
          /\ def'.undo.sweep = def.undo.sweep /\ def'.undo.visited = def.undo.visited
      BY <1>5, EndingShape
    <2>2. \A s \in Sweeps : \A p \in Marked(def.ledger, s) : p \in Parts /\ answer[s][p] # "lost"
      BY <1>23, <2>1, NoneLost
    <2>3. CASE UNCHANGED answer /\ staged'.full
      BY <2>1, <2>2, <2>3 DEF Marked
    <2>4. CASE /\ UNCHANGED staged /\ ~job.leftover
               /\ \A s \in Sweeps, p \in Parts :
                     answer'[s][p] = IF answer[s][p] = "moving" THEN "lost" ELSE answer[s][p]
               /\ def.undo.job = "running" => def'.undo.job = "failed"
      <3>1. ASSUME NEW s \in Sweeps, NEW p \in Marked(def.ledger, s)
            PROVE  /\ answer'[s][p] # "moving"
                   /\ answer'[s][p] = "lost" => Rewindable(def') /\ Mine(s, p)
        <4>1. answer'[s][p] = IF answer[s][p] = "moving" THEN "lost" ELSE answer[s][p]
          BY <2>2, <2>4
        <4>2. answer[s][p] = "moving" => def.undo.job = "running" /\ Mine(s, p)
          BY <1>20, <2>1, <2>4
        <4>3. def.undo.job = "running" => Rewindable(def')
          BY <1>25, <2>1, <2>4 DEF Rewindable, Base, ShapeInv
        <4> QED BY <2>2, <4>1, <4>2, <4>3
      <3> QED BY <2>1, <3>1 DEF Marked
    <2>5. CASE /\ UNCHANGED staged
               /\ \A s \in Sweeps, p \in Parts :
                     answer'[s][p] = IF answer[s][p] = "moving" THEN "served" ELSE answer[s][p]
      <3>1. ASSUME NEW s \in Sweeps, NEW p \in Marked(def.ledger, s)
            PROVE  answer'[s][p] \notin {"moving", "lost"}
        BY <2>2, <2>5
      <3> QED BY <2>1, <3>1 DEF Marked
    <2> QED BY <1>0, <1>5, <2>3, <2>4, <2>5, EndingShape
  <1>6. CASE TakeLeftover
    <2>1. UNCHANGED <<def, answer>> /\ job'.leftover /\ job'.phase = "baking"
      BY <1>6, BaseTypes DEF TakeLeftover, Jobs
    <2> QED BY <1>20, <2>1
  <1>7. CASE Collect
    <2>1. /\ job.phase = "asked" /\ ~staged.full /\ UNCHANGED <<def, answer, staged>>
          /\ job'.base = def.ledger
      BY <1>7, BaseTypes DEF Collect, Jobs
    <2>2. \A s \in Sweeps : \A p \in Marked(def.ledger, s) : answer[s][p] \in {"none", "served"}
      <3>1. \A s \in Sweeps, p \in Parts : answer[s][p] # "moving"
        BY <2>1 DEF Base, MovingInv
      <3> QED BY <1>23, <2>1, <3>1, NoneLost
    <2> QED BY <2>1, <2>2 DEF Marked
  <1>8. CASE Refuse
    <2>1. UNCHANGED <<def, answer, staged>> /\ ~job.leftover /\ job'.phase = "idle"
      BY <1>8, <1>24 DEF Refuse
    <2> QED BY <1>20, <2>1
  <1>9. CASE Downloaded
    <2>1. UNCHANGED <<def, answer, staged>> /\ job'.leftover = job.leftover /\ job'.phase = "baking"
      BY <1>9, BaseTypes DEF Downloaded, Jobs
    <2> QED BY <1>20, <2>1
  <1>10. CASE CollectFails
    <2>1. def'.ledger = job.base /\ job.phase = "collecting" /\ job'.phase = "idle" /\ UNCHANGED answer
      BY <1>10, CollectFailsShape DEF SameAnswers
    <2> QED BY <1>22, <2>1 DEF Marked
  <1>11. CASE CollectOk
    <2>1. PICK seen \in SUBSET Parts, cut \in SUBSET Parts : CollectedAs(seen, cut)
      BY <1>11, CollectOkShape
    <2> DEFINE s0    == job.sweep
               given == GiveUp(job.base, cut, s0)
    <2>2. job.phase = "collecting" /\ s0 \in Sweeps
      BY <1>11, CollectOkStart
    <2>3. job'.phase = "streaming"
      BY <2>1 DEF CollectedAs, Idle
    <2>4. seen # {} => def'.undo.job = "running" /\ def'.undo.sweep = s0 /\ def'.undo.visited = seen
      <3>1. seen # {} => ~job.focus
        BY <2>1, <2>2 DEF CollectedAs, FocusNamesNone
      <3> QED BY <2>1, <3>1 DEF CollectedAs
    <2>5. ASSUME NEW t \in Sweeps, NEW p \in Marked(def'.ledger, t)
          PROVE  /\ answer'[t][p] # "lost"
                 /\ answer'[t][p] = "moving" =>
                       def'.undo.job = "running" /\ def'.undo.sweep = t /\ p \in def'.undo.visited
      <3>1. p \in Marked(job.base, t) \/ (t = s0 /\ p \in seen) \/ (t = s0 /\ p \in given)
        BY <2>1 DEF CollectedAs
      <3>2. p \in Marked(job.base, t) => answer[t][p] \in {"none", "served"}
        BY <1>22, <2>2
      <3>3. p \in Parts
        <4>1. Marked(job.base, t) \subseteq Parts
          BY BaseTypes, MarkedIsMembers
        <4>2. given \subseteq Parts
          BY DEF GiveUp
        <4> QED BY <3>1, <4>1, <4>2
      <3>4. answer'[t][p] = IF t = s0 /\ p \in seen THEN "moving"
                            ELSE IF t = s0 /\ p \in given THEN "none" ELSE answer[t][p]
        BY <2>1, <3>3 DEF CollectedAs
      <3> QED BY <2>4, <3>1, <3>2, <3>4
    <2> QED BY <2>3, <2>5
  <1> QED BY <1>1, <1>2, <1>3, <1>4, <1>5, <1>6, <1>7, <1>8, <1>9, <1>10, <1>11, NextKinds

LEMMA RequeueStep ==
    ASSUME Base, [Next]_vars, ForRequeue, WaitsForClock, RequeueInv
    PROVE  RequeueInv'
  <1> USE Phases
  <1>0. /\ "stop_download" \notin Faults /\ "leftover_breaks" \notin Faults
        /\ "ask_meanwhile" \notin Faults /\ "redo_meanwhile" \notin Faults
    BY DEF ForRequeue, Without
  <1>20. wanted => \/ def.requeue
                   \/ job.requeue /\ job.phase \in {"streaming", "baking"}
                   \/ staged.full /\ staged.requeue
                   \/ Rewindable(def) /\ def.undo.requeue
    BY DEF RequeueInv, RequeueIsKept
  <1>21. job.phase = "collecting" => job.requeue = def.requeue
    BY DEF RequeueInv
  <1>22. job.phase \in {"streaming", "baking"} /\ ~job.leftover /\ job.requeue /\ ~def.requeue =>
            def.undo.job = "running" /\ def.undo.requeue
    BY DEF RequeueInv
  <1>23. job.phase \in {"asked", "collecting"} => ~Rewindable(def)
    BY DEF WaitsForClock
  <1>24. /\ job.phase # "baking" => ~job.leftover
         /\ job.phase \in {"collecting", "streaming", "baking"} => ~staged.full
         /\ def.undo.job = "running" =>
               /\ job.phase \in {"streaming", "baking"} /\ def.status = "ok"
               /\ def.undo.sweep # NoSweep
    BY DEF Base, ShapeInv
  <1>25. wanted \in BOOLEAN /\ def.requeue \in BOOLEAN /\ job.requeue \in BOOLEAN
         /\ def.undo.requeue \in BOOLEAN /\ job.focus \in BOOLEAN
    BY BaseTypes DEF Base, ShapeInv, TypeOK, Defs, Undos, Jobs
  <1>26. SUFFICES
           /\ wanted' => \/ def'.requeue
                         \/ job'.requeue /\ job'.phase \in {"streaming", "baking"}
                         \/ staged'.full /\ staged'.requeue
                         \/ Rewindable(def') /\ def'.undo.requeue
           /\ job'.phase = "collecting" => job'.requeue = def'.requeue
           /\ job'.phase \in {"streaming", "baking"} /\ ~job'.leftover /\ job'.requeue /\ ~def'.requeue =>
                 def'.undo.job = "running" /\ def'.undo.requeue
    BY DEF RequeueInv, RequeueIsKept
  <1>1. CASE Starting
    BY <1>1, <1>20 DEF Starting, SameAnswers, Rewindable
  <1>2. CASE Redoing
    <2>1. def.undo.job = "over"
      BY <1>0, <1>2 DEF Redoing
    <2>2. ~Rewindable(def)
      BY <2>1 DEF Rewindable
    <2>3. UNCHANGED <<staged, wanted>> /\ def'.requeue = def.requeue
          /\ (job' = job \/ (job.phase = "idle" /\ job'.phase = "asked"))
      BY <1>2 DEF Redoing, SameAnswers
    <2> QED BY <1>20, <1>21, <1>22, <2>1, <2>2, <2>3
  <1>3. CASE Aside
    <2>1. UNCHANGED <<job, staged>> /\ def'.undo = def.undo /\ Rewindable(def') = Rewindable(def)
      BY <1>3 DEF Aside, Rewindable
    <2>2. CASE def'.requeue = def.requeue /\ UNCHANGED wanted
      BY <1>20, <1>21, <1>22, <2>1, <2>2
    <2>3. CASE def'.requeue /\ job.phase # "collecting"
      BY <2>1, <2>3
    <2> QED BY <1>0, <1>3, <2>2, <2>3 DEF Aside
  <1>4. CASE Rewinding
    <2>1. /\ Rewindable(def) /\ UNCHANGED <<job, staged, wanted>>
          /\ def'.requeue = (def.requeue \/ def.undo.requeue)
      BY <1>4, RewindingShape DEF SameAnswers
    <2>2. job.phase # "collecting" /\ def.undo.job # "running"
      BY <1>23, <2>1 DEF Rewindable
    <2> QED BY <1>20, <1>22, <1>25, <2>1, <2>2
  <1>5. CASE Ending
    <2>1. /\ job.phase \in {"streaming", "baking"} /\ job'.phase = "idle" /\ ~staged.full
          /\ def'.requeue = def.requeue /\ def'.undo.requeue = def.undo.requeue
          /\ def'.status = def.status /\ def'.undo.sweep = def.undo.sweep
          /\ def.undo.job # "running" => def'.undo.job = def.undo.job
      BY <1>5, EndingShape
    <2>2. Rewindable(def) => Rewindable(def')
      BY <2>1 DEF Rewindable
    <2>3. CASE UNCHANGED wanted /\ staged'.full /\ staged'.requeue = job.requeue
      BY <1>20, <2>1, <2>2, <2>3
    <2>4. CASE /\ UNCHANGED <<staged, wanted>> /\ ~job.leftover
               /\ def.undo.job = "running" => def'.undo.job = "failed"
      <3>1. job.requeue /\ ~def.requeue => Rewindable(def') /\ def'.undo.requeue
        BY <1>22, <1>24, <2>1, <2>4 DEF Rewindable
      <3> QED BY <1>20, <2>1, <2>2, <2>4, <3>1
    <2>5. CASE UNCHANGED staged /\ wanted' = IF job.requeue THEN def.requeue ELSE wanted
      BY <1>20, <2>1, <2>2, <2>5
    <2> QED BY <1>0, <1>5, <2>3, <2>4, <2>5, EndingShape
  <1>6. CASE TakeLeftover
    <2>1. /\ job.phase = "asked" /\ UNCHANGED <<def, wanted>>
          /\ job'.phase = "baking" /\ job'.leftover /\ job'.requeue = staged.requeue
      BY <1>6, BaseTypes DEF TakeLeftover, Jobs
    <2> QED BY <1>20, <2>1
  <1>7. CASE Collect
    <2>1. /\ job.phase = "asked" /\ UNCHANGED <<def, staged, wanted>>
          /\ job'.phase = "collecting" /\ job'.requeue = def.requeue
      BY <1>7, BaseTypes DEF Collect, Jobs
    <2> QED BY <1>20, <2>1
  <1>8. CASE Refuse
    <2>1. job.phase = "asked" /\ UNCHANGED <<def, staged, wanted>> /\ job'.phase = "idle"
      BY <1>8 DEF Refuse
    <2> QED BY <1>20, <2>1
  <1>9. CASE Downloaded
    <2>1. /\ job.phase = "streaming" /\ UNCHANGED <<def, staged, wanted>>
          /\ job'.phase = "baking" /\ job'.requeue = job.requeue /\ job'.leftover = job.leftover
      BY <1>9, BaseTypes DEF Downloaded, Jobs
    <2> QED BY <1>20, <1>22, <2>1
  <1>10. CASE CollectFails
    <2>1. /\ job.phase = "collecting" /\ ~staged.full /\ job'.phase = "idle"
          /\ def'.requeue = def.requeue /\ UNCHANGED wanted
      BY <1>10, CollectFailsShape DEF SameAnswers
    <2> QED BY <1>20, <1>23, <2>1
  <1>11. CASE CollectOk
    <2>1. PICK seen \in SUBSET Parts, cut \in SUBSET Parts : CollectedAs(seen, cut)
      BY <1>11, CollectOkShape
    <2>2. job.phase = "collecting" /\ ~staged.full
      BY <1>11, CollectOkStart
    <2>3. /\ job'.phase = "streaming" /\ job'.requeue = job.requeue /\ UNCHANGED wanted
          /\ def'.requeue = (def.requeue /\ job.focus)
          /\ ~job.focus => def'.undo.job = "running" /\ def'.undo.requeue = def.requeue
      BY <2>1 DEF CollectedAs, Idle
    <2> QED BY <1>20, <1>21, <1>23, <1>25, <2>2, <2>3
  <1> QED BY <1>1, <1>2, <1>3, <1>4, <1>5, <1>6, <1>7, <1>8, <1>9, <1>10, <1>11, NextKinds

-----------------------------------------------------------------------------
\* The invariant, and what follows from it.

LedgerInv ==
    /\ Base
    /\ Without({"early_start"}) => WaitsForClock
    /\ Without({"focus_names"}) => FocusNamesNone
    /\ EarlyNamed => FailedInv
    /\ ForMarks => EarnedInv
    /\ ForRequeue => RequeueInv

LEMMA Fewer ==
    /\ ForMarks => Without({"early_start"}) /\ Without({"focus_names"}) /\ EarlyNamed
    /\ ForRequeue => Without({"early_start"})
  BY DEF ForMarks, ForRequeue, EarlyNamed, Without

LEMMA InitLedger == Init => LedgerInv
  <1> SUFFICES ASSUME Init PROVE LedgerInv
    OBVIOUS
  <1>1. Base
    BY InitInv DEF Base
  <1>2. job.phase = "idle" /\ def.undo = NoUndo /\ ~def.focus.on /\ ~wanted
    BY Phases DEF Init, NoFocus
  <1>3. def.undo.job = "over"
    BY <1>2 DEF NoUndo
  <1>4. \A s \in Sweeps : Marked(def.ledger, s) = {}
    BY EmptyTyped DEF Init
  <1>5. WaitsForClock /\ FocusNamesNone /\ FailedInv
    BY <1>2, <1>3 DEF WaitsForClock, FocusNamesNone, FailedInv, Rewindable
  <1>6. EarnedInv
    BY <1>2, <1>4 DEF EarnedInv, MarksAreEarned
  <1>7. RequeueInv
    BY <1>2 DEF RequeueInv, RequeueIsKept
  <1> QED BY <1>1, <1>5, <1>6, <1>7 DEF LedgerInv

LEMMA NextLedger == LedgerInv /\ [Next]_vars => LedgerInv'
  <1> SUFFICES ASSUME LedgerInv, [Next]_vars PROVE LedgerInv'
    OBVIOUS
  <1>1. Base'
    BY NextBase DEF LedgerInv
  <1>2. Without({"early_start"}) => WaitsForClock'
    BY WaitsStep DEF LedgerInv
  <1>3. Without({"focus_names"}) => FocusNamesNone'
    BY NamesStep DEF LedgerInv
  <1>4. EarlyNamed => FailedInv'
    BY FailedStep DEF LedgerInv
  <1>5. ForMarks => EarnedInv'
    BY EarnedStep, Fewer DEF LedgerInv
  <1>6. ForRequeue => RequeueInv'
    BY RequeueStep, Fewer DEF LedgerInv
  <1> QED BY <1>1, <1>2, <1>3, <1>4, <1>5, <1>6 DEF LedgerInv, Without, EarlyNamed, ForMarks, ForRequeue

LEMMA LedgerInvariant == Spec => []LedgerInv
  BY InitLedger, NextLedger, PTL DEF Spec

\* The definition, the run and what a clock holds stay what their types say: record_result,
\* the requests of persons and the two clocks write whole definitions over each other.
THEOREM LedgerTyped == Spec => []TypeOK
  <1>1. LedgerInv => TypeOK
    BY DEF LedgerInv, Base, ShapeInv
  <1> QED BY <1>1, LedgerInvariant, PTL

\* Two clocks see the same failed bake; put_if lets one of them write, so the history gets
\* one row, in every order of events the model has.
THEOREM FailureIsToldOnce == Spec => []RewoundOnce
  <1>1. LedgerInv => RewoundOnce
    BY DEF LedgerInv, Base, RowsInv, RewoundOnce
  <1> QED BY <1>1, LedgerInvariant, PTL

\* What a clock moves back carries nothing that is served.
LEMMA SparesStep ==
    ASSUME LedgerInv, [Next]_vars, EarlyNamed,
           NEW c \in Clocks, read[c].got, ~read'[c].got,
           NEW s \in Sweeps, NEW p \in Marked(def.ledger, s), answer[s][p] = "served"
    PROVE  p \in Marked(def'.ledger, s)
  <1>1. Base /\ FailedInv
    BY DEF LedgerInv
  <1>2. UNCHANGED read \/ \E x \in Clocks : ClockReads(x) \/ ClockWrites(x)
    BY DEF Next, vars, ClockStart, RunOnce, Focus, Redo, RestartCycle, Requeue, TakeLeftover,
           Collect, Refuse, CollectFails, CollectOk, Downloaded, Stop, BakeOk, BakeFails
  <1>3. PICK x \in Clocks : ClockReads(x) \/ ClockWrites(x)
    BY <1>2
  <1>4. DOMAIN read = Clocks
    BY <1>1 DEF Base, ShapeInv
  <1>5. ASSUME ClockReads(x) PROVE FALSE
    BY <1>4, <1>5 DEF ClockReads
  <1>6. CASE ClockWrites(x) /\ StillAsRead(x)
    <2>1. Rewindable(def) /\ def' = Rewound(def)
      BY <1>1, <1>6 DEF ClockWrites, StillAsRead, Base, ShapeInv
    <2>2. Marked(def'.ledger, s) = IF s = def.undo.sweep THEN Marked(def.ledger, s) \ def.undo.visited
                                   ELSE Marked(def.ledger, s)
      BY <1>1, <2>1, RewoundShape, BaseTypes
    <2>3. s = def.undo.sweep => p \notin def.undo.visited
      BY <1>1, <2>1 DEF FailedInv, Rewindable
    <2> QED BY <2>2, <2>3
  <1>7. CASE ClockWrites(x) /\ ~StillAsRead(x)
    BY <1>7 DEF ClockWrites
  <1> QED BY <1>3, <1>5, <1>6, <1>7

\* A failed bake is taken back as it was, whichever clock sees it first and whatever ran
\* meanwhile: the history tells it once, and rewind_failed_bake takes no mark whose answers are
\* served. Only a run that starts before a clock looked AND a focus that names partitions
\* together can break it.
THEOREM RewindHolds ==
    ASSUME EarlyNamed
    PROVE  Spec => RewindIsRight
  <1>1. LedgerInv /\ [Next]_vars =>
          [\A c \in Clocks : read[c].got /\ ~read'[c].got =>
             \A s \in Sweeps : \A p \in Marked(def.ledger, s) :
               answer[s][p] = "served" => p \in Marked(def'.ledger, s)]_vars
    BY SparesStep
  <1> QED BY <1>1, FailureIsToldOnce, LedgerInvariant, PTL
       DEF Spec, RewindIsRight, RewindSparesTheServed

\* A mark stands for answers that are served, or on their way, or it is about to be taken
\* back: record_result writes it before the bake, and rewind_failed_bake undoes it. For any
\* partitions, sweeps, limits and clocks, whatever is asked for while a run is under way.
THEOREM MarksEarned ==
    ASSUME ForMarks
    PROVE  Spec => []MarksAreEarned
  <1>1. LedgerInv => MarksAreEarned
    BY DEF LedgerInv, EarnedInv
  <1> QED BY <1>1, LedgerInvariant, PTL

\* A requeue a person asked for (POST .../requeue) is still to come, in the material on its way,
\* or comes back when the clocks undo the failed bake that took it along.
THEOREM RequeueKept ==
    ASSUME ForRequeue
    PROVE  Spec => []RequeueIsKept
  <1>1. LedgerInv => RequeueIsKept
    BY DEF LedgerInv, RequeueInv
  <1> QED BY <1>1, LedgerInvariant, PTL

================================================================================
