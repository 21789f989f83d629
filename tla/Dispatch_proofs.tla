----------------------------- MODULE Dispatch_proofs ---------------------------
(***************************************************************************)
(* What holds of Dispatch for any number of clocks, requests, workers,     *)
(* collections and sweeps, any cast, and any interleaving.                 *)
(*                                                                         *)
(* The argument has two layers.                                            *)
(*                                                                         *)
(* Base holds under every cast.  It says where a process may hold an entry *)
(* (LocalOK: from the take to the end of the start, and the entry is the   *)
(* one whose sweep is being started), that every id is in one place - one  *)
(* hand, the line, or the notes - and that the line is a strict order      *)
(* without twins (Protocol, QueueOK), and that without faults a start      *)
(* fails for a reason that puts the entry back (Codes).  DispatchTyped,    *)
(* QueueProtocolKept and NothingIsGivenUp follow.                          *)
(*                                                                         *)
(* Alone(c) holds when the clock c has nobody beside it (ClockAlone).  The *)
(* clock works on copies: the names of what ran when it asked the trigger, *)
(* the workers that were noted when it surveyed the queue.  The invariant  *)
(* says that the copies err on one side only: every run is in the names or *)
(* is the one being noted (Knows), every note is in the copy (Surveyed),   *)
(* every worker's run has its note (Matched); and that what was looked up  *)
(* about the entry in hand stays true until the run begins, because the    *)
(* runs that go on meanwhile are of other collections (DueStill, Picked).  *)
(* ClockRunsRight and ClockRunsDue follow.                                 *)
(***************************************************************************)
EXTENDS Dispatch, Lists_proofs, FiniteSetTheorems

-----------------------------------------------------------------------------
\* What holds of the locals of one process, whatever the others do.

Fields == {"errand", "at", "seen", "names", "free", "todo", "busy", "hand", "sweep", "was",
           "code"}

\* In start_collection_bake and what follows it.
Starting == {"checking", "marking", "sending", "rechecking", "restoring", "failed",
             "clearing", "dropping", "stamping", "noting"}

Maybe == Sweeps \cup {NoSweep}

\* A dispatcher that is starting has one entry in hand, a person's request has none.
LocalOK(r) ==
    /\ DOMAIN r = Fields
    /\ r.seen \subseteq Sweeps /\ r.busy \subseteq Workers /\ r.hand \subseteq Entry
    /\ r.sweep \in Maybe /\ r.was \in Maybe
    /\ r.at \in Starting =>
          /\ r.sweep \in Sweeps
          /\ r.errand # "ask" => \E e \in Entry : r.hand = {e} /\ e.sweep = r.sweep
          /\ r.errand = "ask" => r.hand = {}
    /\ r.at \notin Starting => r.hand = {} /\ r.errand # "ask"

Locals ==
    /\ DOMAIN proc = Procs
    /\ \A p \in Procs : LocalOK(proc[p])

Noted == [entry : Entry, at : {0}]

Kinds ==
    /\ cast \in DOMAIN Casts
    /\ queue = [waiting |-> queue.waiting, ahead |-> queue.ahead, running |-> queue.running]
    /\ queue.waiting \subseteq Entry
    /\ queue.running \subseteq Noted
    /\ line \in [Workers -> Seq(Sweeps)] /\ batch \in [Workers -> Seq(Sweeps)]
    /\ rested \subseteq Workers
    /\ pending \in [Collections -> Maybe]
    /\ due \subseteq Sweeps
    /\ enabled \in [Collections -> BOOLEAN]
    /\ runs \subseteq Run

\* Only p moves.
OneMoves(p) == DOMAIN proc' = Procs /\ \A q \in Procs \ {p} : proc'[q] = proc[q]

LEMMA LocalsByOne ==
    ASSUME Locals, NEW p \in Procs, OneMoves(p), LocalOK(proc'[p])
    PROVE  Locals'
  BY DEF Locals, OneMoves, LocalOK

LEMMA IdleOK == LocalOK(Idle) /\ Idle.at = "idle" /\ Idle.hand = {}
  BY DEF LocalOK, Idle, Fields, Starting, Maybe

LEMMA CastShape ==
    ASSUME cast \in DOMAIN Casts
    PROVE  /\ Cast.who \subseteq Procs /\ Cast.sweeps \subseteq Sweeps /\ Cast.ids \subseteq Ids
           /\ Cast.slots \in Nat \ {0} /\ Cast.perRun \in Nat \ {0}
           /\ Cast.throttled \subseteq Workers /\ Cast.tended \subseteq Collections
  BY DispatchAssumption DEF Cast, Range, Procs

\* Steps that leave what a process has in hand, and for which it has it.
LEMMA StaysOK ==
    ASSUME NEW r, NEW o, LocalOK(r), DOMAIN o = Fields,
           o.seen \subseteq Sweeps, o.busy \subseteq Workers, o.was \in Maybe,
           o.hand = r.hand, o.sweep = r.sweep, o.errand = r.errand,
           o.at \in Starting <=> r.at \in Starting
    PROVE  LocalOK(o)
  BY DEF LocalOK

\* p is back at nothing.
LEMMA IdleAgainOK ==
    ASSUME Locals, NEW p \in Procs, proc' = [proc EXCEPT ![p] = Idle]
    PROVE  OneMoves(p) /\ proc'[p] = Idle /\ LocalOK(proc'[p])
  <1>1. OneMoves(p) /\ proc'[p] = Idle
    BY DEF Locals, OneMoves
  <1> QED BY <1>1, IdleOK

\* What a dispatcher does when it is done with an entry.
LEMMA BackOK ==
    ASSUME Locals, NEW p \in Procs, proc[p].errand # "ask", proc' = BackToLine(p)
    PROVE  /\ OneMoves(p) /\ LocalOK(proc'[p])
           /\ proc'[p].at = "choosing" /\ proc'[p].hand = {}
           /\ proc'[p].errand = proc[p].errand
           /\ proc'[p].names = proc[p].names /\ proc'[p].busy = proc[p].busy
           /\ proc'[p].todo = proc[p].todo
  <1>1. LocalOK(proc[p]) /\ DOMAIN proc = Procs
    BY DEF Locals
  <1> DEFINE o == proc'[p]
  <1>2. /\ OneMoves(p) /\ DOMAIN o = Fields /\ o.at = "choosing" /\ o.hand = {}
        /\ o.sweep = NoSweep /\ o.was = NoSweep /\ o.seen = proc[p].seen
        /\ o.errand = proc[p].errand /\ o.names = proc[p].names /\ o.busy = proc[p].busy
        /\ o.todo = proc[p].todo
    BY <1>1 DEF BackToLine, OneMoves, LocalOK, Fields
  <1> HIDE DEF o
  <1>3. LocalOK(o)
    BY <1>1, <1>2 DEF LocalOK, Starting, Maybe
  <1> QED BY <1>2, <1>3 DEF o

\* A dispatcher has an entry in hand once it has gone to start it.
LEMMA InHand ==
    ASSUME Locals, NEW p \in Procs, NEW e \in proc[p].hand
    PROVE  /\ proc[p].at \in Starting /\ proc[p].errand # "ask"
           /\ proc[p].hand = {e} /\ e \in Entry /\ e.sweep = proc[p].sweep
  <1>1. LocalOK(proc[p])
    BY DEF Locals
  <1> QED BY <1>1 DEF LocalOK

\* The heads that are handed over are sweeps.
LEMMA LiveHeads ==
    ASSUME NEW q \in Seq(Sweeps), NEW n \in Nat, n <= Len(q)
    PROVE  /\ SubSeq(q, 1, n) \in Seq(Sweeps) /\ SubSeq(q, n + 1, Len(q)) \in Seq(Sweeps)
           /\ \A A \in SUBSET (1..Len(q)) : A # {} =>
                 LET l == SubSeq(q, Min(A), Len(q))
                 IN  l \in Seq(Sweeps) /\ (l # <<>> => Head(l) \in Sweeps)
  <1>1. SubSeq(q, 1, n) \in Seq(Sweeps) /\ SubSeq(q, n + 1, Len(q)) \in Seq(Sweeps)
    OBVIOUS
  <1>2. ASSUME NEW A \in SUBSET (1..Len(q)), A # {}
        PROVE  LET l == SubSeq(q, Min(A), Len(q))
               IN  l \in Seq(Sweeps) /\ (l # <<>> => Head(l) \in Sweeps)
    <2>1. A \in SUBSET Nat
      OBVIOUS
    <2>2. \E m \in A : \A k \in A : m <= k
      BY <1>2, <2>1, LeastOf
    <2>3. Min(A) \in A
      BY <2>2 DEF Min
    <2> DEFINE m == Min(A)
               l == SubSeq(q, m, Len(q))
    <2>4. m \in 1..Len(q)
      BY <2>3
    <2> HIDE DEF m
    <2>5. l \in Seq(Sweeps)
      BY <2>4
    <2> HIDE DEF l
    <2>6. l # <<>> => Head(l) \in Sweeps
      BY <2>5
    <2> QED BY <2>5, <2>6 DEF l, m
  <1> QED BY <1>1, <1>2

LEMMA ChooseHeadsOK ==
    ASSUME Locals, Kinds, NEW p \in Procs, NEW W \in SUBSET Workers, NEW may, NEW full,
           ChooseHeads(p, W, may, full), proc[p].at \notin Starting
    PROVE  /\ OneMoves(p) /\ LocalOK(proc'[p])
           /\ line' \in [Workers -> Seq(Sweeps)] /\ batch' \in [Workers -> Seq(Sweeps)]
           /\ rested' \subseteq rested
           /\ proc'[p].at = "handing" /\ proc'[p].errand = proc[p].errand
           /\ proc'[p].names = proc[p].names /\ proc'[p].hand = proc[p].hand
           /\ proc'[p].busy = proc[p].busy
  <1> DEFINE idle == {w \in W : ~ForWorker(w)}
             wakes(w) == w \in idle /\ batch[w] = <<>> /\ Lined(w) # {} /\ w \in may
             size(w) == IF Len(line[w]) < Cast.perRun THEN Len(line[w]) ELSE Cast.perRun
             claimed(w) == IF wakes(w) THEN SubSeq(line[w], 1, size(w)) ELSE batch[w]
             alive(w) == {i \in 1..Len(claimed(w)) : claimed(w)[i] \in Live}
             live(w) == IF alive(w) = {} THEN <<>>
                        ELSE SubSeq(claimed(w), Min(alive(w)), Len(claimed(w)))
             heads == {Head(live(w)) : w \in {v \in idle \ full : live(v) # <<>>}}
  <1>1. /\ line' = [w \in Workers |->
                      IF wakes(w) THEN SubSeq(line[w], size(w) + 1, Len(line[w])) ELSE line[w]]
        /\ batch' = [w \in Workers |-> IF w \in idle THEN live(w) ELSE batch[w]]
        /\ rested' = {w \in rested : ~wakes(w)}
        /\ proc' = [proc EXCEPT ![p].at = "handing", ![p].seen = heads]
    BY DEF ChooseHeads
  <1>2. \A w \in Workers : line[w] \in Seq(Sweeps) /\ batch[w] \in Seq(Sweeps)
    BY DEF Kinds
  <1>3. \A w \in Workers : size(w) \in Nat /\ size(w) <= Len(line[w])
    <2>1. Cast.perRun \in Nat
      BY CastShape DEF Kinds
    <2> QED BY <1>2, <2>1
  <1> HIDE DEF size, wakes
  <1>4. \A w \in Workers : claimed(w) \in Seq(Sweeps)
           /\ SubSeq(line[w], size(w) + 1, Len(line[w])) \in Seq(Sweeps)
    BY <1>2, <1>3, LiveHeads
  <1> HIDE DEF claimed
  <1>5. \A w \in Workers : live(w) \in Seq(Sweeps) /\ (live(w) # <<>> => Head(live(w)) \in Sweeps)
    <2> SUFFICES ASSUME NEW w \in Workers
                 PROVE  live(w) \in Seq(Sweeps) /\ (live(w) # <<>> => Head(live(w)) \in Sweeps)
      OBVIOUS
    <2>1. CASE alive(w) = {}
      BY <2>1
    <2>2. CASE alive(w) # {}
      <3>1. alive(w) \in SUBSET (1..Len(claimed(w))) /\ claimed(w) \in Seq(Sweeps) /\ 0 \in Nat
            /\ 0 <= Len(claimed(w))
        BY <1>4
      <3> HIDE DEF alive
      <3>2. LET l == SubSeq(claimed(w), Min(alive(w)), Len(claimed(w)))
            IN  l \in Seq(Sweeps) /\ (l # <<>> => Head(l) \in Sweeps)
        BY <2>2, <3>1, LiveHeads
      <3> QED BY <2>2, <3>2
    <2> QED BY <2>1, <2>2
  <1> HIDE DEF live, alive
  <1>6. idle \subseteq Workers /\ heads \subseteq Sweeps
    BY <1>5
  <1>7. /\ line' \in [Workers -> Seq(Sweeps)] /\ batch' \in [Workers -> Seq(Sweeps)]
        /\ rested' \subseteq rested
    BY <1>1, <1>2, <1>4, <1>5
  <1> HIDE DEF heads, idle
  <1>8. LocalOK(proc[p]) /\ DOMAIN proc = Procs
    BY DEF Locals
  <1> DEFINE o == proc'[p]
  <1>9. /\ OneMoves(p) /\ DOMAIN o = Fields /\ o.at = "handing" /\ o.seen = heads
        /\ o.hand = proc[p].hand /\ o.sweep = proc[p].sweep /\ o.was = proc[p].was
        /\ o.errand = proc[p].errand /\ o.names = proc[p].names /\ o.busy = proc[p].busy
    BY <1>1, <1>8 DEF OneMoves, LocalOK, Fields
  <1> HIDE DEF o
  <1>10. LocalOK(o)
    BY <1>6, <1>8, <1>9, StaysOK DEF LocalOK, Starting
  <1> QED BY <1>7, <1>9, <1>10 DEF o

\* What the lines keep after workers.drop.
LEMMA DropFromLinesOK ==
    ASSUME Kinds, NEW s, DropFromLines(s)
    PROVE  line' \in [Workers -> Seq(Sweeps)] /\ batch' \in [Workers -> Seq(Sweeps)]
  <1>1. \A w \in Workers : line[w] \in Seq(Sweeps) /\ batch[w] \in Seq(Sweeps)
    BY DEF Kinds
  <1>2. \A w \in Workers : /\ Kept(line[w], Sweeps \ {s}) \in Seq(Sweeps)
                           /\ Kept(batch[w], Sweeps \ {s}) \in Seq(Sweeps)
    BY <1>1, KeptShape
  <1> QED BY <1>2 DEF DropFromLines

-----------------------------------------------------------------------------
\* The record of the queue.

Rec(q) == q = [waiting |-> q.waiting, ahead |-> q.ahead, running |-> q.running]

NotedIds(q) == {r.entry.id : r \in q.running}

KnownIds(q) == IdsOf(q.waiting) \cup NotedIds(q)

\* One line of pairs, every id in one place.
QueueOK(q) ==
    /\ Rec(q)
    /\ \A e, f \in q.waiting :
          ~e.named /\ ~f.named /\ Same(e, f.collection, f.sweep) => e = f
    /\ \A e, f \in q.waiting : e.id = f.id => e = f
    /\ \A r, t \in q.running : r.entry.id = t.entry.id => r = t
    /\ IdsOf(q.waiting) \cap NotedIds(q) = {}
    /\ Queue!StrictLine(IdsOf(q.waiting), q.ahead)

LEMMA OnlyWaitingIs ==
    ASSUME NEW q, Rec(q), NEW W
    PROVE  LET o == OnlyWaiting(q, W) IN
           /\ Rec(o) /\ o.waiting = W /\ o.running = q.running
           /\ o.ahead = q.ahead \cap (IdsOf(W) \X IdsOf(W))
  <1> DEFINE R == q.ahead \cap (IdsOf(W) \X IdsOf(W))
             o == OnlyWaiting(q, W)
  <1>1. q = [waiting |-> q.waiting, ahead |-> q.ahead, running |-> q.running]
    BY DEF Rec
  <1>2. o = [q EXCEPT !.waiting = W, !.ahead = R]
    BY DEF OnlyWaiting
  <1> HIDE DEF R, o
  <1>3. o = [waiting |-> W, ahead |-> R, running |-> q.running]
    BY <1>1, <1>2
  <1>4. Rec(o) /\ o.waiting = W /\ o.running = q.running /\ o.ahead = R
    BY <1>3 DEF Rec
  <1> QED BY <1>4 DEF o, R

LEMMA AtEndIs ==
    ASSUME NEW q, Rec(q), NEW e
    PROVE  LET o == AtEnd(q, e) IN
           /\ Rec(o) /\ o.waiting = q.waiting \cup {e} /\ o.running = q.running
           /\ o.ahead = q.ahead \cup (IdsOf(q.waiting) \X {e.id})
  <1> DEFINE R == q.ahead \cup (IdsOf(q.waiting) \X {e.id})
             W == q.waiting \cup {e}
             o == AtEnd(q, e)
  <1>1. q = [waiting |-> q.waiting, ahead |-> q.ahead, running |-> q.running]
    BY DEF Rec
  <1>2. o = [q EXCEPT !.waiting = W, !.ahead = R]
    BY DEF AtEnd
  <1> HIDE DEF R, W, o
  <1>3. o = [waiting |-> W, ahead |-> R, running |-> q.running]
    BY <1>1, <1>2
  <1>4. Rec(o) /\ o.waiting = W /\ o.running = q.running /\ o.ahead = R
    BY <1>3 DEF Rec
  <1> QED BY <1>4 DEF o, R, W

LEMMA AtFrontIs ==
    ASSUME NEW q, Rec(q), NEW e
    PROVE  LET o == AtFront(q, e) IN
           /\ Rec(o) /\ o.waiting = q.waiting \cup {e} /\ o.running = q.running
           /\ o.ahead = q.ahead \cup ({e.id} \X IdsOf(q.waiting))
  <1> DEFINE R == q.ahead \cup ({e.id} \X IdsOf(q.waiting))
             W == q.waiting \cup {e}
             o == AtFront(q, e)
  <1>1. q = [waiting |-> q.waiting, ahead |-> q.ahead, running |-> q.running]
    BY DEF Rec
  <1>2. o = [q EXCEPT !.waiting = W, !.ahead = R]
    BY DEF AtFront
  <1> HIDE DEF R, W, o
  <1>3. o = [waiting |-> W, ahead |-> R, running |-> q.running]
    BY <1>1, <1>2
  <1>4. Rec(o) /\ o.waiting = W /\ o.running = q.running /\ o.ahead = R
    BY <1>3 DEF Rec
  <1> QED BY <1>4 DEF o, R, W

LEMMA RunningIs ==
    ASSUME NEW q, Rec(q), NEW S
    PROVE  LET o == [q EXCEPT !.running = S] IN
           Rec(o) /\ o.waiting = q.waiting /\ o.running = S /\ o.ahead = q.ahead
  <1> DEFINE o == [q EXCEPT !.running = S]
  <1>1. q = [waiting |-> q.waiting, ahead |-> q.ahead, running |-> q.running]
    BY DEF Rec
  <1>2. o = [waiting |-> q.waiting, ahead |-> q.ahead, running |-> S]
    BY <1>1
  <1> HIDE DEF o
  <1>3. Rec(o) /\ o.waiting = q.waiting /\ o.running = S /\ o.ahead = q.ahead
    BY <1>2 DEF Rec
  <1> QED BY <1>3 DEF o

LEMMA FilterOK ==
    ASSUME NEW q, QueueOK(q), NEW W \in SUBSET q.waiting
    PROVE  LET o == OnlyWaiting(q, W)
           IN  QueueOK(o) /\ o.waiting = W /\ o.running = q.running
  <1> DEFINE o == OnlyWaiting(q, W)
  <1>1. /\ Rec(o) /\ o.waiting = W /\ o.running = q.running
        /\ o.ahead = q.ahead \cap (IdsOf(W) \X IdsOf(W))
    BY OnlyWaitingIs DEF QueueOK
  <1> HIDE DEF o
  <1>2. IdsOf(W) \in SUBSET IdsOf(q.waiting)
    BY DEF IdsOf
  <1>3. Queue!StrictLine(IdsOf(W), q.ahead \cap (IdsOf(W) \X IdsOf(W)))
    <2>1. Queue!StrictLine(IdsOf(q.waiting), q.ahead)
      BY DEF QueueOK
    <2> QED BY <1>2, <2>1 DEF Queue!StrictLine
  <1>4. IdsOf(o.waiting) \cap NotedIds(o) = {}
    BY <1>1, <1>2 DEF QueueOK, NotedIds
  <1>5. QueueOK(o)
    BY <1>1, <1>3, <1>4 DEF QueueOK
  <1> QED BY <1>1, <1>5 DEF o

LEMMA InsertOK ==
    ASSUME NEW q, QueueOK(q), NEW e, e.id \notin KnownIds(q),
           Plain(q.waiting, e.collection, e.sweep) = {}
    PROVE  QueueOK(AtEnd(q, e)) /\ QueueOK(AtFront(q, e))
  <1>n. e.id \notin IdsOf(q.waiting) /\ e.id \notin NotedIds(q)
    BY DEF KnownIds
  <1>1. ASSUME NEW o, Rec(o), o.waiting = q.waiting \cup {e}, o.running = q.running,
               Queue!StrictLine(IdsOf(o.waiting), o.ahead)
        PROVE  QueueOK(o)
    <2>1. \A f, g \in o.waiting :
              ~f.named /\ ~g.named /\ Same(f, g.collection, g.sweep) => f = g
      BY <1>1 DEF QueueOK, Plain, Same
    <2>2. \A f, g \in o.waiting : f.id = g.id => f = g
      BY <1>1, <1>n DEF QueueOK, IdsOf
    <2>3. IdsOf(o.waiting) \cap NotedIds(o) = {}
      BY <1>1, <1>n DEF QueueOK, IdsOf, NotedIds
    <2> QED BY <1>1, <2>1, <2>2, <2>3 DEF QueueOK
  <1>2. IdsOf(q.waiting \cup {e}) = IdsOf(q.waiting) \cup {e.id}
    BY DEF IdsOf
  <1> DEFINE W == IdsOf(q.waiting)
             x == e.id
  <1>3. Queue!StrictLine(W, q.ahead) /\ x \notin W
    BY <1>n DEF QueueOK
  <1> HIDE DEF W, x
  <1>4. Queue!StrictLine(W \cup {x}, q.ahead \cup (W \X {x}))
    BY <1>3 DEF Queue!StrictLine
  <1>5. Queue!StrictLine(W \cup {x}, q.ahead \cup ({x} \X W))
    BY <1>3 DEF Queue!StrictLine
  <1>6. QueueOK(AtEnd(q, e))
    <2> DEFINE o == AtEnd(q, e)
    <2>1. Rec(o) /\ o.waiting = q.waiting \cup {e} /\ o.running = q.running
          /\ o.ahead = q.ahead \cup (W \X {x})
      BY AtEndIs, Zenon DEF QueueOK, W, x
    <2> HIDE DEF o
    <2>2. Queue!StrictLine(IdsOf(o.waiting), o.ahead)
      BY <1>2, <1>4, <2>1 DEF W, x
    <2>3. QueueOK(o)
      BY <1>1, <2>1, <2>2
    <2> QED BY <2>3 DEF o
  <1>7. QueueOK(AtFront(q, e))
    <2> DEFINE o == AtFront(q, e)
    <2>1. Rec(o) /\ o.waiting = q.waiting \cup {e} /\ o.running = q.running
          /\ o.ahead = q.ahead \cup ({x} \X W)
      BY AtFrontIs DEF QueueOK, W, x
    <2> HIDE DEF o
    <2>2. Queue!StrictLine(IdsOf(o.waiting), o.ahead)
      BY <1>2, <1>5, <2>1 DEF W, x
    <2>3. QueueOK(o)
      BY <1>1, <2>1, <2>2
    <2> QED BY <2>3 DEF o
  <1> QED BY <1>6, <1>7

LEMMA AddOK ==
    ASSUME NEW q, QueueOK(q), NEW e, e.named = FALSE,
           e.id \notin KnownIds(q) \/ Plain(q.waiting, e.collection, e.sweep) # {}
    PROVE  LET o == Add(q, e) IN
           /\ QueueOK(o) /\ o.running = q.running
           /\ o = q \/ (e.id \notin KnownIds(q) /\ o.waiting = q.waiting \cup {e})
  <1>1. CASE Plain(q.waiting, e.collection, e.sweep) # {}
    <2> DEFINE o == Add(q, e)
    <2>1. o = q
      BY <1>1 DEF Add
    <2> HIDE DEF o
    <2>2. QueueOK(o) /\ o.running = q.running
      BY <2>1
    <2> QED BY <2>1, <2>2 DEF o
  <1>2. CASE Plain(q.waiting, e.collection, e.sweep) = {}
    <2>1. Add(q, e) = AtEnd(q, e) /\ e.id \notin KnownIds(q)
      BY <1>2 DEF Add
    <2>2. QueueOK(AtEnd(q, e))
      BY <1>2, <2>1, InsertOK
    <2>3. Rec(q)
      BY DEF QueueOK
    <2>4. AtEnd(q, e).waiting = q.waiting \cup {e} /\ AtEnd(q, e).running = q.running
      BY <2>3, AtEndIs
    <2> QED BY <2>1, <2>2, <2>4
  <1> QED BY <1>1, <1>2

LEMMA PutBackOK ==
    ASSUME NEW q, QueueOK(q), NEW e, e.named = FALSE, e.id \notin KnownIds(q)
    PROVE  LET o == PutBack(q, e) IN
           /\ QueueOK(o) /\ o.running = q.running
           /\ o.waiting \subseteq q.waiting \cup {e} /\ e \in o.waiting
  <1> DEFINE W == q.waiting \ Plain(q.waiting, e.collection, e.sweep)
             o == OnlyWaiting(q, W)
  <1>1. W \in SUBSET q.waiting /\ Plain(W, e.collection, e.sweep) = {}
    BY DEF Plain
  <1>2. PutBack(q, e) = AtFront(o, e)
    BY DEF PutBack, KnownIds
  <1> HIDE DEF W
  <1>3. QueueOK(o) /\ o.waiting = W /\ o.running = q.running
    BY <1>1, FilterOK
  <1> HIDE DEF o
  <1>4. e.id \notin KnownIds(o)
    BY <1>1, <1>3 DEF KnownIds, IdsOf, NotedIds
  <1>5. QueueOK(AtFront(o, e))
    BY <1>1, <1>3, <1>4, InsertOK
  <1>6. AtFront(o, e).waiting = W \cup {e} /\ AtFront(o, e).running = q.running
    BY <1>3, AtFrontIs DEF QueueOK
  <1> QED BY <1>1, <1>2, <1>5, <1>6

LEMMA StartedOK ==
    ASSUME NEW q, QueueOK(q), NEW e, e.id \notin KnownIds(q)
    PROVE  LET o == Started(q, e, 0) IN
           /\ QueueOK(o) /\ o.waiting = q.waiting
           /\ o.running = q.running \cup {[entry |-> e, at |-> 0]}
           /\ KnownIds(o) = KnownIds(q) \cup {e.id}
  <1> DEFINE r == [entry |-> e, at |-> 0]
             S == q.running \cup {r}
             o == Started(q, e, 0)
  <1>1. r.entry = e
    OBVIOUS
  <1>2. o = [q EXCEPT !.running = S]
    BY DEF Started
  <1> HIDE DEF r, S, o
  <1>r. Rec(q)
    BY DEF QueueOK
  <1>3. Rec(o) /\ o.waiting = q.waiting /\ o.running = q.running \cup {r} /\ o.ahead = q.ahead
    BY <1>2, <1>r, RunningIs DEF S
  <1>4. NotedIds(o) = NotedIds(q) \cup {e.id}
    BY <1>1, <1>3 DEF NotedIds
  <1>5. e.id \notin IdsOf(q.waiting) /\ e.id \notin NotedIds(q)
    BY DEF KnownIds
  <1>6. \A s, t \in o.running : s.entry.id = t.entry.id => s = t
    BY <1>1, <1>3, <1>5 DEF QueueOK, NotedIds
  <1>7. QueueOK(o)
    BY <1>3, <1>4, <1>5, <1>6 DEF QueueOK
  <1>8. KnownIds(o) = KnownIds(q) \cup {e.id}
    BY <1>3, <1>4 DEF KnownIds
  <1> QED BY <1>3, <1>7, <1>8 DEF o, r

LEMMA FewerRunsOK ==
    ASSUME NEW q, QueueOK(q), NEW S \in SUBSET q.running
    PROVE  LET o == [q EXCEPT !.running = S] IN
           QueueOK(o) /\ o.waiting = q.waiting /\ o.running = S
  <1> DEFINE o == [q EXCEPT !.running = S]
  <1>1. Rec(o) /\ o.waiting = q.waiting /\ o.ahead = q.ahead /\ o.running = S
    BY RunningIs DEF QueueOK
  <1> HIDE DEF o
  <1>2. NotedIds(o) \in SUBSET NotedIds(q)
    BY <1>1 DEF NotedIds
  <1>3. QueueOK(o)
    BY <1>1, <1>2 DEF QueueOK
  <1> QED BY <1>1, <1>3 DEF o

-----------------------------------------------------------------------------
\* The protocol of the queue, under every cast.

Protocol ==
    /\ QueueOK(queue)
    /\ \A p, o \in Procs : p # o => IdsOf(proc[p].hand) \cap IdsOf(proc[o].hand) = {}
    /\ \A p \in Procs : IdsOf(proc[p].hand) \cap KnownIds(queue) = {}

\* Without faults a start fails because the trigger says so.
CodeKnown(r) == r.at \in {"rechecking", "restoring", "failed"} => r.code \in {409, 429}

Codes == Cast.faults = {} => \A p \in Procs : CodeKnown(proc[p])

Base == Kinds /\ Locals /\ Protocol /\ Codes

\* The hands stay apart from each other and from what the record holds.
LEMMA HandsStay ==
    ASSUME Protocol, NEW p \in Procs, OneMoves(p), proc'[p].hand \subseteq proc[p].hand,
           QueueOK(queue'),
           \A i \in KnownIds(queue') \ KnownIds(queue) :
              \A q \in Procs : i \notin IdsOf(proc'[q].hand)
    PROVE  Protocol'
  <1>1. \A q \in Procs : proc'[q].hand \subseteq proc[q].hand
    BY DEF OneMoves
  <1>2. \A q \in Procs : IdsOf(proc'[q].hand) \subseteq IdsOf(proc[q].hand)
    BY <1>1 DEF IdsOf
  <1>3. QueueOK(queue)'
    BY DEF QueueOK, Rec
  <1>4. \A q \in Procs : IdsOf(proc'[q].hand) \cap KnownIds(queue') = {}
    BY <1>2 DEF Protocol
  <1>5. \A q, o \in Procs : q # o => IdsOf(proc'[q].hand) \cap IdsOf(proc'[o].hand) = {}
    BY <1>2 DEF Protocol
  <1>6. (\A q \in Procs : IdsOf(proc[q].hand) \cap KnownIds(queue) = {})'
    BY <1>4 DEF KnownIds, NotedIds
  <1> QED BY <1>3, <1>5, <1>6 DEF Protocol

\* The same, when no process moves.
LEMMA HandsRest ==
    ASSUME Protocol, proc' = proc, QueueOK(queue'), KnownIds(queue') \subseteq KnownIds(queue)
    PROVE  Protocol'
  <1>1. QueueOK(queue)'
    BY DEF QueueOK, Rec
  <1>2. \A q \in Procs : IdsOf(proc'[q].hand) \cap KnownIds(queue') = {}
    BY DEF Protocol
  <1>3. (\A q \in Procs : IdsOf(proc[q].hand) \cap KnownIds(queue) = {})'
    BY <1>2 DEF KnownIds, NotedIds
  <1> QED BY <1>1, <1>3 DEF Protocol

LEMMA CodesByOne ==
    ASSUME Codes, NEW p \in Procs, OneMoves(p), cast' = cast,
           Cast.faults = {} => CodeKnown(proc'[p])
    PROVE  Codes'
  BY DEF Codes, OneMoves, Cast, CodeKnown

\* A step of one process that leaves the queue as it is.
LEMMA QuietStep ==
    ASSUME Base, NEW p \in Procs, OneMoves(p), LocalOK(proc'[p]),
           proc'[p].hand \subseteq proc[p].hand,
           Cast.faults = {} => CodeKnown(proc'[p]),
           queue' = queue, cast' = cast,
           line' \in [Workers -> Seq(Sweeps)], batch' \in [Workers -> Seq(Sweeps)],
           rested' \subseteq Workers, pending' \in [Collections -> Maybe],
           due' \subseteq Sweeps, enabled' = enabled, runs' \subseteq Run
    PROVE  Base'
  <1>1. Locals'
    BY LocalsByOne DEF Base
  <1>2. Kinds'
    BY DEF Base, Kinds
  <1>3. QueueOK(queue') /\ KnownIds(queue') = KnownIds(queue)
    BY DEF Base, Protocol
  <1>4. Protocol'
    BY <1>3, HandsStay DEF Base
  <1>5. Codes'
    BY CodesByOne DEF Base
  <1> QED BY <1>1, <1>2, <1>4, <1>5 DEF Base

\* A step of one process that is not starting anything, and changes its locals only.
LEMMA LocalStep ==
    ASSUME Base, NEW p \in Procs, OneMoves(p),
           UNCHANGED <<queue, lines, definition, runs>>, cast' = cast,
           DOMAIN proc'[p] = Fields,
           proc[p].at \notin Starting, proc'[p].at \notin Starting,
           proc'[p].seen \subseteq Sweeps, proc'[p].busy \subseteq Workers,
           proc'[p].was = proc[p].was, proc'[p].sweep = proc[p].sweep,
           proc'[p].hand = proc[p].hand, proc'[p].errand = proc[p].errand
    PROVE  Base'
  <1>1. LocalOK(proc[p])
    BY DEF Base, Locals
  <1>2. LocalOK(proc'[p])
    BY <1>1, StaysOK DEF LocalOK
  <1>3. CodeKnown(proc'[p])
    BY DEF CodeKnown, Starting
  <1>4. /\ queue' = queue /\ line' \in [Workers -> Seq(Sweeps)]
        /\ batch' \in [Workers -> Seq(Sweeps)]
        /\ rested' \subseteq Workers /\ pending' \in [Collections -> Maybe]
        /\ due' \subseteq Sweeps /\ enabled' = enabled /\ runs' \subseteq Run
    BY DEF Base, Kinds, lines, definition
  <1> QED BY <1>2, <1>3, <1>4, QuietStep

\* A step of one process that is over with its errand.
LEMMA IdleStep ==
    ASSUME Base, NEW p \in Procs, proc' = [proc EXCEPT ![p] = Idle],
           UNCHANGED <<queue, lines, definition, runs>>, cast' = cast
    PROVE  Base'
  <1>1. OneMoves(p) /\ proc'[p] = Idle /\ LocalOK(proc'[p])
    BY IdleAgainOK DEF Base
  <1>2. CodeKnown(Idle) /\ Idle.hand = {}
    BY DEF CodeKnown, Idle
  <1>3. /\ queue' = queue /\ line' \in [Workers -> Seq(Sweeps)]
        /\ batch' \in [Workers -> Seq(Sweeps)]
        /\ rested' \subseteq Workers /\ pending' \in [Collections -> Maybe]
        /\ due' \subseteq Sweeps /\ enabled' = enabled /\ runs' \subseteq Run
    BY DEF Base, Kinds, lines, definition
  <1> QED BY <1>1, <1>2, <1>3, QuietStep

\* A step of a process that is starting something, and changes at most its place and
\* the mark it found.
LEMMA StartingStep ==
    ASSUME Base, NEW p \in Procs, OneMoves(p),
           queue' = queue, UNCHANGED <<lines, enabled>>, cast' = cast,
           pending' \in [Collections -> Maybe], due' \subseteq Sweeps, runs' \subseteq Run,
           DOMAIN proc'[p] = Fields,
           proc[p].at \in Starting, proc'[p].at \in Starting,
           proc'[p].seen = proc[p].seen, proc'[p].busy = proc[p].busy,
           proc'[p].was \in Maybe, proc'[p].sweep = proc[p].sweep,
           proc'[p].hand = proc[p].hand, proc'[p].errand = proc[p].errand,
           Cast.faults = {} => CodeKnown(proc'[p])
    PROVE  Base'
  <1>1. LocalOK(proc[p])
    BY DEF Base, Locals
  <1>2. LocalOK(proc'[p])
    BY <1>1, StaysOK DEF LocalOK
  <1>4. /\ line' \in [Workers -> Seq(Sweeps)] /\ batch' \in [Workers -> Seq(Sweeps)]
        /\ rested' \subseteq Workers
    BY DEF Base, Kinds, lines
  <1> QED BY <1>2, <1>4, QuietStep

\* A step of one process that changes the queue, its locals and perhaps the lines.
LEMMA QueueStep ==
    ASSUME Base, NEW p \in Procs, OneMoves(p), LocalOK(proc'[p]),
           proc'[p].hand \subseteq proc[p].hand,
           Cast.faults = {} => CodeKnown(proc'[p]),
           QueueOK(queue'), queue'.waiting \subseteq Entry, queue'.running \subseteq Noted,
           \A i \in KnownIds(queue') \ KnownIds(queue) :
              \A q \in Procs : i \notin IdsOf(proc'[q].hand),
           line' \in [Workers -> Seq(Sweeps)], batch' \in [Workers -> Seq(Sweeps)],
           due' \subseteq Sweeps, UNCHANGED <<rested, pending, enabled, runs>>, cast' = cast
    PROVE  Base'
  <1>1. Locals'
    BY LocalsByOne DEF Base
  <1>2. Kinds'
    BY DEF Base, Kinds, QueueOK, Rec
  <1>3. Protocol'
    BY HandsStay DEF Base
  <1>4. Codes'
    BY CodesByOne DEF Base
  <1> QED BY <1>1, <1>2, <1>3, <1>4 DEF Base

\* A new entry has an id of its own, or is folded into one that waits.
LEMMA NewEntryOK ==
    ASSUME Base, NEW s \in Sweeps, NEW origin \in {"schedule", "worker", "manual"},
           NEW w \in Workers \cup {NoWorker}, Room(s)
    PROVE  LET e == NewEntry(s, origin, w)
               o == Add(queue, e)
           IN  /\ QueueOK(o) /\ o.running = queue.running
               /\ o = queue \/ (/\ e \in Entry /\ o.waiting = queue.waiting \cup {e}
                                /\ \A q \in Procs : e.id \notin IdsOf(proc[q].hand))
               /\ e.collection = CollOf[s] /\ e.sweep = s /\ e.origin = origin
  <1> DEFINE e == NewEntry(s, origin, w)
             i == CHOOSE i \in Cast.ids : Cast.ids \ InUse # {} => i \notin InUse
             o == Add(queue, e)
  <1>1. /\ e.id = i /\ e.collection = CollOf[s] /\ e.sweep = s /\ e.named = FALSE
        /\ e.origin = origin /\ e.worker = w
        /\ e = [id |-> i, collection |-> CollOf[s], sweep |-> s, named |-> FALSE,
                origin |-> origin, worker |-> w]
    BY DEF NewEntry
  <1>2. Cast.ids \ InUse # {} => i \in Cast.ids /\ i \notin InUse
    <2> SUFFICES ASSUME Cast.ids \ InUse # {} PROVE i \in Cast.ids /\ i \notin InUse
      OBVIOUS
    <2>1. \E j \in Cast.ids : j \notin InUse
      OBVIOUS
    <2> QED BY <2>1
  <1> HIDE DEF i, e
  <1>3. i \notin InUse => i \notin KnownIds(queue)
    BY DEF InUse, KnownIds, NotedIds
  <1>4. i \notin InUse => \A q \in Procs : i \notin IdsOf(proc[q].hand)
    BY DEF InUse
  <1>5. e.id \notin KnownIds(queue) \/ Plain(queue.waiting, e.collection, e.sweep) # {}
    BY <1>1, <1>2, <1>3 DEF Room
  <1>6. /\ QueueOK(o) /\ o.running = queue.running
        /\ o = queue \/ (e.id \notin KnownIds(queue) /\ o.waiting = queue.waiting \cup {e})
    BY <1>1, <1>5, AddOK DEF Base, Protocol
  <1>7. CASE Cast.ids \ InUse # {}
    <2>1. i \in Ids /\ CollOf[s] \in Collections
      BY <1>2, <1>7, CastShape, DispatchAssumption DEF Base, Kinds
    <2>2. e \in Entry
      BY <1>1, <2>1 DEF Entry
    <2>3. \A q \in Procs : e.id \notin IdsOf(proc[q].hand)
      BY <1>1, <1>2, <1>4, <1>7
    <2> QED BY <1>1, <1>6, <2>2, <2>3 DEF e
  <1>8. CASE Cast.ids \ InUse = {}
    <2>1. Plain(queue.waiting, e.collection, e.sweep) # {}
      BY <1>1, <1>8 DEF Room
    <2>2. o = queue
      BY <1>1, <2>1 DEF Add
    <2> QED BY <1>1, <1>6, <2>2 DEF e
  <1> QED BY <1>7, <1>8

\* The queue after such an entry is added.
LEMMA AddStep ==
    ASSUME Base, NEW s \in Sweeps, NEW origin \in {"schedule", "worker", "manual"},
           NEW w \in Workers \cup {NoWorker}, Room(s),
           queue' = Add(queue, NewEntry(s, origin, w)),
           NEW p \in Procs, OneMoves(p), proc'[p].hand \subseteq proc[p].hand
    PROVE  /\ QueueOK(queue') /\ queue'.waiting \subseteq Entry /\ queue'.running \subseteq Noted
           /\ \A i \in KnownIds(queue') \ KnownIds(queue) :
                 \A q \in Procs : i \notin IdsOf(proc'[q].hand)
           /\ queue'.running = queue.running
           /\ \A e \in queue'.waiting \ queue.waiting :
                 e.collection = CollOf[s] /\ e.sweep = s /\ e.origin = origin
  <1> DEFINE e == NewEntry(s, origin, w)
             o == Add(queue, e)
  <1>1. /\ QueueOK(o) /\ o.running = queue.running
        /\ o = queue \/ (/\ e \in Entry /\ o.waiting = queue.waiting \cup {e}
                         /\ \A q \in Procs : e.id \notin IdsOf(proc[q].hand))
        /\ e.collection = CollOf[s] /\ e.sweep = s /\ e.origin = origin
    BY NewEntryOK
  <1>2. queue' = o
    OBVIOUS
  <1> HIDE DEF e, o
  <1>3. queue.waiting \subseteq Entry /\ queue.running \subseteq Noted
    BY DEF Base, Kinds
  <1>4. \A q \in Procs : IdsOf(proc'[q].hand) \subseteq IdsOf(proc[q].hand)
    BY DEF OneMoves, IdsOf
  <1>5. CASE o = queue
    BY <1>1, <1>2, <1>3, <1>5
  <1>6. CASE o.waiting = queue.waiting \cup {e} /\ e \in Entry
             /\ \A q \in Procs : e.id \notin IdsOf(proc[q].hand)
    <2>1. KnownIds(o) = KnownIds(queue) \cup {e.id}
      BY <1>1, <1>6 DEF KnownIds, IdsOf, NotedIds
    <2> QED BY <1>1, <1>2, <1>3, <1>4, <1>6, <2>1
  <1> QED BY <1>1, <1>5, <1>6

LEMMA InitBase == ASSUME Init PROVE Base
  <1>1. /\ queue = Empty /\ line = [w \in Workers |-> <<>>] /\ batch = [w \in Workers |-> <<>>]
        /\ rested = Workers /\ pending = [c \in Collections |-> NoSweep]
        /\ cast \in DOMAIN Casts /\ due = Cast.sweeps
        /\ enabled = [c \in Collections |-> TRUE] /\ runs = {}
        /\ proc = [p \in Procs |-> Idle]
    BY DEF Init
  <1>2. /\ queue.waiting = {} /\ queue.ahead = {} /\ queue.running = {}
        /\ queue = [waiting |-> queue.waiting, ahead |-> queue.ahead, running |-> queue.running]
    BY <1>1 DEF Empty
  <1>3. Kinds
    <2>1. due \subseteq Sweeps
      BY <1>1, CastShape
    <2>2. <<>> \in Seq(Sweeps)
      OBVIOUS
    <2>3. /\ line \in [Workers -> Seq(Sweeps)] /\ batch \in [Workers -> Seq(Sweeps)]
          /\ pending \in [Collections -> Maybe] /\ enabled \in [Collections -> BOOLEAN]
      BY <1>1, <2>2 DEF Maybe
    <2> QED BY <1>1, <1>2, <2>1, <2>3 DEF Kinds
  <1>4. DOMAIN proc = Procs /\ \A p \in Procs : proc[p] = Idle
    BY <1>1
  <1>5. Locals
    BY <1>4, IdleOK DEF Locals
  <1>6. IdsOf({}) = {} /\ Idle.hand = {} /\ NotedIds(queue) = {}
    BY <1>2, IdleOK DEF IdsOf, NotedIds
  <1>7. QueueOK(queue)
    BY <1>2, <1>6 DEF QueueOK, Rec, Queue!StrictLine
  <1>8. Protocol
    BY <1>4, <1>6, <1>7 DEF Protocol
  <1>9. CodeKnown(Idle)
    BY DEF CodeKnown, Idle
  <1>10. Codes
    BY <1>4, <1>9 DEF Codes
  <1> QED BY <1>3, <1>5, <1>8, <1>10 DEF Base

-----------------------------------------------------------------------------
\* Steps that only look: they change the locals of one process.

LEMMA BaseLooks ==
    ASSUME Base, cast' = cast, NEW p \in Procs,
           \/ Tick(p) \/ Fetch(p) \/ FetchFails(p) \/ HandedOver(p) \/ QueuedDue(p)
           \/ Survey(p) \/ Served(p)
           \/ \E e : Skip(p, e) \/ NoRoomAtBackends(p, e) \/ Choose(p, e)
           \/ \E w \in Workers : Wake(p, w)
    PROVE  Base'
  <1> DEFINE o == proc'[p]
             r == proc[p]
             Plainly == /\ OneMoves(p) /\ DOMAIN o = Fields
                        /\ o.hand = r.hand /\ o.sweep = r.sweep /\ o.was = r.was
                        /\ o.errand = r.errand
  <1>l. DOMAIN proc = Procs /\ LocalOK(r) /\ DOMAIN r = Fields
    BY DEF Base, Locals, LocalOK
  <1>t. r.seen \subseteq Sweeps /\ r.busy \subseteq Workers
    BY <1>l DEF LocalOK
  <1>k. /\ queue.waiting \subseteq Entry /\ queue.running \subseteq Noted /\ due \subseteq Sweeps
    BY DEF Base, Kinds
  <1>1. ASSUME Tick(p) PROVE Base'
    <2>1. /\ o = [Idle EXCEPT !.errand = "tick", !.at = "filling",
                              !.seen = {e.sweep : e \in queue.waiting}
                                          \cup {n.entry.sweep : n \in queue.running}]
          /\ OneMoves(p)
      BY <1>1, <1>l DEF Tick, OneMoves
    <2>2. {e.sweep : e \in queue.waiting} \cup {n.entry.sweep : n \in queue.running}
             \subseteq Sweeps
      BY <1>k DEF Noted, Entry
    <2> DEFINE S == {e.sweep : e \in queue.waiting} \cup {n.entry.sweep : n \in queue.running}
    <2> HIDE DEF o, S
    <2>3. /\ DOMAIN o = Fields /\ o.hand = {} /\ o.sweep = NoSweep /\ o.was = NoSweep
          /\ o.errand = "tick" /\ o.at = "filling" /\ o.seen = S /\ o.busy = {}
      BY <2>1 DEF Idle, Fields, S
    <2>4. LocalOK(o)
      BY <2>2, <2>3 DEF LocalOK, Starting, Maybe, S
    <2>5. CodeKnown(o)
      BY <2>3 DEF CodeKnown
    <2>6. UNCHANGED <<queue, lines, definition, runs>>
      BY <1>1 DEF Tick
    <2>7. /\ queue' = queue /\ line' \in [Workers -> Seq(Sweeps)]
          /\ batch' \in [Workers -> Seq(Sweeps)]
          /\ rested' \subseteq Workers /\ pending' \in [Collections -> Maybe]
          /\ due' \subseteq Sweeps /\ enabled' = enabled /\ runs' \subseteq Run
      BY <2>6 DEF Base, Kinds, lines, definition
    <2> QED BY <2>1, <2>3, <2>4, <2>5, <2>7, QuietStep DEF o
  <1>2. ASSUME Fetch(p) PROVE Base'
    <2>1. /\ Plainly /\ o.at \in {"settling", "serving"} /\ o.seen = r.seen /\ o.busy = r.busy
          /\ r.at = "fetching"
      BY <1>2, <1>l DEF Fetch, OneMoves, Fields
    <2>2. UNCHANGED <<queue, lines, definition, runs>>
      BY <1>2 DEF Fetch
    <2> QED BY <1>t, <2>1, <2>2, LocalStep DEF Starting
  <1>3. ASSUME FetchFails(p) PROVE Base'
    BY <1>3, IdleStep DEF FetchFails
  <1>4. ASSUME HandedOver(p) PROVE Base'
    <2>1. r.at = "handing" /\ UNCHANGED <<queue, lines, definition, runs>>
      BY <1>4 DEF HandedOver
    <2> DEFINE S == {s \in due : WorkerOf[s] = NoWorker /\ enabled[CollOf[s]]}
    <2>2. \/ proc' = [proc EXCEPT ![p].at = "queueing", ![p].seen = S]
          \/ proc' = [proc EXCEPT ![p].at = "fetching"]
          \/ proc' = [proc EXCEPT ![p] = Idle]
      BY <1>4 DEF HandedOver
    <2>3. S \subseteq Sweeps
      BY <1>k
    <2> HIDE DEF S
    <2>4. CASE proc' = [proc EXCEPT ![p].at = "queueing", ![p].seen = S]
      <3>1. Plainly /\ o.at = "queueing" /\ o.seen = S /\ o.busy = r.busy
        BY <1>l, <2>4 DEF OneMoves, Fields
      <3> QED BY <1>t, <2>1, <2>3, <3>1, LocalStep DEF Starting
    <2>5. CASE proc' = [proc EXCEPT ![p].at = "fetching"]
      <3>1. Plainly /\ o.at = "fetching" /\ o.seen = r.seen /\ o.busy = r.busy
        BY <1>l, <2>5 DEF OneMoves, Fields
      <3> QED BY <1>t, <2>1, <3>1, LocalStep DEF Starting
    <2>6. CASE proc' = [proc EXCEPT ![p] = Idle]
      BY <2>1, <2>6, IdleStep
    <2> QED BY <2>2, <2>4, <2>5, <2>6
  <1>5. ASSUME QueuedDue(p) PROVE Base'
    <2>1. /\ Plainly /\ o.at = "serving" /\ o.seen = r.seen /\ o.busy = r.busy
          /\ r.at = "queueing"
      BY <1>5, <1>l DEF QueuedDue, Go, OneMoves, Fields
    <2>2. UNCHANGED <<queue, lines, definition, runs>>
      BY <1>5 DEF QueuedDue
    <2> QED BY <1>t, <2>1, <2>2, LocalStep DEF Starting
  <1>6. ASSUME Survey(p) PROVE Base'
    <2> DEFINE B == {n.entry.worker : n \in queue.running} \ {NoWorker}
    <2>1. /\ proc' = [proc EXCEPT ![p].at = "choosing", ![p].todo = WaitingInOrder, ![p].busy = B]
          /\ r.at = "serving" /\ UNCHANGED <<queue, lines, definition, runs>>
      BY <1>6 DEF Survey
    <2>2. B \subseteq Workers
      BY <1>k DEF Noted, Entry
    <2> HIDE DEF B
    <2>3. Plainly /\ o.at = "choosing" /\ o.seen = r.seen /\ o.busy = B
      BY <1>l, <2>1 DEF OneMoves, Fields
    <2> QED BY <1>t, <2>1, <2>2, <2>3, LocalStep DEF Starting
  <1>7. ASSUME Served(p) PROVE Base'
    BY <1>7, IdleStep DEF Served
  <1>8. ASSUME NEW e, Skip(p, e) \/ NoRoomAtBackends(p, e) \/ Choose(p, e) PROVE Base'
    <2>1. /\ r.at = "choosing" /\ UNCHANGED <<queue, lines, definition, runs>>
          /\ \/ proc' = [proc EXCEPT ![p].todo = Tail(@)]
             \/ proc' = [proc EXCEPT ![p].at = "taking"]
      BY <1>8 DEF Skip, NoRoomAtBackends, Choose, Choosing, Go
    <2>2. Plainly /\ o.at \in {"choosing", "taking"} /\ o.seen = r.seen /\ o.busy = r.busy
      BY <1>l, <2>1 DEF OneMoves, Fields
    <2> QED BY <1>t, <2>1, <2>2, LocalStep DEF Starting
  <1>9. ASSUME NEW w \in Workers, Wake(p, w) PROVE Base'
    <2>1. /\ o = [Idle EXCEPT !.errand = "wake", !.at = "waking", !.busy = {w}]
          /\ OneMoves(p) /\ UNCHANGED <<queue, lines, definition, runs>>
      BY <1>9, <1>l, Zenon DEF Wake, OneMoves
    <2> HIDE DEF o
    <2>2. /\ DOMAIN o = Fields /\ o.hand = {} /\ o.sweep = NoSweep /\ o.was = NoSweep
          /\ o.errand = "wake" /\ o.at = "waking" /\ o.seen = {} /\ o.busy = {w}
      BY <2>1 DEF Idle, Fields
    <2>3. LocalOK(o)
      BY <2>2 DEF LocalOK, Starting, Maybe
    <2>4. CodeKnown(o)
      BY <2>2 DEF CodeKnown
    <2>5. /\ queue' = queue /\ line' \in [Workers -> Seq(Sweeps)]
          /\ batch' \in [Workers -> Seq(Sweeps)]
          /\ rested' \subseteq Workers /\ pending' \in [Collections -> Maybe]
          /\ due' \subseteq Sweeps /\ enabled' = enabled /\ runs' \subseteq Run
      BY <2>1 DEF Base, Kinds, lines, definition
    <2> QED BY <2>1, <2>2, <2>3, <2>4, <2>5, QuietStep DEF o
  <1> QED BY <1>1, <1>2, <1>3, <1>4, <1>5, <1>6, <1>7, <1>8, <1>9

\* The run the trigger starts for what p has in hand.
LEMMA StartedRunIs ==
    ASSUME Base, NEW p \in Procs, proc[p].at \in Starting, StartedRun(p)
    PROVE  \E t \in Run : /\ runs' = runs \cup {t}
                          /\ t.collection = CollOf[proc[p].sweep] /\ t.sweep = proc[p].sweep
                          /\ t.ran = NoSweep /\ t.phase = "asked" /\ t.worker = WorkerOfHand(p)
                          /\ t.collection \notin RunningNames
                          /\ proc[p].hand = {} => t.worker = NoWorker
                          /\ \A e \in proc[p].hand : t.worker = e.worker
  <1>1. LocalOK(proc[p])
    BY DEF Base, Locals
  <1>2. /\ proc[p].sweep \in Sweeps /\ proc[p].hand \subseteq Entry
        /\ \A e, f \in proc[p].hand : e = f
    BY <1>1 DEF LocalOK
  <1>3. CollOf[proc[p].sweep] \in Collections
    BY <1>2, DispatchAssumption
  <1>4. /\ WorkerOfHand(p) \in Workers \cup {NoWorker}
        /\ proc[p].hand = {} => WorkerOfHand(p) = NoWorker
        /\ \A e \in proc[p].hand : WorkerOfHand(p) = e.worker
    <2>1. CASE proc[p].hand = {}
      BY <2>1 DEF WorkerOfHand
    <2>2. CASE proc[p].hand # {}
      <3>1. PICK e \in proc[p].hand : TRUE
        BY <2>2
      <3>2. (CHOOSE f \in proc[p].hand : TRUE) = e
        BY <1>2, <3>1
      <3>3. e.worker \in Workers \cup {NoWorker} /\ \A f \in proc[p].hand : f = e
        BY <1>2, <3>1 DEF Entry
      <3>4. WorkerOfHand(p) = e.worker
        BY <2>2, <3>2 DEF WorkerOfHand
      <3> QED BY <2>2, <3>3, <3>4
    <2> QED BY <2>1, <2>2
  <1> DEFINE c == CollOf[proc[p].sweep]
             s == proc[p].sweep
             w == WorkerOfHand(p)
             t == [collection |-> c, sweep |-> s, ran |-> NoSweep, worker |-> w,
                   phase |-> "asked"]
  <1>5. runs' = runs \cup {t} /\ c \notin RunningNames
    BY DEF StartedRun, Accepts
  <1>6. c \in Collections /\ s \in Sweeps /\ w \in Workers \cup {NoWorker}
    BY <1>2, <1>3, <1>4
  <1>7. /\ t.collection = c /\ t.sweep = s /\ t.ran = NoSweep /\ t.phase = "asked"
        /\ t.worker = w
    OBVIOUS
  <1> HIDE DEF c, s, w
  <1>8. t \in Run
    BY <1>6 DEF Run
  <1> HIDE DEF t
  <1> QED BY <1>4, <1>5, <1>7, <1>8 DEF c, s, w

\* The steps of start_collection_bake that leave the queue alone.
LEMMA BaseStarts ==
    ASSUME Base, cast' = cast, NEW p \in Procs,
           \/ Check(p) \/ CheckUnread(p) \/ Mark(p) \/ Send(p) \/ SendFails(p)
           \/ Recheck(p) \/ RecheckUnread(p) \/ Restore(p) \/ Clear(p) \/ Stamp(p)
           \/ \E s \in Cast.sweeps : Ask(p, s)
    PROVE  Base'
  <1> DEFINE o == proc'[p]
             r == proc[p]
             Plainly == /\ OneMoves(p) /\ DOMAIN o = Fields
                        /\ o.seen = r.seen /\ o.busy = r.busy
                        /\ o.hand = r.hand /\ o.sweep = r.sweep /\ o.errand = r.errand
  <1>l. DOMAIN proc = Procs /\ LocalOK(r) /\ DOMAIN r = Fields
    BY DEF Base, Locals, LocalOK
  <1>t. r.was \in Maybe /\ r.sweep \in Maybe
    BY <1>l DEF LocalOK
  <1>k. /\ pending \in [Collections -> Maybe] /\ due \subseteq Sweeps /\ runs \subseteq Run
    BY DEF Base, Kinds
  <1>c. Cast.faults = {} => CodeKnown(r)
    BY DEF Base, Codes
  <1>1. ASSUME NEW s \in Cast.sweeps, Ask(p, s) PROVE Base'
    <2>1. /\ o = [Idle EXCEPT !.errand = "ask", !.at = "checking", !.sweep = s]
          /\ OneMoves(p) /\ UNCHANGED <<queue, lines, definition, runs>>
      BY <1>1, <1>l, Zenon DEF Ask, OneMoves
    <2> HIDE DEF o
    <2>2. /\ DOMAIN o = Fields /\ o.hand = {} /\ o.sweep = s /\ o.was = NoSweep
          /\ o.errand = "ask" /\ o.at = "checking" /\ o.seen = {} /\ o.busy = {}
      BY <2>1 DEF Idle, Fields
    <2>s. s \in Sweeps
      BY CastShape DEF Base, Kinds
    <2>3. LocalOK(o)
      BY <2>2, <2>s DEF LocalOK, Starting, Maybe
    <2>4. CodeKnown(o)
      BY <2>2 DEF CodeKnown
    <2>5. /\ queue' = queue /\ line' \in [Workers -> Seq(Sweeps)]
          /\ batch' \in [Workers -> Seq(Sweeps)]
          /\ rested' \subseteq Workers /\ pending' \in [Collections -> Maybe]
          /\ due' \subseteq Sweeps /\ enabled' = enabled /\ runs' \subseteq Run
      BY <2>1 DEF Base, Kinds, lines, definition
    <2> QED BY <2>1, <2>2, <2>3, <2>4, <2>5, QuietStep DEF o
  <1>2. ASSUME Check(p) PROVE Base'
    <2>1. /\ r.at = "checking" /\ UNCHANGED <<queue, lines, definition, runs>>
          /\ \/ proc' = [proc EXCEPT ![p].at = "failed", ![p].code = 409, ![p].was = NoSweep]
             \/ proc' = [proc EXCEPT ![p].at = "marking"]
      BY <1>2 DEF Check, Fails, Go
    <2>2. /\ Plainly /\ o.was \in {r.was, NoSweep}
          /\ o.at = "marking" \/ (o.at = "failed" /\ o.code = 409)
      BY <1>l, <2>1 DEF OneMoves, Fields
    <2>3. CodeKnown(o)
      BY <2>2 DEF CodeKnown
    <2>4. /\ queue' = queue /\ UNCHANGED <<lines, enabled>> /\ pending' \in [Collections -> Maybe]
          /\ due' \subseteq Sweeps /\ runs' \subseteq Run
      BY <1>k, <2>1 DEF definition
    <2>5. o.was \in Maybe /\ r.at \in Starting /\ o.at \in Starting
      BY <1>t, <2>1, <2>2 DEF Maybe, Starting
    <2> QED BY <2>2, <2>3, <2>4, <2>5, StartingStep
  <1>3. ASSUME CheckUnread(p) PROVE Base'
    <2>1. /\ r.at = "checking" /\ UNCHANGED <<queue, lines, definition, runs>>
          /\ proc' = [proc EXCEPT ![p].at = "marking"]
      BY <1>3 DEF CheckUnread, Go
    <2>2. Plainly /\ o.was = r.was /\ o.at = "marking"
      BY <1>l, <2>1 DEF OneMoves, Fields
    <2>3. CodeKnown(o)
      BY <2>2 DEF CodeKnown
    <2>4. /\ queue' = queue /\ UNCHANGED <<lines, enabled>> /\ pending' \in [Collections -> Maybe]
          /\ due' \subseteq Sweeps /\ runs' \subseteq Run
      BY <1>k, <2>1 DEF definition
    <2>5. r.at \in Starting /\ o.at \in Starting
      BY <2>1, <2>2 DEF Starting
    <2> QED BY <1>t, <2>2, <2>3, <2>4, <2>5, StartingStep
  <1>4. ASSUME Mark(p) PROVE Base'
    <2> DEFINE c == CollOf[r.sweep]
    <2>1. /\ r.at = "marking" /\ UNCHANGED <<queue, lines, due, enabled, runs>>
          /\ proc' = [proc EXCEPT ![p].at = "sending", ![p].was = pending[c]]
          /\ pending' = [pending EXCEPT ![c] = r.sweep]
      BY <1>4 DEF Mark
    <2>2. r.sweep \in Sweeps /\ c \in Collections
      BY <1>l, <2>1, DispatchAssumption DEF LocalOK, Starting
    <2> HIDE DEF c
    <2>3. Plainly /\ o.was = pending[c] /\ o.at = "sending"
      BY <1>l, <2>1 DEF OneMoves, Fields
    <2>4. CodeKnown(o)
      BY <2>3 DEF CodeKnown
    <2>5. /\ queue' = queue /\ UNCHANGED <<lines, enabled>> /\ pending' \in [Collections -> Maybe]
          /\ due' \subseteq Sweeps /\ runs' \subseteq Run
      BY <1>k, <1>t, <2>1
    <2>6. o.was \in Maybe /\ r.at \in Starting /\ o.at \in Starting
      BY <1>k, <2>1, <2>2, <2>3 DEF Starting
    <2> QED BY <2>3, <2>4, <2>5, <2>6, StartingStep
  <1>5. ASSUME Send(p) \/ SendFails(p) PROVE Base'
    <2>1. /\ r.at = "sending" /\ UNCHANGED <<queue, lines, definition>>
          /\ runs' = runs \/ StartedRun(p)
      BY <1>5 DEF Send, SendFails
    <2>2. \/ proc' = [proc EXCEPT ![p].at = "clearing"]
          \/ /\ proc' = [proc EXCEPT ![p].at = "rechecking", ![p].code = 502]
             /\ Cast.faults # {}
          \/ proc' = [proc EXCEPT ![p].at = "rechecking", ![p].code = 409]
          \/ proc' = [proc EXCEPT ![p].at = "rechecking", ![p].code = 429]
      BY <1>5 DEF Send, SendFails, Go
    <2>3. /\ Plainly /\ o.was = r.was
          /\ \/ o.at = "clearing"
             \/ o.at = "rechecking" /\ (o.code \in {409, 429} \/ Cast.faults # {})
      BY <1>l, <2>2 DEF OneMoves, Fields
    <2>4. Cast.faults = {} => CodeKnown(o)
      BY <2>3 DEF CodeKnown
    <2>5. runs' \subseteq Run
      <3>1. StartedRun(p) => \E t \in Run : runs' = runs \cup {t}
        BY <2>1, StartedRunIs DEF Starting
      <3> QED BY <1>k, <2>1, <3>1
    <2>6. /\ queue' = queue /\ UNCHANGED <<lines, enabled>> /\ pending' \in [Collections -> Maybe]
          /\ due' \subseteq Sweeps
      BY <1>k, <2>1 DEF definition
    <2>7. r.at \in Starting /\ o.at \in Starting
      BY <2>1, <2>3 DEF Starting
    <2> QED BY <1>t, <2>3, <2>4, <2>5, <2>6, <2>7, StartingStep
  <1>6. ASSUME Recheck(p) \/ RecheckUnread(p) PROVE Base'
    <2>1. /\ r.at = "rechecking" /\ UNCHANGED <<queue, lines, definition, runs>>
          /\ \/ proc' = [proc EXCEPT ![p].at = "failed"]
             \/ proc' = [proc EXCEPT ![p].at = "restoring"]
      BY <1>6 DEF Recheck, RecheckUnread, Go
    <2>2. Plainly /\ o.was = r.was /\ o.at \in {"failed", "restoring"} /\ o.code = r.code
      BY <1>l, <2>1 DEF OneMoves, Fields
    <2>3. Cast.faults = {} => CodeKnown(o)
      BY <1>c, <2>1, <2>2 DEF CodeKnown
    <2>4. /\ queue' = queue /\ UNCHANGED <<lines, enabled>> /\ pending' \in [Collections -> Maybe]
          /\ due' \subseteq Sweeps /\ runs' \subseteq Run
      BY <1>k, <2>1 DEF definition
    <2>5. r.at \in Starting /\ o.at \in Starting
      BY <2>1, <2>2 DEF Starting
    <2> QED BY <1>t, <2>2, <2>3, <2>4, <2>5, StartingStep
  <1>7. ASSUME Restore(p) PROVE Base'
    <2>1. /\ r.at = "restoring" /\ UNCHANGED <<queue, lines, due, enabled, runs>>
          /\ proc' = [proc EXCEPT ![p].at = "failed"]
          /\ pending' = [pending EXCEPT ![CollOf[r.sweep]] = r.was]
      BY <1>7 DEF Restore, Go
    <2>2. Plainly /\ o.was = r.was /\ o.at = "failed" /\ o.code = r.code
      BY <1>l, <2>1 DEF OneMoves, Fields
    <2>3. Cast.faults = {} => CodeKnown(o)
      BY <1>c, <2>1, <2>2 DEF CodeKnown
    <2>4. /\ queue' = queue /\ UNCHANGED <<lines, enabled>> /\ pending' \in [Collections -> Maybe]
          /\ due' \subseteq Sweeps /\ runs' \subseteq Run
      BY <1>k, <1>t, <2>1
    <2>5. r.at \in Starting /\ o.at \in Starting
      BY <2>1, <2>2 DEF Starting
    <2> QED BY <1>t, <2>2, <2>3, <2>4, <2>5, StartingStep
  <1>8. ASSUME Clear(p) PROVE Base'
    <2>1. /\ r.at = "clearing" /\ DropFromLines(r.sweep)
          /\ UNCHANGED <<queue, rested, definition, runs>>
          /\ proc' = [proc EXCEPT ![p].at = "dropping"]
      BY <1>8 DEF Clear, Go
    <2>2. Plainly /\ o.was = r.was /\ o.at = "dropping"
      BY <1>l, <2>1 DEF OneMoves, Fields
    <2>3. CodeKnown(o) /\ LocalOK(o)
      <3>1. r.at \in Starting /\ o.at \in Starting
        BY <2>1, <2>2 DEF Starting
      <3> QED BY <1>l, <2>2, <3>1, StaysOK DEF CodeKnown, LocalOK
    <2>4. line' \in [Workers -> Seq(Sweeps)] /\ batch' \in [Workers -> Seq(Sweeps)]
      BY <2>1, DropFromLinesOK DEF Base
    <2>5. /\ queue' = queue /\ rested' \subseteq Workers /\ pending' \in [Collections -> Maybe]
          /\ due' \subseteq Sweeps /\ enabled' = enabled /\ runs' \subseteq Run
      BY <2>1 DEF Base, Kinds, definition
    <2> QED BY <2>2, <2>3, <2>4, <2>5, QuietStep
  <1>9. ASSUME Stamp(p) PROVE Base'
    <2>1. /\ r.at = "stamping" /\ UNCHANGED <<queue, lines, enabled, runs>>
          /\ proc' = [proc EXCEPT ![p] = Idle] \/ proc' = [proc EXCEPT ![p].at = "noting"]
          /\ pending' = [pending EXCEPT ![CollOf[r.sweep]] = r.sweep]
          /\ due' \subseteq due
      BY <1>9 DEF Stamp
    <2>2. pending' \in [Collections -> Maybe] /\ due' \subseteq Sweeps /\ runs' \subseteq Run
      BY <1>k, <1>t, <2>1
    <2>3. CASE proc' = [proc EXCEPT ![p].at = "noting"]
      <3>1. Plainly /\ o.was = r.was /\ o.at = "noting"
        BY <1>l, <2>3 DEF OneMoves, Fields
      <3>2. CodeKnown(o) /\ r.at \in Starting /\ o.at \in Starting
        BY <2>1, <3>1 DEF CodeKnown, Starting
      <3> QED BY <1>t, <2>1, <2>2, <3>1, <3>2, StartingStep
    <2>4. CASE proc' = [proc EXCEPT ![p] = Idle]
      <3>1. OneMoves(p) /\ o = Idle /\ LocalOK(o)
        BY <2>4, IdleAgainOK DEF Base
      <3>2. CodeKnown(o) /\ o.hand = {}
        BY <3>1 DEF CodeKnown, Idle
      <3>3. /\ line' \in [Workers -> Seq(Sweeps)] /\ batch' \in [Workers -> Seq(Sweeps)]
            /\ rested' \subseteq Workers
        BY <2>1 DEF Base, Kinds, lines
      <3> QED BY <2>1, <2>2, <3>1, <3>2, <3>3, QuietStep
    <2> QED BY <2>1, <2>3, <2>4
  <1> QED BY <1>1, <1>2, <1>3, <1>4, <1>5, <1>6, <1>7, <1>8, <1>9

\* The order a tick lines the workers' sweeps up in is a list of sweeps.
LEMMA OrdersAreLists ==
    ASSUME NEW S \in SUBSET Sweeps, NEW order \in SetToSeqs(S)
    PROVE  order \in Seq(Sweeps)
  <1>1. IsFiniteSet(S)
    BY DispatchAssumption, FS_Subset
  <1>2. Cardinality(S) \in Nat
    BY <1>1, FS_CardinalityType
  <1>3. order \in [1..Cardinality(S) -> S]
    BY DEF SetToSeqs
  <1>4. order \in [1..Cardinality(S) -> Sweeps]
    BY <1>3
  <1> QED BY <1>2, <1>4

LEMMA FillOK ==
    ASSUME Kinds, NEW p, Fill(p)
    PROVE  line' \in [Workers -> Seq(Sweeps)] /\ batch' \in [Workers -> Seq(Sweeps)]
  <1> DEFINE S == {s \in due : /\ WorkerOf[s] # NoWorker
                               /\ enabled[CollOf[s]]
                               /\ s \notin proc[p].seen
                               /\ s \notin Lined(WorkerOf[s])}
             mine(w) == {s \in Sweeps : WorkerOf[s] = w}
  <1>1. S \in SUBSET Sweeps
    BY DEF Kinds
  <1>2. PICK order \in SetToSeqs(S) :
           line' = [w \in Workers |-> Kept(line[w], Live) \o Kept(order, mine(w))]
    BY DEF Fill
  <1>3. batch' = [w \in Workers |-> Kept(batch[w], Live)]
    BY DEF Fill
  <1> HIDE DEF S, mine
  <1>4. order \in Seq(Sweeps)
    BY <1>1, OrdersAreLists
  <1>5. \A w \in Workers : line[w] \in Seq(Sweeps) /\ batch[w] \in Seq(Sweeps)
    BY DEF Kinds
  <1>6. \A w \in Workers : /\ Kept(line[w], Live) \in Seq(Sweeps)
                           /\ Kept(batch[w], Live) \in Seq(Sweeps)
                           /\ Kept(order, mine(w)) \in Seq(Sweeps)
    BY <1>4, <1>5, KeptShape
  <1>7. \A w \in Workers : Kept(line[w], Live) \o Kept(order, mine(w)) \in Seq(Sweeps)
    BY <1>6
  <1> QED BY <1>2, <1>3, <1>6, <1>7

\* The steps that change the queue or the lines and start nothing.
LEMMA BaseQueues ==
    ASSUME Base, cast' = cast, NEW p \in Procs,
           \/ Fill(p) \/ SettleNotes(p) \/ Advance(p) \/ ChooseWoken(p)
           \/ \E s \in proc[p].seen : HandOver(p, s) \/ QueueDue(p, s)
           \/ \E e : Discard(p, e)
           \/ Crash(p)
    PROVE  Base'
  <1> DEFINE o == proc'[p]
             r == proc[p]
             Plainly == /\ OneMoves(p) /\ DOMAIN o = Fields
                        /\ o.hand = r.hand /\ o.sweep = r.sweep /\ o.was = r.was
                        /\ o.errand = r.errand /\ o.busy = r.busy
  <1>l. DOMAIN proc = Procs /\ LocalOK(r) /\ DOMAIN r = Fields
    BY DEF Base, Locals, LocalOK
  <1>t. r.seen \subseteq Sweeps /\ r.busy \subseteq Workers /\ r.was \in Maybe
    BY <1>l DEF LocalOK
  <1>k. /\ queue.waiting \subseteq Entry /\ queue.running \subseteq Noted /\ due \subseteq Sweeps
        /\ pending \in [Collections -> Maybe] /\ runs \subseteq Run /\ rested \subseteq Workers
        /\ line \in [Workers -> Seq(Sweeps)] /\ batch \in [Workers -> Seq(Sweeps)]
    BY DEF Base, Kinds
  <1>q. QueueOK(queue)
    BY DEF Base, Protocol
  \* A step that moves on to a place where nothing is started.
  <1>m. ASSUME Plainly, r.at \notin Starting, o.at \notin Starting, o.seen \subseteq Sweeps
        PROVE  LocalOK(o) /\ CodeKnown(o) /\ o.hand \subseteq r.hand
    BY <1>l, <1>m, <1>t, StaysOK DEF CodeKnown, Starting
  <1>1. ASSUME Fill(p) PROVE Base'
    <2>1. /\ r.at = "filling" /\ UNCHANGED <<queue, rested, definition, runs>>
          /\ proc' = [proc EXCEPT ![p].at = "fetching", ![p].seen = {}]
      BY <1>1 DEF Fill
    <2>2. Plainly /\ o.at = "fetching" /\ o.seen = {}
      BY <1>l, <2>1 DEF OneMoves, Fields
    <2>3. LocalOK(o) /\ CodeKnown(o) /\ o.hand \subseteq r.hand
      BY <1>m, <2>1, <2>2 DEF Starting
    <2>4. line' \in [Workers -> Seq(Sweeps)] /\ batch' \in [Workers -> Seq(Sweeps)]
      BY <1>1, FillOK DEF Base
    <2>5. /\ queue' = queue /\ rested' \subseteq Workers /\ pending' \in [Collections -> Maybe]
          /\ due' \subseteq Sweeps /\ enabled' = enabled /\ runs' \subseteq Run
      BY <1>k, <2>1 DEF definition
    <2> QED BY <2>2, <2>3, <2>4, <2>5, QuietStep
  <1>2. ASSUME SettleNotes(p) PROVE Base'
    <2> DEFINE over == {n \in queue.running :
                           n.entry.collection \notin r.names /\ ~StillRuns(n.entry)}
    <2>1. /\ r.at = "settling" /\ UNCHANGED <<lines, pending, enabled, runs>>
          /\ proc' = [proc EXCEPT ![p].at = "advancing"]
          /\ queue' = [queue EXCEPT !.running = @ \ over]
          /\ due' \subseteq due
      BY <1>2 DEF SettleNotes, Go
    <2> DEFINE S == queue.running \ over
    <2>2. queue' = [queue EXCEPT !.running = S]
      BY <2>1
    <2>3. S \in SUBSET queue.running
      OBVIOUS
    <2> HIDE DEF over, S
    <2>4. QueueOK(queue') /\ queue'.waiting = queue.waiting /\ queue'.running = S
      BY <1>q, <2>2, <2>3, FewerRunsOK
    <2>5. KnownIds(queue') \subseteq KnownIds(queue)
      BY <2>3, <2>4 DEF KnownIds, NotedIds
    <2>6. Plainly /\ o.at = "advancing" /\ o.seen = r.seen
      BY <1>l, <2>1 DEF OneMoves, Fields
    <2>7. LocalOK(o) /\ CodeKnown(o) /\ o.hand \subseteq r.hand
      BY <1>m, <1>t, <2>1, <2>6 DEF Starting
    <2>8. /\ queue'.waiting \subseteq Entry /\ queue'.running \subseteq Noted
          /\ line' \in [Workers -> Seq(Sweeps)] /\ batch' \in [Workers -> Seq(Sweeps)]
          /\ due' \subseteq Sweeps /\ UNCHANGED <<rested, pending, enabled, runs>>
      BY <1>k, <2>1, <2>3, <2>4 DEF lines
    <2> QED BY <2>4, <2>5, <2>6, <2>7, <2>8, QueueStep
  <1>3. ASSUME Advance(p) \/ ChooseWoken(p) PROVE Base'
    <2>1. /\ r.at \in {"advancing", "waking"} /\ UNCHANGED <<queue, definition, runs>>
          /\ \E W \in SUBSET Workers : \E may, full : ChooseHeads(p, W, may, full)
      BY <1>3, <1>t DEF Advance, ChooseWoken
    <2>2. /\ OneMoves(p) /\ LocalOK(o)
          /\ line' \in [Workers -> Seq(Sweeps)] /\ batch' \in [Workers -> Seq(Sweeps)]
          /\ rested' \subseteq rested /\ o.at = "handing" /\ o.hand = r.hand
      BY <2>1, ChooseHeadsOK DEF Base, Starting
    <2>3. CodeKnown(o)
      BY <2>2 DEF CodeKnown
    <2>4. /\ queue' = queue /\ rested' \subseteq Workers /\ pending' \in [Collections -> Maybe]
          /\ due' \subseteq Sweeps /\ enabled' = enabled /\ runs' \subseteq Run
      BY <1>k, <2>1, <2>2 DEF definition
    <2> QED BY <2>2, <2>3, <2>4, QuietStep
  <1>4. ASSUME NEW s \in r.seen, HandOver(p, s) \/ QueueDue(p, s) PROVE Base'
    <2>1. /\ r.at \in {"handing", "queueing"} /\ Room(s)
          /\ proc' = [proc EXCEPT ![p].seen = @ \ {s}]
          /\ UNCHANGED <<lines, definition, runs>>
          /\ \/ queue' = Add(queue, NewEntry(s, "worker", WorkerOf[s]))
             \/ queue' = Add(queue, NewEntry(s, "schedule", NoWorker))
      BY <1>4 DEF HandOver, QueueDue
    <2>2. s \in Sweeps /\ WorkerOf[s] \in Workers \cup {NoWorker}
      BY <1>4, <1>t, DispatchAssumption
    <2>3. Plainly /\ o.at = r.at /\ o.seen = r.seen \ {s}
      BY <1>l, <2>1 DEF OneMoves, Fields
    <2>4. LocalOK(o) /\ CodeKnown(o) /\ o.hand \subseteq r.hand
      BY <1>m, <1>t, <2>1, <2>3 DEF Starting
    <2>5. /\ QueueOK(queue') /\ queue'.waiting \subseteq Entry /\ queue'.running \subseteq Noted
          /\ \A i \in KnownIds(queue') \ KnownIds(queue) :
                \A q \in Procs : i \notin IdsOf(proc'[q].hand)
      BY <2>1, <2>2, <2>3, <2>4, AddStep
    <2>6. /\ line' \in [Workers -> Seq(Sweeps)] /\ batch' \in [Workers -> Seq(Sweeps)]
          /\ due' \subseteq Sweeps /\ UNCHANGED <<rested, pending, enabled, runs>>
      BY <1>k, <2>1 DEF lines, definition
    <2> QED BY <2>3, <2>4, <2>5, <2>6, QueueStep
  <1>5. ASSUME NEW e, Discard(p, e) PROVE Base'
    <2>1. /\ r.at = "choosing" /\ UNCHANGED <<rested, definition, runs>>
          /\ proc' = [proc EXCEPT ![p].todo = Tail(@)]
          /\ queue' = OnlyWaiting(queue, queue.waiting \ {e})
          /\ DropFromLines(e.sweep) \/ UNCHANGED <<line, batch>>
      BY <1>5 DEF Discard, Choosing, Take
    <2>2. Plainly /\ o.at = "choosing" /\ o.seen = r.seen
      BY <1>l, <2>1 DEF OneMoves, Fields
    <2>3. LocalOK(o) /\ CodeKnown(o) /\ o.hand \subseteq r.hand
      BY <1>m, <1>t, <2>1, <2>2 DEF Starting
    <2>4. /\ QueueOK(queue') /\ queue'.waiting = queue.waiting \ {e}
          /\ queue'.running = queue.running
      BY <1>q, <2>1, FilterOK
    <2>5. KnownIds(queue') \subseteq KnownIds(queue)
      BY <2>4 DEF KnownIds, NotedIds, IdsOf
    <2>6. line' \in [Workers -> Seq(Sweeps)] /\ batch' \in [Workers -> Seq(Sweeps)]
      BY <1>k, <2>1, DropFromLinesOK DEF Base
    <2>7. /\ queue'.waiting \subseteq Entry /\ queue'.running \subseteq Noted
          /\ due' \subseteq Sweeps /\ UNCHANGED <<rested, pending, enabled, runs>>
      BY <1>k, <2>1, <2>4 DEF definition
    <2> QED BY <2>2, <2>3, <2>4, <2>5, <2>6, <2>7, QueueStep
  <1>6. ASSUME Crash(p) PROVE Base'
    BY <1>6, IdleStep DEF Crash
  <1> QED BY <1>1, <1>2, <1>3, <1>4, <1>5, <1>6

-----------------------------------------------------------------------------
\* The steps with an entry: how it gets into a hand and out of it.

LEMMA BaseTakes ==
    ASSUME Base, cast' = cast, NEW p \in Procs, NEW e, TakeEntry(p, e)
    PROVE  Base'
  <1> DEFINE o == proc'[p]
             r == proc[p]
  <1>l. DOMAIN proc = Procs /\ LocalOK(r) /\ DOMAIN r = Fields
    BY DEF Base, Locals, LocalOK
  <1>1. /\ r.at = "taking" /\ queue' = OnlyWaiting(queue, queue.waiting \ {e})
        /\ UNCHANGED <<lines, definition, runs>>
    BY DEF TakeEntry, Take
  <1>2. r.hand = {} /\ r.errand # "ask"
    BY <1>1, <1>l DEF LocalOK, Starting
  <1>3. /\ QueueOK(queue') /\ queue'.waiting = queue.waiting \ {e}
        /\ queue'.running = queue.running
    BY <1>1, FilterOK DEF Base, Protocol
  <1>4. KnownIds(queue') \subseteq KnownIds(queue)
    BY <1>3 DEF KnownIds, NotedIds, IdsOf
  <1>5. /\ queue'.waiting \subseteq Entry /\ queue'.running \subseteq Noted
        /\ line' \in [Workers -> Seq(Sweeps)] /\ batch' \in [Workers -> Seq(Sweeps)]
        /\ due' \subseteq Sweeps /\ UNCHANGED <<rested, pending, enabled, runs>>
    BY <1>1, <1>3 DEF Base, Kinds, lines, definition
  <1>6. CASE e \notin queue.waiting
    <2>1. proc' = [proc EXCEPT ![p].at = "choosing", ![p].todo = Tail(@)]
      BY <1>6 DEF TakeEntry
    <2>2. /\ OneMoves(p) /\ DOMAIN o = Fields /\ o.at = "choosing"
          /\ o.seen = r.seen /\ o.busy = r.busy /\ o.was = r.was
          /\ o.hand = r.hand /\ o.sweep = r.sweep /\ o.errand = r.errand
      BY <1>l, <2>1 DEF OneMoves, Fields
    <2>3. LocalOK(o) /\ CodeKnown(o)
      BY <1>1, <1>l, <2>2, StaysOK DEF LocalOK, CodeKnown, Starting
    <2> QED BY <1>3, <1>4, <1>5, <2>2, <2>3, QueueStep
  <1>7. CASE e \in queue.waiting
    <2>1. proc' = [proc EXCEPT ![p].at = "checking", ![p].hand = {e},
                               ![p].sweep = e.sweep, ![p].todo = Tail(@)]
      BY <1>7 DEF TakeEntry
    <2>2. e \in Entry /\ e.sweep \in Sweeps
      BY <1>7 DEF Base, Kinds, Entry
    <2>3. /\ OneMoves(p) /\ DOMAIN o = Fields /\ o.at = "checking"
          /\ o.seen = r.seen /\ o.busy = r.busy /\ o.was = r.was
          /\ o.hand = {e} /\ o.sweep = e.sweep /\ o.errand = r.errand
      BY <1>l, <2>1 DEF OneMoves, Fields
    <2>4. LocalOK(o) /\ CodeKnown(o)
      BY <1>2, <1>l, <2>2, <2>3 DEF LocalOK, CodeKnown, Starting, Maybe
    <2>5. Locals'
      BY <2>3, <2>4, LocalsByOne DEF Base
    <2>6. Kinds'
      BY <1>3, <1>5 DEF Base, Kinds, QueueOK, Rec
    <2>7. Codes'
      BY <2>3, <2>4, CodesByOne DEF Base
    <2>8. e.id \in KnownIds(queue) /\ e.id \notin KnownIds(queue')
      <3>1. e.id \in IdsOf(queue.waiting)
        BY <1>7 DEF IdsOf
      <3>2. e.id \notin IdsOf(queue'.waiting)
        BY <1>3, <1>7 DEF IdsOf, Base, Protocol, QueueOK
      <3>3. e.id \notin NotedIds(queue) /\ NotedIds(queue') = NotedIds(queue)
        BY <1>3, <3>1 DEF NotedIds, Base, Protocol, QueueOK
      <3> QED BY <3>1, <3>2, <3>3 DEF KnownIds
    <2>9. IdsOf(o.hand) = {e.id} /\ \A q \in Procs \ {p} : proc'[q].hand = proc[q].hand
      BY <2>3 DEF IdsOf, OneMoves
    <2>10. \A q \in Procs \ {p} : e.id \notin IdsOf(proc[q].hand)
      BY <2>8 DEF Base, Protocol
    <2>11. \A q \in Procs : IdsOf(proc'[q].hand) \cap KnownIds(queue') = {}
      BY <1>4, <2>8, <2>9 DEF Base, Protocol
    <2>12. \A q, x \in Procs : q # x => IdsOf(proc'[q].hand) \cap IdsOf(proc'[x].hand) = {}
      BY <2>9, <2>10 DEF Base, Protocol
    <2>13. QueueOK(queue)'
      BY <1>3 DEF QueueOK, Rec
    <2>14. (\A q \in Procs : IdsOf(proc[q].hand) \cap KnownIds(queue) = {})'
      BY <2>11 DEF KnownIds, NotedIds
    <2>15. Protocol'
      BY <2>12, <2>13, <2>14 DEF Protocol
    <2> QED BY <2>5, <2>6, <2>7, <2>15 DEF Base
  <1> QED BY <1>6, <1>7

LEMMA BaseHands ==
    ASSUME Base, cast' = cast, NEW p \in Procs,
           \/ DropWaiting(p) \/ LineUp(p)
           \/ \E e \in proc[p].hand : NoteStart(p, e) \/ Return(p, e) \/ GiveUp(p, e)
    PROVE  /\ Base'
           /\ Cast.faults = {} => \A e \in proc[p].hand \ proc'[p].hand :
                 e \in queue'.waiting \/ \E n \in queue'.running : n.entry = e
  <1> DEFINE o == proc'[p]
             r == proc[p]
  <1>l. DOMAIN proc = Procs /\ LocalOK(r) /\ DOMAIN r = Fields
    BY DEF Base, Locals, LocalOK
  <1>t. r.was \in Maybe /\ r.sweep \in Maybe
    BY <1>l DEF LocalOK
  <1>k. /\ queue.waiting \subseteq Entry /\ queue.running \subseteq Noted /\ due \subseteq Sweeps
        /\ line \in [Workers -> Seq(Sweeps)] /\ batch \in [Workers -> Seq(Sweeps)]
    BY DEF Base, Kinds
  <1>q. QueueOK(queue)
    BY DEF Base, Protocol
  <1>1. ASSUME DropWaiting(p) PROVE Base' /\ o.hand = r.hand
    <2> DEFINE W == queue.waiting \ Plain(queue.waiting, CollOf[r.sweep], r.sweep)
    <2>1. /\ r.at = "dropping" /\ UNCHANGED <<lines, definition, runs>>
          /\ proc' = [proc EXCEPT ![p].at = "stamping"]
          /\ queue' = OnlyWaiting(queue, W)
      BY <1>1 DEF DropWaiting, Drop, Go
    <2>2. W \in SUBSET queue.waiting
      OBVIOUS
    <2> HIDE DEF W
    <2>3. QueueOK(queue') /\ queue'.waiting = W /\ queue'.running = queue.running
      BY <1>q, <2>1, <2>2, FilterOK
    <2>4. KnownIds(queue') \subseteq KnownIds(queue)
      BY <2>2, <2>3 DEF KnownIds, NotedIds, IdsOf
    <2>5. /\ OneMoves(p) /\ DOMAIN o = Fields /\ o.at = "stamping"
          /\ o.seen = r.seen /\ o.busy = r.busy /\ o.was = r.was
          /\ o.hand = r.hand /\ o.sweep = r.sweep /\ o.errand = r.errand
      BY <1>l, <2>1 DEF OneMoves, Fields
    <2>6. LocalOK(o) /\ CodeKnown(o)
      BY <1>l, <2>1, <2>5, StaysOK DEF LocalOK, CodeKnown, Starting
    <2>7. /\ queue'.waiting \subseteq Entry /\ queue'.running \subseteq Noted
          /\ line' \in [Workers -> Seq(Sweeps)] /\ batch' \in [Workers -> Seq(Sweeps)]
          /\ due' \subseteq Sweeps /\ UNCHANGED <<rested, pending, enabled, runs>>
      BY <1>k, <2>1, <2>2, <2>3 DEF lines, definition
    <2> QED BY <2>3, <2>4, <2>5, <2>6, <2>7, QueueStep
  <1>2. ASSUME LineUp(p) PROVE Base' /\ r.hand = {}
    <2>1. /\ r.errand = "ask" /\ r.at = "failed" /\ UNCHANGED <<lines, definition, runs>>
          /\ proc' = [proc EXCEPT ![p] = Idle]
          /\ \/ queue' = queue
             \/ /\ Room(r.sweep)
                /\ queue' = Add(queue, NewEntry(r.sweep, "manual", NoWorker))
      BY <1>2 DEF LineUp
    <2>2. r.sweep \in Sweeps /\ r.hand = {}
      BY <1>l, <2>1 DEF LocalOK, Starting
    <2>3. OneMoves(p) /\ o = Idle /\ LocalOK(o)
      BY <2>1, IdleAgainOK DEF Base
    <2>4. CodeKnown(o) /\ o.hand = {}
      BY <2>3 DEF CodeKnown, Idle
    <2>5. /\ QueueOK(queue') /\ queue'.waiting \subseteq Entry /\ queue'.running \subseteq Noted
          /\ \A i \in KnownIds(queue') \ KnownIds(queue) :
                \A q \in Procs : i \notin IdsOf(proc'[q].hand)
      <3>1. CASE queue' = queue
        BY <1>k, <1>q, <3>1
      <3>2. CASE queue' = Add(queue, NewEntry(r.sweep, "manual", NoWorker)) /\ Room(r.sweep)
        BY <2>2, <2>3, <2>4, <3>2, AddStep
      <3> QED BY <2>1, <3>1, <3>2
    <2>6. /\ line' \in [Workers -> Seq(Sweeps)] /\ batch' \in [Workers -> Seq(Sweeps)]
          /\ due' \subseteq Sweeps /\ UNCHANGED <<rested, pending, enabled, runs>>
      BY <1>k, <2>1 DEF lines, definition
    <2> QED BY <2>2, <2>3, <2>4, <2>5, <2>6, QueueStep
  <1>e. ASSUME NEW e \in r.hand
        PROVE  /\ e \in Entry /\ r.hand = {e} /\ r.errand # "ask" /\ e.id \notin KnownIds(queue)
               /\ e.named = FALSE /\ e.worker \in Workers \cup {NoWorker}
               /\ \A q \in Procs \ {p} : e.id \notin IdsOf(proc[q].hand)
    <2>1. e \in Entry /\ r.hand = {e} /\ r.errand # "ask"
      BY InHand DEF Base
    <2>2. IdsOf(r.hand) = {e.id}
      BY <2>1 DEF IdsOf
    <2>3. e.id \notin KnownIds(queue) /\ \A q \in Procs \ {p} : e.id \notin IdsOf(proc[q].hand)
      BY <2>2 DEF Base, Protocol
    <2>4. e.named = FALSE /\ e.worker \in Workers \cup {NoWorker}
      BY <2>1 DEF Entry
    <2> QED BY <2>1, <2>3, <2>4
  \* A step that empties the hand and leaves e in the record or nowhere.
  <1>f. ASSUME NEW e \in r.hand, OneMoves(p), LocalOK(o), o.hand = {},
               Cast.faults = {} => CodeKnown(o),
               QueueOK(queue'), queue'.waiting \subseteq Entry, queue'.running \subseteq Noted,
               KnownIds(queue') \subseteq KnownIds(queue) \cup {e.id},
               line' \in [Workers -> Seq(Sweeps)], batch' \in [Workers -> Seq(Sweeps)],
               due' \subseteq Sweeps, UNCHANGED <<rested, pending, enabled, runs>>
        PROVE  Base'
    <2>1. \A q \in Procs \ {p} : e.id \notin IdsOf(proc'[q].hand)
      <3>1. \A q \in Procs \ {p} : proc'[q] = proc[q]
        BY <1>f DEF OneMoves
      <3>2. \A q \in Procs \ {p} : e.id \notin IdsOf(proc[q].hand)
        BY <1>e
      <3> QED BY <3>1, <3>2
    <2>2. e.id \notin IdsOf(o.hand)
      BY <1>f DEF IdsOf
    <2>3. \A i \in KnownIds(queue') \ KnownIds(queue) :
             \A q \in Procs : i \notin IdsOf(proc'[q].hand)
      BY <1>f, <2>1, <2>2
    <2> QED BY <1>f, <2>3, QueueStep
  <1>3. ASSUME NEW e \in r.hand, NoteStart(p, e)
        PROVE  Base' /\ \E n \in queue'.running : n.entry = e
    <2> DEFINE N == [entry |-> e, at |-> 0]
               B == {e.worker} \ {NoWorker}
               b == BackToLine(p)
    <2>1. /\ queue' = Started(queue, e, 0) /\ UNCHANGED <<lines, definition, runs>>
          /\ proc' = [b EXCEPT ![p].names = @ \cup {e.collection},
                               ![p].free = @ - 1, ![p].busy = @ \cup B]
      BY <1>3, Zenon DEF NoteStart
    <2>2. /\ QueueOK(queue') /\ queue'.waiting = queue.waiting
          /\ queue'.running = queue.running \cup {N}
          /\ KnownIds(queue') = KnownIds(queue) \cup {e.id}
      BY <1>e, <1>q, <2>1, StartedOK, ZenonT(40)
    <2>3. N \in Noted /\ N.entry = e
      BY <1>e DEF Noted
    <2> HIDE DEF N
    <2>4. B \subseteq Workers
      BY <1>e
    <2>5. /\ DOMAIN b = Procs /\ DOMAIN b[p] = Fields /\ \A q \in Procs \ {p} : b[q] = proc[q]
          /\ b[p].at = "choosing" /\ b[p].hand = {} /\ b[p].sweep = NoSweep
          /\ b[p].was = NoSweep /\ b[p].seen = r.seen /\ b[p].errand = r.errand
          /\ b[p].busy = r.busy
      BY <1>l DEF BackToLine, Fields
    <2> HIDE DEF b, B
    <2>6. /\ OneMoves(p) /\ DOMAIN o = Fields
          /\ o.at = "choosing" /\ o.hand = {} /\ o.sweep = NoSweep /\ o.was = NoSweep
          /\ o.seen = r.seen /\ o.errand = r.errand /\ o.busy = r.busy \cup B
      BY <2>1, <2>5 DEF OneMoves, Fields
    <2>7. LocalOK(o) /\ CodeKnown(o)
      BY <1>e, <1>l, <2>4, <2>6 DEF LocalOK, CodeKnown, Starting, Maybe
    <2>8. /\ queue'.waiting \subseteq Entry /\ queue'.running \subseteq Noted
          /\ line' \in [Workers -> Seq(Sweeps)] /\ batch' \in [Workers -> Seq(Sweeps)]
          /\ due' \subseteq Sweeps /\ UNCHANGED <<rested, pending, enabled, runs>>
      BY <1>k, <2>1, <2>2, <2>3 DEF lines, definition
    <2> QED BY <1>f, <2>2, <2>3, <2>6, <2>7, <2>8
  <1>4. ASSUME NEW e \in r.hand, Return(p, e)
        PROVE  Base' /\ e \in queue'.waiting
    <2>1. /\ queue' = PutBack(queue, e) /\ UNCHANGED <<lines, definition, runs>>
          /\ proc' = [proc EXCEPT ![p] = Idle] \/ proc' = BackToLine(p)
      BY <1>4 DEF Return
    <2>2. /\ QueueOK(queue') /\ queue'.running = queue.running
          /\ queue'.waiting \subseteq queue.waiting \cup {e} /\ e \in queue'.waiting
      BY <1>e, <1>q, <2>1, PutBackOK
    <2>3. KnownIds(queue') \subseteq KnownIds(queue) \cup {e.id}
      BY <2>2 DEF KnownIds, NotedIds, IdsOf
    <2>4. OneMoves(p) /\ LocalOK(o) /\ o.hand = {} /\ CodeKnown(o)
      <3>1. CASE proc' = [proc EXCEPT ![p] = Idle]
        BY <3>1, IdleAgainOK, IdleOK, Zenon DEF Base, CodeKnown
      <3>2. CASE proc' = BackToLine(p)
        <4>1. Locals /\ r.errand # "ask"
          BY <1>e DEF Base
        <4>2. OneMoves(p) /\ LocalOK(o) /\ o.at = "choosing" /\ o.hand = {}
          BY <3>2, <4>1, BackOK
        <4> QED BY <4>2 DEF CodeKnown
      <3> QED BY <2>1, <3>1, <3>2
    <2>5. /\ queue'.waiting \subseteq Entry /\ queue'.running \subseteq Noted
          /\ line' \in [Workers -> Seq(Sweeps)] /\ batch' \in [Workers -> Seq(Sweeps)]
          /\ due' \subseteq Sweeps /\ UNCHANGED <<rested, pending, enabled, runs>>
      BY <1>e, <1>k, <2>1, <2>2 DEF lines, definition
    <2> QED BY <1>f, <2>2, <2>3, <2>4, <2>5
  <1>5. ASSUME NEW e \in r.hand, GiveUp(p, e)
        PROVE  Base' /\ Cast.faults # {}
    <2>1. /\ r.at = "failed" /\ r.code \notin {409, 429}
          /\ DropFromLines(e.sweep) \/ UNCHANGED <<line, batch>>
          /\ proc' = BackToLine(p) /\ UNCHANGED <<queue, rested, definition, runs>>
      BY <1>5 DEF GiveUp
    <2>2. OneMoves(p) /\ LocalOK(o) /\ o.hand = {} /\ CodeKnown(o)
      <3>1. Locals /\ r.errand # "ask"
        BY <1>e DEF Base
      <3>2. OneMoves(p) /\ LocalOK(o) /\ o.at = "choosing" /\ o.hand = {}
        BY <2>1, <3>1, BackOK
      <3> QED BY <3>2 DEF CodeKnown
    <2>3. line' \in [Workers -> Seq(Sweeps)] /\ batch' \in [Workers -> Seq(Sweeps)]
      BY <1>k, <2>1, DropFromLinesOK DEF Base
    <2>4. Cast.faults # {}
      BY <2>1 DEF Base, Codes, CodeKnown
    <2>5. /\ QueueOK(queue') /\ KnownIds(queue') \subseteq KnownIds(queue) \cup {e.id}
          /\ queue'.waiting \subseteq Entry /\ queue'.running \subseteq Noted
          /\ due' \subseteq Sweeps /\ UNCHANGED <<rested, pending, enabled, runs>>
      BY <1>k, <1>q, <2>1 DEF definition
    <2> QED BY <1>f, <2>2, <2>3, <2>4, <2>5
  <1>6. CASE DropWaiting(p)
    BY <1>1, <1>6
  <1>7. CASE LineUp(p)
    BY <1>2, <1>7
  <1>8. CASE \E e \in r.hand : NoteStart(p, e) \/ Return(p, e) \/ GiveUp(p, e)
    <2>1. PICK e \in r.hand : NoteStart(p, e) \/ Return(p, e) \/ GiveUp(p, e)
      BY <1>8
    <2>2. r.hand = {e}
      BY <1>e, <2>1
    <2> QED BY <1>3, <1>4, <1>5, <2>1, <2>2
  <1> QED BY <1>6, <1>7, <1>8

-----------------------------------------------------------------------------
\* What happens beside the processes, and the whole of Next.

\* Runs that are changed one by one stay runs.
LEMMA RunStepIs ==
    ASSUME Kinds, NEW r \in runs, RunStep(r)
    PROVE  /\ runs' \subseteq Run
           /\ \A t \in runs' : \E u \in runs :
                 /\ t.collection = u.collection /\ t.sweep = u.sweep /\ t.worker = u.worker
                 /\ t.phase = "asked" => t = u
  <1>r. r \in Run /\ runs \subseteq Run
    BY DEF Kinds
  <1>1. ASSUME ReadMark(r) PROVE runs' \subseteq Run
                 /\ \A t \in runs' : \E u \in runs :
                       /\ t.collection = u.collection /\ t.sweep = u.sweep /\ t.worker = u.worker
                       /\ t.phase = "asked" => t = u
    <2>1. PICK s \in Sweeps : Replace(r, [r EXCEPT !.ran = s, !.phase = "collecting"])
      BY <1>1, Zenon DEF ReadMark
    <2> DEFINE n == [r EXCEPT !.ran = s, !.phase = "collecting"]
    <2>2. /\ n \in Run /\ n.collection = r.collection /\ n.sweep = r.sweep
          /\ n.worker = r.worker /\ n.phase = "collecting"
      BY <1>r DEF Run
    <2>3. runs' = (runs \ {r}) \cup {n}
      BY <2>1 DEF Replace
    <2> HIDE DEF n
    <2> QED BY <1>r, <2>2, <2>3
  <1>2. ASSUME Record(r) PROVE runs' \subseteq Run
                 /\ \A t \in runs' : \E u \in runs :
                       /\ t.collection = u.collection /\ t.sweep = u.sweep /\ t.worker = u.worker
                       /\ t.phase = "asked" => t = u
    <2>1. Replace(r, [r EXCEPT !.phase = "baking"])
      BY <1>2 DEF Record
    <2> DEFINE n == [r EXCEPT !.phase = "baking"]
    <2>2. /\ n \in Run /\ n.collection = r.collection /\ n.sweep = r.sweep
          /\ n.worker = r.worker /\ n.phase = "baking"
      BY <1>r DEF Run
    <2>3. runs' = (runs \ {r}) \cup {n}
      BY <2>1 DEF Replace
    <2> HIDE DEF n
    <2> QED BY <1>r, <2>2, <2>3
  <1>3. CASE RunEnds(r)
    BY <1>3, <1>r DEF RunEnds
  <1> QED BY <1>1, <1>2, <1>3 DEF RunStep

\* A step in which no process moves.
LEMMA RestStep ==
    ASSUME Base, cast' = cast, proc' = proc, QueueOK(queue'),
           queue'.waiting \subseteq queue.waiting, queue'.running = queue.running,
           line' = line, batch' = batch, rested' \subseteq Workers,
           pending' \in [Collections -> Maybe], due' \subseteq Sweeps,
           enabled' \in [Collections -> BOOLEAN], runs' \subseteq Run
    PROVE  Base'
  <1>1. Locals'
    BY DEF Base, Locals, LocalOK
  <1>2. Kinds'
    BY DEF Base, Kinds, QueueOK, Rec
  <1>3. KnownIds(queue') \subseteq KnownIds(queue)
    BY DEF KnownIds, NotedIds, IdsOf
  <1>4. Protocol'
    BY <1>3, HandsRest DEF Base
  <1>5. Codes'
    BY DEF Base, Codes, Cast
  <1> QED BY <1>1, <1>2, <1>4, <1>5 DEF Base

LEMMA BaseOutside ==
    ASSUME Base, cast' = cast,
           \/ \E r \in runs : RunStep(r)
           \/ \E e \in queue.waiting : RemoveEntry(e)
           \/ \E c \in Collections : Toggle(c)
           \/ \E s \in Cast.sweeps : ComeDue(s)
           \/ \E w \in Workers : Rest(w)
           \/ RestartTrigger
    PROVE  Base' /\ proc' = proc
  <1>k. /\ queue.waiting \subseteq Entry /\ due \subseteq Sweeps /\ rested \subseteq Workers
        /\ pending \in [Collections -> Maybe] /\ runs \subseteq Run
        /\ enabled \in [Collections -> BOOLEAN] /\ Cast.sweeps \subseteq Sweeps
    BY CastShape DEF Base, Kinds
  <1>q. QueueOK(queue)
    BY DEF Base, Protocol
  <1>1. ASSUME NEW r \in runs, RunStep(r) PROVE Base' /\ proc' = proc
    <2>1. runs' \subseteq Run
      BY <1>1, RunStepIs DEF Base
    <2>2. /\ queue' = queue /\ UNCHANGED lines /\ enabled' = enabled /\ proc' = proc
          /\ pending' = pending \/ pending' = [pending EXCEPT ![r.collection] = NoSweep]
          /\ due' \subseteq due
      BY <1>1, Zenon DEF RunStep, ReadMark, Record, RunEnds, definition
    <2>3. pending' \in [Collections -> Maybe] /\ due' \subseteq Sweeps
      BY <1>k, <2>2 DEF Maybe
    <2>4. line' = line /\ batch' = batch /\ rested' \subseteq Workers
      BY <1>k, <2>2 DEF lines
    <2> QED BY <1>k, <1>q, <2>1, <2>2, <2>3, <2>4, RestStep
  <1>2. ASSUME NEW e \in queue.waiting, RemoveEntry(e) PROVE Base' /\ proc' = proc
    <2>1. /\ queue' = OnlyWaiting(queue, queue.waiting \ {e}) /\ proc' = proc
          /\ UNCHANGED <<lines, definition, runs>>
      BY <1>2 DEF RemoveEntry, Take
    <2>2. /\ QueueOK(queue') /\ queue'.waiting = queue.waiting \ {e}
          /\ queue'.running = queue.running
      BY <1>q, <2>1, FilterOK
    <2> QED BY <1>k, <2>1, <2>2, RestStep DEF lines, definition
  <1>3. ASSUME NEW c \in Collections, Toggle(c) PROVE Base' /\ proc' = proc
    <2>1. /\ queue' = queue /\ UNCHANGED <<lines, pending, due, runs>> /\ proc' = proc
          /\ enabled' = [enabled EXCEPT ![c] = ~@]
      BY <1>3 DEF Toggle
    <2>2. enabled' \in [Collections -> BOOLEAN]
      BY <1>k, <2>1
    <2> QED BY <1>k, <1>q, <2>1, <2>2, RestStep DEF lines
  <1>4. ASSUME NEW s \in Cast.sweeps, ComeDue(s) PROVE Base' /\ proc' = proc
    BY <1>k, <1>q, <1>4, RestStep DEF ComeDue, lines
  <1>5. ASSUME NEW w \in Workers, Rest(w) PROVE Base' /\ proc' = proc
    BY <1>k, <1>q, <1>5, RestStep DEF Rest, definition
  <1>6. ASSUME RestartTrigger PROVE Base' /\ proc' = proc
    BY <1>k, <1>q, <1>6, RestStep DEF RestartTrigger, lines, definition
  <1> QED BY <1>1, <1>2, <1>3, <1>4, <1>5, <1>6

\* The step of a process, by what it may do to the entry in hand.
Handing(p) == \/ DropWaiting(p) \/ LineUp(p)
              \/ \E e \in proc[p].hand : NoteStart(p, e) \/ Return(p, e) \/ GiveUp(p, e)

Otherwise(p) ==
    \/ p \in Clocks \cap Cast.who /\ Tick(p)
    \/ Fill(p) \/ Fetch(p) \/ FetchFails(p) \/ SettleNotes(p)
    \/ Advance(p) \/ ChooseWoken(p) \/ HandedOver(p) \/ QueuedDue(p)
    \/ \E s \in proc[p].seen : HandOver(p, s) \/ QueueDue(p, s)
    \/ Survey(p) \/ Served(p)
    \/ \E e : \/ Skip(p, e) \/ Discard(p, e) \/ NoRoomAtBackends(p, e) \/ Choose(p, e)
              \/ TakeEntry(p, e)
    \/ Check(p) \/ CheckUnread(p) \/ Mark(p) \/ Send(p) \/ SendFails(p)
    \/ Recheck(p) \/ RecheckUnread(p) \/ Restore(p)
    \/ Clear(p) \/ Stamp(p) \/ Crash(p)
    \/ p \in Askers \cap Cast.who /\ \E s \in Cast.sweeps : Ask(p, s)
    \/ p \in Wakers \cap Cast.who /\ \E w \in Workers : Wake(p, w)

Outside ==
    \/ \E r \in runs : RunStep(r)
    \/ \E e \in queue.waiting : RemoveEntry(e)
    \/ \E c \in Collections : Toggle(c)
    \/ \E s \in Cast.sweeps : ComeDue(s)
    \/ \E w \in Workers : Rest(w)
    \/ RestartTrigger

LEMMA NextIs ==
    ASSUME Next PROVE Outside \/ \E p \in Procs : Handing(p) \/ Otherwise(p)
  <1>1. ASSUME NEW p \in Procs, Work(p) PROVE Handing(p) \/ Otherwise(p)
    BY <1>1 DEF Work, Handing, Otherwise
  <1>2. ASSUME NEW p \in Procs, Crash(p) PROVE Otherwise(p)
    BY <1>2 DEF Otherwise
  <1>3. ASSUME NEW p \in Clocks \cap Cast.who, Tick(p) PROVE p \in Procs /\ Otherwise(p)
    BY <1>3 DEF Otherwise, Procs
  <1>4. ASSUME NEW p \in Askers \cap Cast.who, NEW s \in Cast.sweeps, Ask(p, s)
        PROVE  p \in Procs /\ Otherwise(p)
    BY <1>4 DEF Otherwise, Procs
  <1>5. ASSUME NEW p \in Wakers \cap Cast.who, NEW w \in Workers, Wake(p, w)
        PROVE  p \in Procs /\ Otherwise(p)
    BY <1>5 DEF Otherwise, Procs
  <1> QED BY <1>1, <1>2, <1>3, <1>4, <1>5 DEF Next, Outside

LEMMA StepsMoveOne ==
    ASSUME DOMAIN proc = Procs, NEW p \in Procs, Handing(p) \/ Otherwise(p)
    PROVE  OneMoves(p)
  <1>1. CASE Tick(p) \/ FetchFails(p) \/ Served(p) \/ Crash(p) \/ LineUp(p)
             \/ (\E s \in Cast.sweeps : Ask(p, s)) \/ (\E w \in Workers : Wake(p, w))
    BY <1>1, Zenon DEF Tick, FetchFails, Served, Crash, LineUp, Ask, Wake, OneMoves
  <1>2. CASE Fill(p) \/ Fetch(p) \/ SettleNotes(p) \/ HandedOver(p) \/ QueuedDue(p)
             \/ \E s \in proc[p].seen : HandOver(p, s) \/ QueueDue(p, s)
    BY <1>2 DEF Fill, Fetch, SettleNotes, HandedOver, QueuedDue, HandOver, QueueDue, Go, OneMoves
  <1>3. CASE Advance(p) \/ ChooseWoken(p)
    <2>1. \E S : proc' = [proc EXCEPT ![p].at = "handing", ![p].seen = S]
      BY <1>3, Zenon DEF Advance, ChooseWoken, ChooseHeads
    <2> QED BY <2>1 DEF OneMoves
  <1>4. CASE Survey(p)
    BY <1>4 DEF Survey, OneMoves
  <1>5. CASE \E e : Skip(p, e) \/ Discard(p, e) \/ NoRoomAtBackends(p, e) \/ Choose(p, e)
                    \/ TakeEntry(p, e)
    BY <1>5 DEF Skip, Discard, NoRoomAtBackends, Choose, TakeEntry, Go, OneMoves
  <1>6. CASE Check(p) \/ CheckUnread(p) \/ Mark(p) \/ Send(p) \/ SendFails(p)
    BY <1>6 DEF Check, CheckUnread, Mark, Send, SendFails, Fails, Go, OneMoves
  <1>7. CASE Recheck(p) \/ RecheckUnread(p) \/ Restore(p) \/ Clear(p) \/ DropWaiting(p) \/ Stamp(p)
    BY <1>7 DEF Recheck, RecheckUnread, Restore, Clear, DropWaiting, Stamp, Go, OneMoves
  <1>8. CASE \E e \in proc[p].hand : NoteStart(p, e) \/ Return(p, e) \/ GiveUp(p, e)
    BY <1>8 DEF NoteStart, Return, GiveUp, BackToLine, OneMoves
  <1> QED BY <1>1, <1>2, <1>3, <1>4, <1>5, <1>6, <1>7, <1>8 DEF Handing, Otherwise

\* Without faults only the steps of Handing take something out of a hand.
LEMMA HandKept ==
    ASSUME Base, Cast.faults = {}, NEW p \in Procs, Otherwise(p)
    PROVE  proc[p].hand \subseteq proc'[p].hand
  <1> DEFINE o == proc'[p]
             r == proc[p]
  <1>l. DOMAIN proc = Procs /\ LocalOK(r) /\ DOMAIN r = Fields
    BY DEF Base, Locals, LocalOK
  <1>1. CASE r.at \notin Starting
    BY <1>1, <1>l DEF LocalOK
  <1>2. CASE r.at \in Starting
    <2>1. \/ Check(p) \/ CheckUnread(p) \/ Mark(p) \/ Send(p) \/ SendFails(p)
          \/ Recheck(p) \/ RecheckUnread(p) \/ Restore(p) \/ Clear(p) \/ Stamp(p)
      <3>1. ~(\/ Tick(p) \/ Fill(p) \/ Fetch(p) \/ FetchFails(p) \/ SettleNotes(p)
              \/ Advance(p) \/ ChooseWoken(p) \/ HandedOver(p) \/ QueuedDue(p)
              \/ \E s \in proc[p].seen : HandOver(p, s) \/ QueueDue(p, s)
              \/ Survey(p) \/ Served(p)
              \/ \E s \in Cast.sweeps : Ask(p, s)
              \/ \E w \in Workers : Wake(p, w))
        BY <1>2, Zenon DEF Starting, Tick, Fill, Fetch, FetchFails, SettleNotes, Advance, ChooseWoken,
                    HandedOver, QueuedDue, HandOver, QueueDue, Survey, Served, Ask, Wake
      <3>2. \A e : ~(\/ Skip(p, e) \/ Discard(p, e) \/ NoRoomAtBackends(p, e) \/ Choose(p, e)
                     \/ TakeEntry(p, e))
        BY <1>2 DEF Starting, Skip, Discard, NoRoomAtBackends, Choose, Choosing, TakeEntry
      <3>3. ~Crash(p)
        BY DEF Crash
      <3> QED BY <3>1, <3>2, <3>3 DEF Otherwise
    <2>2. CASE Check(p) \/ CheckUnread(p) \/ Mark(p) \/ Send(p) \/ SendFails(p)
      BY <1>l, <2>2 DEF Check, CheckUnread, Mark, Send, SendFails, Fails, Go, Fields
    <2>3. CASE Recheck(p) \/ RecheckUnread(p) \/ Restore(p) \/ Clear(p)
      BY <1>l, <2>3 DEF Recheck, RecheckUnread, Restore, Clear, Go, Fields
    <2>4. CASE Stamp(p)
      BY <1>2, <1>l, <2>4 DEF Stamp, Fields, LocalOK
    <2> QED BY <2>1, <2>2, <2>3, <2>4
  <1> QED BY <1>1, <1>2

LEMMA BaseOtherwise ==
    ASSUME Base, cast' = cast, NEW p \in Procs, Otherwise(p)
    PROVE  Base'
  <1>1. \/ \/ Tick(p) \/ Fetch(p) \/ FetchFails(p) \/ HandedOver(p) \/ QueuedDue(p)
           \/ Survey(p) \/ Served(p)
           \/ \E e : Skip(p, e) \/ NoRoomAtBackends(p, e) \/ Choose(p, e)
           \/ \E w \in Workers : Wake(p, w)
        \/ \/ Check(p) \/ CheckUnread(p) \/ Mark(p) \/ Send(p) \/ SendFails(p)
           \/ Recheck(p) \/ RecheckUnread(p) \/ Restore(p) \/ Clear(p) \/ Stamp(p)
           \/ \E s \in Cast.sweeps : Ask(p, s)
        \/ \/ Fill(p) \/ SettleNotes(p) \/ Advance(p) \/ ChooseWoken(p)
           \/ \E s \in proc[p].seen : HandOver(p, s) \/ QueueDue(p, s)
           \/ \E e : Discard(p, e)
           \/ Crash(p)
        \/ \E e : TakeEntry(p, e)
    BY DEF Otherwise
  <1> QED BY <1>1, BaseLooks, BaseStarts, BaseQueues, BaseTakes

LEMMA NextBase ==
    ASSUME Base, [Next /\ UNCHANGED cast]_<<vars, cast>>
    PROVE  Base'
  <1>1. CASE Next /\ cast' = cast
    BY <1>1, NextIs, BaseOutside, BaseOtherwise, BaseHands DEF Outside, Handing
  <1>2. CASE UNCHANGED <<vars, cast>>
    <2>1. /\ queue' = queue /\ proc' = proc /\ cast' = cast /\ line' = line /\ batch' = batch
          /\ rested' = rested /\ pending' = pending /\ due' = due /\ enabled' = enabled
          /\ runs' = runs
      BY <1>2 DEF vars
    <2>2. /\ QueueOK(queue) /\ rested \subseteq Workers /\ pending \in [Collections -> Maybe]
          /\ due \subseteq Sweeps /\ enabled \in [Collections -> BOOLEAN] /\ runs \subseteq Run
      BY DEF Base, Kinds, Protocol
    <2> QED BY <2>1, <2>2, RestStep
  <1> QED BY <1>1, <1>2

LEMMA AlwaysBase == Spec => []Base
  <1>1. Init => Base
    BY InitBase
  <1>2. Base /\ [Next /\ UNCHANGED cast]_<<vars, cast>> => Base'
    BY NextBase
  <1> QED BY <1>1, <1>2, PTL DEF Spec

-----------------------------------------------------------------------------

\* Types; a dispatcher has one entry in hand at most (run_or_queue and _dispatch).
THEOREM DispatchTyped == Spec => []TypeOK
  <1>1. ASSUME Base PROVE TypeOK
    <2>1. {r.entry : r \in queue.running} \subseteq Entry
      BY <1>1 DEF Base, Kinds, Noted
    <2>2. \A w \in Workers : Lined(w) \subseteq Sweeps
      <3> SUFFICES ASSUME NEW w \in Workers PROVE Lined(w) \subseteq Sweeps
        OBVIOUS
      <3>1. line[w] \in Seq(Sweeps) /\ batch[w] \in Seq(Sweeps)
        BY <1>1 DEF Base, Kinds
      <3> QED BY <3>1 DEF Lined, ToSet
    <2>3. \A p \in Procs : Cardinality(proc[p].hand) <= 1
      <3> SUFFICES ASSUME NEW p \in Procs PROVE Cardinality(proc[p].hand) <= 1
        OBVIOUS
      <3>1. proc[p].hand = {} \/ \E e \in Entry : proc[p].hand = {e}
        BY <1>1 DEF Base, Locals, LocalOK
      <3>2. CASE proc[p].hand = {}
        BY <3>2, FS_EmptySet
      <3>3. ASSUME NEW e \in Entry, proc[p].hand = {e} PROVE Cardinality(proc[p].hand) <= 1
        <4>1. Cardinality({e}) = 1
          BY FS_Singleton
        <4> QED BY <3>3, <4>1
      <3> QED BY <3>1, <3>2, <3>3
    <2> QED BY <1>1, <2>1, <2>2, <2>3 DEF TypeOK, Base, Kinds, Maybe
  <1> QED BY <1>1, AlwaysBase, PTL

\* Whoever dispatches and whatever fails, the queue is used as IngestQueue expects it.
THEOREM QueueProtocolKept == Spec => []QueueProtocol
  <1>1. ASSUME Base PROVE QueueProtocol
    <2>q. QueueOK(queue)
      BY <1>1 DEF Base, Protocol
    <2>1. Queue!NoPlainTwins
      BY <2>q DEF QueueOK, Queue!NoPlainTwins, Same, Queue!Same
    <2>2. Queue!OneLine
      BY <2>q DEF QueueOK, Queue!OneLine, IdsOf, Queue!IdsOf
    <2>3. \A S : Queue!IdsOf(S) = IdsOf(S)
      BY DEF IdsOf, Queue!IdsOf
    <2>4. Queue!RunIds(queue) = NotedIds(queue)
      BY DEF NotedIds, Queue!RunIds
    <2> DEFINE h == [p \in Procs |-> proc[p].hand]
    <2>5. \A p \in Procs : h[p] = proc[p].hand /\ \A e, f \in h[p] : e = f
      BY <1>1 DEF Base, Locals, LocalOK
    <2>6. \A p, o \in Procs : p # o => IdsOf(h[p]) \cap IdsOf(h[o]) = {}
      BY <1>1, <2>5 DEF Base, Protocol
    <2>7. \A p \in Procs : IdsOf(h[p]) \cap (IdsOf(queue.waiting) \cup NotedIds(queue)) = {}
      BY <1>1, <2>5 DEF Base, Protocol, KnownIds
    <2> HIDE DEF h
    <2>8. Queue!OneHolder
      BY <2>q, <2>3, <2>4, <2>5, <2>6, <2>7 DEF QueueOK, Queue!OneHolder, h
    <2> QED BY <2>1, <2>2, <2>8 DEF QueueProtocol
  <1> QED BY <1>1, AlwaysBase, PTL

\* While the trigger answers, no dispatcher lets go of an entry that it neither notes as
\* started nor puts back into the line.
THEOREM NothingIsGivenUp == Spec => NothingGivenUp
  <1> DEFINE A == Cast.faults = {} => \A p \in Procs : \A e \in proc[p].hand \ proc'[p].hand :
                     e \in queue'.waiting \/ \E r \in queue'.running : r.entry = e
  <1>1. ASSUME Base, [Next /\ UNCHANGED cast]_<<vars, cast>> PROVE [A]_vars
    <2>1. SUFFICES ASSUME Next, cast' = cast, Cast.faults = {}, NEW q \in Procs,
                          NEW e \in proc[q].hand \ proc'[q].hand
                   PROVE  e \in queue'.waiting \/ \E r \in queue'.running : r.entry = e
      BY <1>1 DEF vars
    <2>2. CASE Outside
      BY <1>1, <2>1, <2>2, BaseOutside DEF Outside
    <2>3. ASSUME NEW p \in Procs, Handing(p)
          PROVE  e \in queue'.waiting \/ \E r \in queue'.running : r.entry = e
      <3>1. DOMAIN proc = Procs
        BY <1>1 DEF Base, Locals
      <3>2. q = p
        BY <2>1, <2>3, <3>1, StepsMoveOne DEF OneMoves
      <3> QED BY <1>1, <2>1, <2>3, <3>2, BaseHands DEF Handing
    <2>4. ASSUME NEW p \in Procs, Otherwise(p) PROVE FALSE
      <3>1. DOMAIN proc = Procs
        BY <1>1 DEF Base, Locals
      <3>2. q = p
        BY <2>1, <2>4, <3>1, StepsMoveOne DEF OneMoves
      <3> QED BY <1>1, <2>1, <2>4, <3>2, HandKept
    <2> QED BY <2>1, <2>2, <2>3, <2>4, NextIs
  <1> QED BY <1>1, AlwaysBase, PTL DEF Spec, NothingGivenUp

-----------------------------------------------------------------------------
\* One clock, and nobody beside it.  P stands for what the clock is at.

Noting == {"clearing", "dropping", "stamping", "noting"}

Before == {"idle", "filling", "fetching"}

\* What the clock queues is a sweep of its collection, and never for a person.
Good(e) == e.collection = CollOf[e.sweep] /\ e.origin # "manual"

Entries(P) == \A e \in queue.waiting \cup P.hand : Good(e)

\* A run that asks for its material finds the mark of its sweep.
RunsOK ==
    /\ \A r \in runs : r.collection = CollOf[r.sweep] /\ r.ran \in {NoSweep, r.sweep}
    /\ \A r, t \in runs : r.collection = t.collection => r = t
    /\ \A r, t \in runs : r.worker = t.worker /\ r.worker # NoWorker => r = t
    /\ \A r \in runs : r.phase = "asked" => pending[r.collection] = r.sweep

\* A worker's run is noted, or the clock is about to note it.
IsNoted(r) == \E n \in queue.running : /\ n.entry.worker = r.worker
                                       /\ n.entry.collection = r.collection
                                       /\ n.entry.sweep = r.sweep

Matched(P) ==
    \A r \in runs : r.worker # NoWorker =>
        \/ IsNoted(r)
        \/ P.at \in Noting /\ r.sweep = P.sweep /\ \A e \in P.hand : e.worker = r.worker

\* Once it has the status, the clock knows of every run.
Knows(P) ==
    P.at \notin Before =>
        \A r \in runs : r.collection \in P.names \/ (P.at \in Noting /\ r.sweep = P.sweep)

\* What is being started is free, as far as the clock knows ...
FreeOf(P) ==
    P.at \in Starting => /\ CollOf[P.sweep] \notin P.names
                         /\ \A e \in P.hand : e.worker \notin P.busy

\* ... and it knows of every note.
Surveyed(P) ==
    P.at \in {"choosing", "taking"} \cup Starting =>
        \A n \in queue.running : n.entry.worker \in P.busy \cup {NoWorker}

Picked(P) ==
    P.at = "taking" => /\ Head(P.todo).collection \notin P.names
                       /\ Head(P.todo).worker \notin P.busy
                       /\ Good(Head(P.todo)) => Head(P.todo).sweep \in due

DueStill(P) ==
    /\ P.at \in {"checking", "marking", "sending"} => P.sweep \in due
    /\ P.at = "sending" => pending[CollOf[P.sweep]] = P.sweep

Placed(P) ==
    /\ P.errand \in {"none", "tick"}
    /\ Entries(P) /\ Matched(P) /\ Knows(P) /\ FreeOf(P) /\ Surveyed(P) /\ Picked(P)
    /\ DueStill(P)

Alone(c) ==
    /\ c \in Clocks /\ Cast.who = {c} /\ Cast.faults \cap {"lost_reply", "crash"} = {}
    /\ \A q \in Procs \ {c} : proc[q].at = "idle"
    /\ RunsOK /\ Placed(proc[c])

\* Only the clock moves, and the runs are those that were.
LEMMA AloneBy ==
    ASSUME NEW c, Alone(c), OneMoves(c), cast' = cast, RunsOK', Placed(proc[c])'
    PROVE  Alone(c)'
  BY DEF Alone, OneMoves, Cast

LEMMA SameRuns ==
    ASSUME RunsOK, runs' = runs, pending' = pending
    PROVE  RunsOK'
  BY DEF RunsOK

\* A step to a place where nothing is chosen or started.
LEMMA AloneQuiet ==
    ASSUME NEW c, Alone(c), OneMoves(c), cast' = cast, runs' = runs, pending' = pending,
           queue'.running = queue.running,
           \A e \in queue'.waiting : e \in queue.waiting \/ Good(e),
           proc[c].at \notin Noting,
           proc'[c].hand = {}, proc'[c].errand \in {"none", "tick"},
           proc'[c].at \notin Starting \cup {"taking"},
           proc'[c].at \notin Before => /\ proc[c].at \notin Before
                                        /\ proc'[c].names = proc[c].names,
           proc'[c].at = "choosing" => /\ proc[c].at \in {"choosing", "taking"} \cup Starting
                                       /\ proc'[c].busy = proc[c].busy
    PROVE  Alone(c)'
  <1>1. RunsOK'
    BY SameRuns DEF Alone
  <1> DEFINE o == proc'[c]
  <1>2. Entries(proc[c])'
    BY DEF Alone, Placed, Entries, Good
  <1>3. Matched(proc[c])'
    BY DEF Alone, Placed, Matched, IsNoted
  <1>4. Knows(proc[c])'
    BY DEF Alone, Placed, Knows
  <1>5. (FreeOf(proc[c]) /\ Picked(proc[c]) /\ DueStill(proc[c]))'
    BY DEF FreeOf, Picked, DueStill, Starting
  <1>6. Surveyed(proc[c])'
    BY DEF Alone, Placed, Surveyed
  <1> QED BY <1>1, <1>2, <1>3, <1>4, <1>5, <1>6, AloneBy DEF Placed

\* A step of the start, before the run is on or after it.
LEMMA AloneStarting ==
    ASSUME NEW c, Base, Alone(c), OneMoves(c), cast' = cast, runs' = runs,
           queue'.running = queue.running, queue'.waiting \subseteq queue.waiting,
           proc[c].at \in Starting, proc'[c].at \in Starting,
           proc'[c].at \in Noting <=> proc[c].at \in Noting,
           proc'[c].names = proc[c].names, proc'[c].busy = proc[c].busy,
           proc'[c].hand = proc[c].hand, proc'[c].sweep = proc[c].sweep,
           proc'[c].errand = proc[c].errand,
           proc'[c].at \in {"checking", "marking", "sending"} =>
              proc[c].at \in {"checking", "marking", "sending"} /\ due' = due,
           \/ pending' = pending /\ proc'[c].at # "sending"
           \/ \E x : /\ pending' = [pending EXCEPT ![CollOf[proc[c].sweep]] = x]
                     /\ proc[c].at \in Noting \/ proc'[c].at = "sending" => x = proc[c].sweep
    PROVE  Alone(c)'
  <1>l. c \in Procs /\ LocalOK(proc[c]) /\ proc[c].sweep \in Sweeps
    BY DEF Base, Locals, LocalOK, Alone, Procs
  <1>k. CollOf[proc[c].sweep] \in Collections /\ DOMAIN pending = Collections
        /\ \A u \in runs : u.collection \in Collections
    BY <1>l, DispatchAssumption DEF Base, Kinds, Run
  <1>1. RunsOK'
    <2>1. ASSUME NEW u \in runs, u.phase = "asked" PROVE pending'[u.collection] = u.sweep
      <3>1. pending[u.collection] = u.sweep
        BY <2>1 DEF Alone, RunsOK
      <3>2. CASE u.collection # CollOf[proc[c].sweep]
        BY <1>k, <3>1, <3>2
      <3>3. CASE u.collection = CollOf[proc[c].sweep]
        <4>1. proc[c].at \in Noting /\ u.sweep = proc[c].sweep
          BY <3>3 DEF Alone, Placed, Knows, FreeOf, Starting, Before
        <4> QED BY <1>k, <3>1, <3>3, <4>1
      <3> QED BY <3>2, <3>3
    <2> QED BY <2>1 DEF Alone, RunsOK
  <1>2. Entries(proc[c])'
    BY DEF Alone, Placed, Entries, Good
  <1>3. Matched(proc[c])'
    BY DEF Alone, Placed, Matched, IsNoted
  <1>4. (Knows(proc[c]) /\ FreeOf(proc[c]) /\ Surveyed(proc[c]) /\ Picked(proc[c]))'
    BY DEF Alone, Placed, Knows, FreeOf, Surveyed, Picked, Starting, Before
  <1>5. DueStill(proc[c])'
    BY <1>k DEF Alone, Placed, DueStill
  <1> QED BY <1>1, <1>2, <1>3, <1>4, <1>5, AloneBy DEF Placed, Alone

LEMMA AloneLooks ==
    ASSUME Base, NEW c, Alone(c), cast' = cast,
           \/ Tick(c) \/ Fill(c) \/ FetchFails(c) \/ Advance(c) \/ ChooseWoken(c)
           \/ HandedOver(c) \/ QueuedDue(c) \/ Served(c)
           \/ \E s \in proc[c].seen : HandOver(c, s) \/ QueueDue(c, s)
           \/ \E e : Skip(c, e) \/ NoRoomAtBackends(c, e) \/ Discard(c, e)
    PROVE  Alone(c)'
  <1> DEFINE o == proc'[c]
             r == proc[c]
             Stays == o.hand = r.hand /\ o.errand = r.errand /\ o.names = r.names
  <1>l. /\ c \in Procs /\ DOMAIN proc = Procs /\ LocalOK(r) /\ DOMAIN r = Fields
        /\ r.errand \in {"none", "tick"} /\ r.seen \subseteq Sweeps
    BY DEF Base, Locals, LocalOK, Alone, Procs, Placed
  <1>i. Idle.at = "idle" /\ Idle.hand = {} /\ Idle.errand = "none"
    BY DEF Idle
  \* The process is over with its tick.
  <1>o. ASSUME proc' = [proc EXCEPT ![c] = Idle], UNCHANGED <<queue, lines, definition, runs>>,
               r.at \notin Noting
        PROVE  Alone(c)'
    <2>1. OneMoves(c) /\ o = Idle
      BY <1>l, <1>o DEF OneMoves
    <2>2. queue' = queue /\ runs' = runs /\ pending' = pending
      BY <1>o DEF definition
    <2> QED BY <1>i, <1>o, <2>1, <2>2, AloneQuiet DEF Before, Starting
  <1>1. ASSUME Tick(c) PROVE Alone(c)'
    <2> DEFINE S == {e.sweep : e \in queue.waiting} \cup {n.entry.sweep : n \in queue.running}
    <2>1. /\ proc' = [proc EXCEPT ![c] = [Idle EXCEPT !.errand = "tick", !.at = "filling",
                                                      !.seen = S]]
          /\ r.at = "idle" /\ queue' = queue /\ runs' = runs /\ pending' = pending
      BY <1>1 DEF Tick, definition
    <2> HIDE DEF S
    <2>2. OneMoves(c) /\ o = [Idle EXCEPT !.errand = "tick", !.at = "filling", !.seen = S]
      BY <1>l, <2>1 DEF OneMoves
    <2> HIDE DEF o
    <2>3. o.hand = {} /\ o.at = "filling" /\ o.errand = "tick"
      BY <2>2 DEF Idle
    <2> QED BY <2>1, <2>2, <2>3, AloneQuiet DEF Before, Starting, Noting, o
  <1>2. ASSUME Fill(c) PROVE Alone(c)'
    <2>1. /\ proc' = [proc EXCEPT ![c].at = "fetching", ![c].seen = {}] /\ r.at = "filling"
          /\ queue' = queue /\ runs' = runs /\ pending' = pending
      BY <1>2 DEF Fill, definition
    <2>2. OneMoves(c) /\ Stays /\ o.at = "fetching"
      BY <1>l, <2>1 DEF OneMoves, Fields
    <2>3. r.hand = {}
      BY <1>l, <2>1 DEF LocalOK, Starting
    <2> QED BY <1>l, <2>1, <2>2, <2>3, AloneQuiet DEF Before, Starting, Noting
  <1>3. ASSUME FetchFails(c) \/ Served(c) PROVE Alone(c)'
    BY <1>3, <1>o DEF FetchFails, Served, Noting
  <1>4. ASSUME Advance(c) \/ ChooseWoken(c) PROVE Alone(c)'
    <2>1. /\ r.at \in {"advancing", "waking"} /\ queue' = queue /\ runs' = runs
          /\ pending' = pending
          /\ \E S : proc' = [proc EXCEPT ![c].at = "handing", ![c].seen = S]
      BY <1>4, Zenon DEF Advance, ChooseWoken, ChooseHeads, definition
    <2>2. OneMoves(c) /\ Stays /\ o.at = "handing"
      BY <1>l, <2>1 DEF OneMoves, Fields
    <2>3. r.hand = {}
      BY <1>l, <2>1 DEF LocalOK, Starting
    <2> QED BY <1>l, <2>1, <2>2, <2>3, AloneQuiet DEF Before, Starting, Noting
  <1>5. ASSUME HandedOver(c) PROVE Alone(c)'
    <2> DEFINE S == {s \in due : WorkerOf[s] = NoWorker /\ enabled[CollOf[s]]}
    <2>1. /\ r.at = "handing" /\ queue' = queue /\ runs' = runs /\ pending' = pending
          /\ UNCHANGED <<queue, lines, definition, runs>>
          /\ \/ proc' = [proc EXCEPT ![c].at = "queueing", ![c].seen = S]
             \/ proc' = [proc EXCEPT ![c].at = "fetching"]
             \/ proc' = [proc EXCEPT ![c] = Idle]
      BY <1>5 DEF HandedOver, definition
    <2> HIDE DEF S
    <2>3. r.hand = {}
      BY <1>l, <2>1 DEF LocalOK, Starting
    <2>4. CASE proc' = [proc EXCEPT ![c] = Idle]
      BY <1>o, <2>1, <2>4 DEF Noting
    <2>5. CASE proc' = [proc EXCEPT ![c].at = "queueing", ![c].seen = S]
      <3>1. OneMoves(c) /\ Stays /\ o.at = "queueing"
        BY <1>l, <2>5 DEF OneMoves, Fields
      <3> QED BY <1>l, <2>1, <2>3, <3>1, AloneQuiet DEF Before, Starting, Noting
    <2>6. CASE proc' = [proc EXCEPT ![c].at = "fetching"]
      <3>1. OneMoves(c) /\ Stays /\ o.at = "fetching"
        BY <1>l, <2>6 DEF OneMoves, Fields
      <3> QED BY <1>l, <2>1, <2>3, <3>1, AloneQuiet DEF Before, Starting, Noting
    <2> QED BY <2>1, <2>4, <2>5, <2>6
  <1>6. ASSUME QueuedDue(c) PROVE Alone(c)'
    <2>1. /\ proc' = [proc EXCEPT ![c].at = "serving"] /\ r.at = "queueing"
          /\ queue' = queue /\ runs' = runs /\ pending' = pending
      BY <1>6 DEF QueuedDue, Go, definition
    <2>2. OneMoves(c) /\ Stays /\ o.at = "serving"
      BY <1>l, <2>1 DEF OneMoves, Fields
    <2>3. r.hand = {}
      BY <1>l, <2>1 DEF LocalOK, Starting
    <2> QED BY <1>l, <2>1, <2>2, <2>3, AloneQuiet DEF Before, Starting, Noting
  <1>7. ASSUME NEW s \in r.seen, HandOver(c, s) \/ QueueDue(c, s) PROVE Alone(c)'
    <2>1. /\ r.at \in {"handing", "queueing"} /\ Room(s)
          /\ proc' = [proc EXCEPT ![c].seen = @ \ {s}] /\ runs' = runs /\ pending' = pending
          /\ \/ queue' = Add(queue, NewEntry(s, "worker", WorkerOf[s]))
             \/ queue' = Add(queue, NewEntry(s, "schedule", NoWorker))
      BY <1>7 DEF HandOver, QueueDue, definition
    <2>2. s \in Sweeps /\ WorkerOf[s] \in Workers \cup {NoWorker}
      BY <1>7, <1>l, DispatchAssumption
    <2>3. OneMoves(c) /\ Stays /\ o.at = r.at
      BY <1>l, <2>1 DEF OneMoves, Fields
    <2>4. r.hand = {}
      BY <1>l, <2>1 DEF LocalOK, Starting
    <2>5. /\ queue'.running = queue.running
          /\ \A e \in queue'.waiting \ queue.waiting :
                e.collection = CollOf[s] /\ e.sweep = s /\ e.origin \in {"worker", "schedule"}
      <3>1. CASE queue' = Add(queue, NewEntry(s, "worker", WorkerOf[s]))
        BY <1>l, <2>1, <2>2, <2>3, <3>1, AddStep
      <3>2. CASE queue' = Add(queue, NewEntry(s, "schedule", NoWorker))
        BY <1>l, <2>1, <2>2, <2>3, <3>2, AddStep
      <3> QED BY <2>1, <3>1, <3>2
    <2>6. \A e \in queue'.waiting : e \in queue.waiting \/ Good(e)
      BY <2>5 DEF Good
    <2> QED BY <1>l, <2>1, <2>3, <2>4, <2>5, <2>6, AloneQuiet DEF Before, Starting, Noting
  <1>8. ASSUME NEW e, Skip(c, e) \/ NoRoomAtBackends(c, e) \/ Discard(c, e) PROVE Alone(c)'
    <2>1. /\ r.at = "choosing" /\ proc' = [proc EXCEPT ![c].todo = Tail(@)]
          /\ runs' = runs /\ pending' = pending
          /\ queue' = queue \/ queue' = OnlyWaiting(queue, queue.waiting \ {e})
      BY <1>8 DEF Skip, NoRoomAtBackends, Discard, Choosing, Take, definition
    <2>2. OneMoves(c) /\ Stays /\ o.at = "choosing" /\ o.busy = r.busy
      BY <1>l, <2>1 DEF OneMoves, Fields
    <2>3. r.hand = {}
      BY <1>l, <2>1 DEF LocalOK, Starting
    <2>4. queue'.running = queue.running /\ queue'.waiting \subseteq queue.waiting
      BY <2>1, OnlyWaitingIs DEF Base, Protocol, QueueOK
    <2> QED BY <1>l, <2>1, <2>2, <2>3, <2>4, AloneQuiet DEF Before, Starting, Noting
  <1> QED BY <1>1, <1>2, <1>3, <1>4, <1>5, <1>6, <1>7, <1>8

\* What cannot be started goes back into the line or is given up.
LEMMA AloneReturns ==
    ASSUME Base, NEW c, Alone(c), cast' = cast, NEW e \in proc[c].hand,
           Return(c, e) \/ GiveUp(c, e)
    PROVE  Alone(c)'
  <1> DEFINE o == proc'[c]
             r == proc[c]
  <1>l. /\ c \in Procs /\ DOMAIN proc = Procs /\ LocalOK(r) /\ DOMAIN r = Fields
        /\ r.errand \in {"none", "tick"} /\ Good(e)
    BY DEF Base, Locals, LocalOK, Alone, Procs, Placed, Entries
  <1>1. /\ r.at = "failed" /\ runs' = runs /\ pending' = pending
        /\ queue' = queue \/ queue' = PutBack(queue, e)
        /\ proc' = [proc EXCEPT ![c] = Idle] \/ proc' = BackToLine(c)
    BY DEF Return, GiveUp, definition
  <1>2. /\ OneMoves(c) /\ o.hand = {} /\ o.errand \in {"none", "tick"}
        /\ o.at = "idle" \/ (o.at = "choosing" /\ o.names = r.names /\ o.busy = r.busy)
    <2>1. CASE proc' = [proc EXCEPT ![c] = Idle]
      BY <1>l, <2>1 DEF OneMoves, Idle
    <2>2. CASE proc' = BackToLine(c)
      <3>1. Locals /\ r.errand # "ask"
        BY <1>l DEF Base
      <3> QED BY <1>l, <2>2, <3>1, BackOK
    <2> QED BY <1>1, <2>1, <2>2
  <1>3. /\ queue'.running = queue.running
        /\ \A f \in queue'.waiting : f \in queue.waiting \/ Good(f)
    <2>1. CASE queue' = queue
      BY <2>1
    <2>2. CASE queue' = PutBack(queue, e)
      <3>1. e \in Entry /\ r.hand = {e}
        BY <1>l, InHand DEF Base
      <3>2. e.named = FALSE /\ IdsOf(r.hand) = {e.id}
        BY <3>1 DEF Entry, IdsOf
      <3>3. QueueOK(queue) /\ e.id \notin KnownIds(queue)
        BY <1>l, <3>2 DEF Base, Protocol
      <3>4. queue'.running = queue.running /\ queue'.waiting \subseteq queue.waiting \cup {e}
        BY <2>2, <3>2, <3>3, PutBackOK
      <3> QED BY <1>l, <3>4
    <2> QED BY <1>1, <2>1, <2>2
  <1> QED BY <1>1, <1>2, <1>3, AloneQuiet DEF Before, Starting, Noting

\* The steps of the start in which no run begins.
LEMMA AloneStarts ==
    ASSUME Base, NEW c, Alone(c), cast' = cast,
           \/ Check(c) \/ CheckUnread(c) \/ Mark(c) \/ Recheck(c) \/ RecheckUnread(c)
           \/ Restore(c) \/ Clear(c) \/ DropWaiting(c) \/ Stamp(c)
           \/ (Send(c) \/ SendFails(c)) /\ runs' = runs
    PROVE  Alone(c)'
  <1> DEFINE o == proc'[c]
             r == proc[c]
             Plainly == /\ OneMoves(c) /\ o.names = r.names /\ o.busy = r.busy
                        /\ o.hand = r.hand /\ o.sweep = r.sweep /\ o.errand = r.errand
  <1>l. /\ c \in Procs /\ DOMAIN proc = Procs /\ LocalOK(r) /\ DOMAIN r = Fields
        /\ r.errand \in {"none", "tick"}
    BY DEF Base, Locals, LocalOK, Alone, Procs, Placed
  <1>1. ASSUME Check(c) \/ CheckUnread(c) PROVE Alone(c)'
    <2>1. /\ r.at = "checking" /\ queue' = queue /\ runs' = runs /\ pending' = pending
          /\ due' = due
          /\ \/ proc' = [proc EXCEPT ![c].at = "failed", ![c].code = 409, ![c].was = NoSweep]
             \/ proc' = [proc EXCEPT ![c].at = "marking"]
      BY <1>1 DEF Check, CheckUnread, Fails, Go, definition
    <2>2. Plainly /\ o.at \in {"failed", "marking"}
      BY <1>l, <2>1 DEF OneMoves, Fields
    <2> QED BY <2>1, <2>2, AloneStarting DEF Starting, Noting
  <1>2. ASSUME Mark(c) PROVE Alone(c)'
    <2>1. /\ r.at = "marking" /\ queue' = queue /\ runs' = runs /\ due' = due
          /\ pending' = [pending EXCEPT ![CollOf[r.sweep]] = r.sweep]
          /\ proc' = [proc EXCEPT ![c].at = "sending", ![c].was = pending[CollOf[r.sweep]]]
      BY <1>2 DEF Mark
    <2>2. Plainly /\ o.at = "sending"
      BY <1>l, <2>1 DEF OneMoves, Fields
    <2> QED BY <2>1, <2>2, AloneStarting DEF Starting, Noting
  <1>3. ASSUME Send(c) \/ SendFails(c), runs' = runs PROVE Alone(c)'
    <2>1. r.at = "sending" /\ queue' = queue /\ pending' = pending /\ due' = due
      BY <1>3 DEF Send, SendFails, definition
    <2>2. ~StartedRun(c)
      <3>1. StartedRun(c) =>
               \E t \in Run : runs' = runs \cup {t} /\ t.collection \notin RunningNames
        BY <1>l, <2>1, StartedRunIs DEF Starting
      <3> QED BY <1>3, <3>1 DEF RunningNames
    <2>3. \/ proc' = [proc EXCEPT ![c].at = "rechecking", ![c].code = 502]
          \/ proc' = [proc EXCEPT ![c].at = "rechecking", ![c].code = 409]
          \/ proc' = [proc EXCEPT ![c].at = "rechecking", ![c].code = 429]
      BY <1>3, <2>2 DEF Send, SendFails, Go
    <2>4. Plainly /\ o.at = "rechecking"
      BY <1>l, <2>3 DEF OneMoves, Fields
    <2> QED BY <1>3, <2>1, <2>4, AloneStarting DEF Starting, Noting
  <1>4. ASSUME Recheck(c) \/ RecheckUnread(c) PROVE Alone(c)'
    <2>1. /\ r.at = "rechecking" /\ queue' = queue /\ runs' = runs /\ pending' = pending
          /\ \/ proc' = [proc EXCEPT ![c].at = "failed"]
             \/ proc' = [proc EXCEPT ![c].at = "restoring"]
      BY <1>4 DEF Recheck, RecheckUnread, Go, definition
    <2>2. Plainly /\ o.at \in {"failed", "restoring"}
      BY <1>l, <2>1 DEF OneMoves, Fields
    <2> QED BY <2>1, <2>2, AloneStarting DEF Starting, Noting
  <1>5. ASSUME Restore(c) PROVE Alone(c)'
    <2>1. /\ r.at = "restoring" /\ queue' = queue /\ runs' = runs
          /\ pending' = [pending EXCEPT ![CollOf[r.sweep]] = r.was]
          /\ proc' = [proc EXCEPT ![c].at = "failed"]
      BY <1>5 DEF Restore, Go
    <2>2. Plainly /\ o.at = "failed"
      BY <1>l, <2>1 DEF OneMoves, Fields
    <2> QED BY <2>1, <2>2, AloneStarting DEF Starting, Noting
  <1>6. ASSUME Clear(c) \/ DropWaiting(c) PROVE Alone(c)'
    <2> DEFINE W == queue.waiting \ Plain(queue.waiting, CollOf[r.sweep], r.sweep)
    <2>1. /\ r.at \in {"clearing", "dropping"} /\ runs' = runs /\ pending' = pending
          /\ queue' = queue \/ queue' = OnlyWaiting(queue, W)
          /\ \/ proc' = [proc EXCEPT ![c].at = "dropping"]
             \/ proc' = [proc EXCEPT ![c].at = "stamping"]
      BY <1>6 DEF Clear, DropWaiting, Drop, Go, definition
    <2>2. Plainly /\ o.at \in {"dropping", "stamping"}
      BY <1>l, <2>1 DEF OneMoves, Fields
    <2>3. W \subseteq queue.waiting
      OBVIOUS
    <2> HIDE DEF W
    <2>4. queue'.running = queue.running /\ queue'.waiting \subseteq queue.waiting
      BY <2>1, <2>3, OnlyWaitingIs DEF Base, Protocol, QueueOK
    <2> QED BY <2>1, <2>2, <2>4, AloneStarting DEF Starting, Noting
  <1>7. ASSUME Stamp(c) PROVE Alone(c)'
    <2>1. /\ r.at = "stamping" /\ queue' = queue /\ runs' = runs
          /\ pending' = [pending EXCEPT ![CollOf[r.sweep]] = r.sweep]
          /\ proc' = [proc EXCEPT ![c].at = "noting"]
      BY <1>7, <1>l DEF Stamp
    <2>2. Plainly /\ o.at = "noting"
      BY <1>l, <2>1 DEF OneMoves, Fields
    <2> QED BY <2>1, <2>2, AloneStarting DEF Starting, Noting
  <1> QED BY <1>1, <1>2, <1>3, <1>4, <1>5, <1>6, <1>7

\* The clock learns what runs, forgets the notes that are over, and picks an entry.
LEMMA AloneLearns ==
    ASSUME Base, NEW c, Alone(c), cast' = cast,
           \/ Fetch(c) \/ SettleNotes(c) \/ Survey(c)
           \/ \E e : Choose(c, e) \/ TakeEntry(c, e)
    PROVE  Alone(c)'
  <1> DEFINE o == proc'[c]
             r == proc[c]
             Plainly == OneMoves(c) /\ o.hand = r.hand /\ o.errand = r.errand
  <1>l. /\ c \in Procs /\ DOMAIN proc = Procs /\ LocalOK(r) /\ DOMAIN r = Fields
        /\ r.errand \in {"none", "tick"}
    BY DEF Base, Locals, LocalOK, Alone, Procs, Placed
  <1>p. /\ Entries(r) /\ Matched(r) /\ Knows(r) /\ FreeOf(r) /\ Surveyed(r) /\ Picked(r)
        /\ DueStill(r) /\ RunsOK
    BY DEF Alone, Placed
  <1>1. ASSUME Fetch(c) PROVE Alone(c)'
    <2>1. /\ r.at = "fetching" /\ queue' = queue /\ runs' = runs /\ pending' = pending
          /\ proc' = [proc EXCEPT
                        ![c].at = IF proc[c].errand = "tick" THEN "settling" ELSE "serving",
                        ![c].names = RunningNames,
                        ![c].free = Cast.slots - Cardinality(runs)]
      BY <1>1 DEF Fetch, definition
    <2>2. Plainly /\ o.names = RunningNames /\ o.at \in {"settling", "serving"}
      BY <1>l, <2>1 DEF OneMoves, Fields
    <2>3. r.hand = {}
      BY <1>l, <2>1 DEF LocalOK, Starting
    <2>4. RunsOK'
      BY <1>p, <2>1, SameRuns
    <2>5. Entries(proc[c])' /\ Matched(proc[c])' /\ Knows(proc[c])'
      BY <1>p, <2>1, <2>2, Zenon DEF Entries, Good, Matched, IsNoted, Knows, Noting, RunningNames
    <2>6. (FreeOf(proc[c]) /\ Surveyed(proc[c]) /\ Picked(proc[c]) /\ DueStill(proc[c]))'
      BY <2>2 DEF FreeOf, Surveyed, Picked, DueStill, Starting
    <2> QED BY <1>l, <2>2, <2>4, <2>5, <2>6, AloneBy DEF Placed
  <1>2. ASSUME SettleNotes(c) PROVE Alone(c)'
    <2> DEFINE over == {n \in queue.running :
                           n.entry.collection \notin r.names /\ ~StillRuns(n.entry)}
               S == queue.running \ over
    <2>1. /\ r.at = "settling" /\ runs' = runs /\ pending' = pending
          /\ proc' = [proc EXCEPT ![c].at = "advancing"]
          /\ queue' = [queue EXCEPT !.running = S]
      BY <1>2 DEF SettleNotes, Go
    <2>2. /\ Plainly /\ o.at = "advancing" /\ o.names = r.names /\ o.sweep = r.sweep
      BY <1>l, <2>1 DEF OneMoves, Fields
    <2>3. \A n \in queue.running : StillRuns(n.entry) => n \in S
      OBVIOUS
    <2> HIDE DEF over, S
    <2>4. queue'.waiting = queue.waiting /\ queue'.running = S
      BY <2>1, RunningIs DEF Base, Protocol, QueueOK
    <2>5. RunsOK'
      BY <1>p, <2>1, SameRuns
    <2>6. \A t \in runs : IsNoted(t) => IsNoted(t)'
      BY <2>3, <2>4 DEF IsNoted, StillRuns
    <2>7. Matched(proc[c])'
      BY <1>p, <2>1, <2>6 DEF Matched, Noting
    <2>8. Entries(proc[c])' /\ Knows(proc[c])'
      BY <1>p, <2>1, <2>2, <2>4 DEF Entries, Good, Knows, Before, Noting
    <2>9. (FreeOf(proc[c]) /\ Surveyed(proc[c]) /\ Picked(proc[c]) /\ DueStill(proc[c]))'
      BY <2>2 DEF FreeOf, Surveyed, Picked, DueStill, Starting
    <2> QED BY <1>l, <2>2, <2>5, <2>7, <2>8, <2>9, AloneBy DEF Placed
  <1>3. ASSUME Survey(c) PROVE Alone(c)'
    <2> DEFINE B == {n.entry.worker : n \in queue.running} \ {NoWorker}
    <2>1. /\ r.at = "serving" /\ queue' = queue /\ runs' = runs /\ pending' = pending
          /\ proc' = [proc EXCEPT ![c].at = "choosing", ![c].todo = WaitingInOrder, ![c].busy = B]
      BY <1>3 DEF Survey, definition
    <2>2. Plainly /\ o.at = "choosing" /\ o.names = r.names /\ o.busy = B
      BY <1>l, <2>1 DEF OneMoves, Fields
    <2>3. RunsOK'
      BY <1>p, <2>1, SameRuns
    <2>4. Entries(proc[c])' /\ Matched(proc[c])' /\ Knows(proc[c])'
      BY <1>p, <2>1, <2>2 DEF Entries, Good, Matched, IsNoted, Knows, Noting, Before
    <2>5. Surveyed(proc[c])'
      BY <2>1, <2>2 DEF Surveyed
    <2>6. (FreeOf(proc[c]) /\ Picked(proc[c]) /\ DueStill(proc[c]))'
      BY <2>2 DEF FreeOf, Picked, DueStill, Starting
    <2> QED BY <1>l, <2>2, <2>3, <2>4, <2>5, <2>6, AloneBy DEF Placed
  <1>4. ASSUME NEW e, Choose(c, e) PROVE Alone(c)'
    <2>1. /\ r.at = "choosing" /\ queue' = queue /\ runs' = runs /\ pending' = pending
          /\ due' = due /\ proc' = [proc EXCEPT ![c].at = "taking"]
          /\ e = Head(r.todo) /\ e.collection \notin r.names /\ e.worker \notin r.busy
          /\ e.origin = "manual" \/ e.sweep \in due
      BY <1>4 DEF Choose, Choosing, Held, Stale, Go, definition
    <2>2. /\ Plainly /\ o.at = "taking" /\ o.names = r.names /\ o.busy = r.busy
          /\ o.todo = r.todo
      BY <1>l, <2>1 DEF OneMoves, Fields
    <2>3. RunsOK'
      BY <1>p, <2>1, SameRuns
    <2>4. Entries(proc[c])' /\ Matched(proc[c])' /\ Knows(proc[c])'
      BY <1>p, <2>1, <2>2 DEF Entries, Good, Matched, IsNoted, Knows, Noting, Before
    <2>5. Surveyed(proc[c])' /\ Picked(proc[c])'
      BY <1>p, <2>1, <2>2 DEF Surveyed, Picked, Good
    <2>6. (FreeOf(proc[c]) /\ DueStill(proc[c]))'
      BY <2>2 DEF FreeOf, DueStill, Starting
    <2> QED BY <1>l, <2>2, <2>3, <2>4, <2>5, <2>6, AloneBy DEF Placed
  <1>5. ASSUME NEW e, TakeEntry(c, e) PROVE Alone(c)'
    <2>1. /\ r.at = "taking" /\ runs' = runs /\ pending' = pending /\ due' = due
          /\ e = Head(r.todo) /\ queue' = OnlyWaiting(queue, queue.waiting \ {e})
      BY <1>5, Zenon DEF TakeEntry, Take, definition
    <2>2. queue'.running = queue.running /\ queue'.waiting \subseteq queue.waiting
      BY <2>1, OnlyWaitingIs DEF Base, Protocol, QueueOK
    <2>3. r.hand = {}
      BY <1>l, <2>1 DEF LocalOK, Starting
    <2>4. CASE e \notin queue.waiting
      <3>1. proc' = [proc EXCEPT ![c].at = "choosing", ![c].todo = Tail(@)]
        BY <1>5, <2>4, Zenon DEF TakeEntry
      <3>2. Plainly /\ o.at = "choosing" /\ o.names = r.names /\ o.busy = r.busy
        BY <1>l, <3>1 DEF OneMoves, Fields
      <3> QED BY <1>l, <2>1, <2>2, <2>3, <3>2, AloneQuiet DEF Before, Starting, Noting
    <2>5. CASE e \in queue.waiting
      <3>1. proc' = [proc EXCEPT ![c].at = "checking", ![c].hand = {e},
                                 ![c].sweep = e.sweep, ![c].todo = Tail(@)]
        BY <1>5, <2>5, Zenon DEF TakeEntry
      <3>2. /\ OneMoves(c) /\ o.at = "checking" /\ o.names = r.names /\ o.busy = r.busy
            /\ o.hand = {e} /\ o.sweep = e.sweep /\ o.errand = r.errand
        BY <1>l, <3>1 DEF OneMoves, Fields
      <3>3. Good(e) /\ e.sweep \in due /\ e.collection \notin r.names /\ e.worker \notin r.busy
        BY <1>p, <2>1, <2>5 DEF Entries, Picked
      <3>4. RunsOK'
        BY <1>p, <2>1, SameRuns
      <3>5. Entries(proc[c])' /\ Matched(proc[c])' /\ Knows(proc[c])'
        BY <1>p, <2>1, <2>2, <3>2, <3>3, Zenon DEF Entries, Good, Matched, IsNoted, Knows, Noting, Before
      <3>6. FreeOf(proc[c])' /\ Surveyed(proc[c])' /\ Picked(proc[c])' /\ DueStill(proc[c])'
        BY <1>p, <2>1, <2>2, <3>2, <3>3 DEF FreeOf, Good, Surveyed, Picked, DueStill
      <3> QED BY <1>l, <3>2, <3>4, <3>5, <3>6, AloneBy DEF Placed
    <2> QED BY <2>4, <2>5
  <1> QED BY <1>1, <1>2, <1>3, <1>4, <1>5

\* The run begins: nothing else of its collection or of its worker is on, its mark is
\* set and it is due.
LEMMA AloneSends ==
    ASSUME Base, NEW c, Alone(c), cast' = cast, Send(c) \/ SendFails(c), runs' # runs
    PROVE  /\ Alone(c)'
           /\ \A t \in runs' \ runs : t.sweep \in due
  <1> DEFINE o == proc'[c]
             r == proc[c]
  <1>l. /\ c \in Procs /\ DOMAIN proc = Procs /\ LocalOK(r) /\ DOMAIN r = Fields
        /\ r.errand \in {"none", "tick"}
    BY DEF Base, Locals, LocalOK, Alone, Procs, Placed
  <1>p. /\ Entries(r) /\ Matched(r) /\ Knows(r) /\ FreeOf(r) /\ Surveyed(r) /\ Picked(r)
        /\ DueStill(r) /\ RunsOK
    BY DEF Alone, Placed
  <1>1. /\ r.at = "sending" /\ queue' = queue /\ pending' = pending /\ due' = due
        /\ proc' = [proc EXCEPT ![c].at = "clearing"] /\ StartedRun(c)
    BY DEF Send, SendFails, Go, Alone, definition
  <1>2. /\ OneMoves(c) /\ o.at = "clearing" /\ o.names = r.names /\ o.busy = r.busy
        /\ o.hand = r.hand /\ o.sweep = r.sweep /\ o.errand = r.errand
    BY <1>1, <1>l DEF OneMoves, Fields
  <1>3. PICK t \in Run : /\ runs' = runs \cup {t}
                         /\ t.collection = CollOf[r.sweep] /\ t.sweep = r.sweep
                         /\ t.ran = NoSweep /\ t.phase = "asked"
                         /\ t.collection \notin RunningNames
                         /\ \A e \in r.hand : t.worker = e.worker
    BY <1>1, <1>l, StartedRunIs DEF Starting
  <1>4. \E e \in Entry : r.hand = {e}
    BY <1>1, <1>l DEF LocalOK, Starting
  <1>5. \A u \in runs : u.worker = t.worker => t.worker = NoWorker
    <2>1. SUFFICES ASSUME NEW u \in runs, u.worker = t.worker, t.worker # NoWorker PROVE FALSE
      OBVIOUS
    <2>2. IsNoted(u)
      BY <1>1, <1>p, <2>1 DEF Matched, Noting
    <2>3. t.worker \in r.busy
      BY <1>1, <1>p, <2>1, <2>2 DEF IsNoted, Surveyed, Starting
    <2>4. t.worker \notin r.busy
      BY <1>1, <1>3, <1>4, <1>p DEF FreeOf, Starting
    <2> QED BY <2>3, <2>4
  <1>6. \A u \in runs : u.collection # t.collection
    BY <1>3 DEF RunningNames
  <1>7. pending'[t.collection] = t.sweep
    BY <1>1, <1>3, <1>p DEF DueStill
  <1>8. RunsOK'
    <2>1. \A u \in runs' : u.collection = CollOf[u.sweep] /\ u.ran \in {NoSweep, u.sweep}
      BY <1>3, <1>p DEF RunsOK
    <2>2. \A u, v \in runs' : u.collection = v.collection => u = v
      BY <1>3, <1>6, <1>p DEF RunsOK
    <2>3. \A u, v \in runs' : u.worker = v.worker /\ u.worker # NoWorker => u = v
      BY <1>3, <1>5, <1>p DEF RunsOK
    <2>4. \A u \in runs' : u.phase = "asked" => pending'[u.collection] = u.sweep
      BY <1>1, <1>3, <1>7, <1>p DEF RunsOK
    <2> QED BY <2>1, <2>2, <2>3, <2>4 DEF RunsOK
  <1>9. Entries(proc[c])'
    BY <1>1, <1>2, <1>p DEF Entries, Good
  <1>10. Matched(proc[c])'
    BY <1>1, <1>2, <1>3, <1>p DEF Matched, IsNoted, Noting
  <1>11. Knows(proc[c])'
    BY <1>1, <1>2, <1>3, <1>p DEF Knows, Noting, Before
  <1>12. (FreeOf(proc[c]) /\ Surveyed(proc[c]) /\ Picked(proc[c]) /\ DueStill(proc[c]))'
    BY <1>1, <1>2, <1>p DEF FreeOf, Surveyed, Picked, DueStill, Starting
  <1>13. Alone(c)'
    BY <1>2, <1>8, <1>9, <1>10, <1>11, <1>12, <1>l, AloneBy DEF Placed
  <1>14. r.sweep \in due
    BY <1>1, <1>p DEF DueStill
  <1> QED BY <1>3, <1>13, <1>14

\* The run is noted.
LEMMA AloneNotes ==
    ASSUME Base, NEW c, Alone(c), cast' = cast, NEW e \in proc[c].hand, NoteStart(c, e)
    PROVE  Alone(c)'
  <1> DEFINE o == proc'[c]
             r == proc[c]
             b == BackToLine(c)
             N == [entry |-> e, at |-> 0]
  <1>l. /\ c \in Procs /\ DOMAIN proc = Procs /\ LocalOK(r) /\ DOMAIN r = Fields
        /\ r.errand \in {"none", "tick"}
    BY DEF Base, Locals, LocalOK, Alone, Procs, Placed
  <1>p. /\ Entries(r) /\ Matched(r) /\ Knows(r) /\ FreeOf(r) /\ Surveyed(r) /\ RunsOK
    BY DEF Alone, Placed
  <1>e. r.hand = {e} /\ e.sweep = r.sweep /\ Good(e) /\ e.worker \in Workers \cup {NoWorker}
        /\ e.id \notin KnownIds(queue)
    <2>1. r.hand = {e} /\ e.sweep = r.sweep /\ e \in Entry
      BY <1>l, InHand DEF Base
    <2>2. IdsOf(r.hand) = {e.id}
      BY <2>1 DEF IdsOf
    <2> QED BY <1>l, <1>p, <2>1, <2>2 DEF Entries, Entry, Base, Protocol
  <1>1. /\ r.at = "noting" /\ queue' = Started(queue, e, 0) /\ runs' = runs /\ pending' = pending
        /\ proc' = [b EXCEPT ![c].names = @ \cup {e.collection}, ![c].free = @ - 1,
                             ![c].busy = @ \cup ({e.worker} \ {NoWorker})]
    BY DEF NoteStart, definition
  <1>2. queue'.waiting = queue.waiting /\ queue'.running = queue.running \cup {N}
    BY <1>1, <1>e, StartedOK DEF Base, Protocol
  <1>3. N.entry = e
    OBVIOUS
  <1> HIDE DEF N
  <1>4. /\ DOMAIN b = Procs /\ DOMAIN b[c] = Fields /\ \A q \in Procs \ {c} : b[q] = proc[q]
        /\ b[c].at = "choosing" /\ b[c].hand = {} /\ b[c].errand = r.errand
        /\ b[c].busy = r.busy /\ b[c].names = r.names
    BY <1>l DEF BackToLine, Fields
  <1> HIDE DEF b
  <1>5. /\ OneMoves(c) /\ o.at = "choosing" /\ o.hand = {} /\ o.errand = r.errand
        /\ o.names = r.names \cup {e.collection}
        /\ o.busy = r.busy \cup ({e.worker} \ {NoWorker})
    BY <1>1, <1>4, <1>l DEF OneMoves, Fields
  <1>6. RunsOK'
    BY <1>1, <1>p, SameRuns
  <1>7. Entries(proc[c])'
    BY <1>2, <1>5, <1>p DEF Entries, Good
  <1>8. \A t \in runs : t.worker # NoWorker => IsNoted(t)'
    <2>1. \A t \in runs : t.sweep = r.sweep => t.collection = e.collection
      BY <1>e, <1>p DEF RunsOK, Good
    <2> QED BY <1>2, <1>3, <1>e, <1>p, <2>1 DEF Matched, IsNoted
  <1>9. Matched(proc[c])'
    BY <1>1, <1>8 DEF Matched
  <1>10. Knows(proc[c])'
    <2>1. \A t \in runs : t.sweep = r.sweep => t.collection = e.collection
      BY <1>e, <1>p DEF RunsOK, Good
    <2> QED BY <1>1, <1>5, <1>p, <2>1 DEF Knows, Noting, Before
  <1>11. Surveyed(proc[c])'
    BY <1>1, <1>2, <1>3, <1>5, <1>p DEF Surveyed, Starting
  <1>12. (FreeOf(proc[c]) /\ Picked(proc[c]) /\ DueStill(proc[c]))'
    BY <1>5 DEF FreeOf, Picked, DueStill, Starting
  <1> QED BY <1>5, <1>6, <1>7, <1>9, <1>10, <1>11, <1>12, <1>l, AloneBy DEF Placed

\* A run that goes a step further.
LEMMA AloneReplaces ==
    ASSUME Base, NEW c, Alone(c), cast' = cast, proc' = proc, queue' = queue,
           NEW r \in runs, NEW S, NEW n, S = {} \/ S = {n}, runs' = (runs \ {r}) \cup S,
           n.collection = r.collection, n.sweep = r.sweep, n.worker = r.worker,
           n.ran \in {NoSweep, n.sweep}, n.phase # "asked",
           \/ pending' = pending /\ due' = due
           \/ pending' = [pending EXCEPT ![r.collection] = NoSweep] /\ due' = due \ {r.ran}
    PROVE  Alone(c)' /\ \A t \in runs' \ runs : t.phase # "asked"
  <1> DEFINE P == proc[c]
  <1>l. c \in Procs /\ DOMAIN proc = Procs /\ LocalOK(P)
    BY DEF Base, Locals, Alone, Procs
  <1>p. /\ Entries(P) /\ Matched(P) /\ Knows(P) /\ FreeOf(P) /\ Surveyed(P) /\ Picked(P)
        /\ DueStill(P) /\ RunsOK /\ P.errand \in {"none", "tick"}
    BY DEF Alone, Placed
  <1>k. /\ DOMAIN pending = Collections /\ due \subseteq Sweeps /\ NoSweep \notin Sweeps
        /\ \A u \in runs : u.collection \in Collections
    BY DispatchAssumption DEF Base, Kinds, Run
  <1>m. /\ OneMoves(c) /\ P' = P
    BY <1>l DEF OneMoves
  <1>1. \A t \in runs' : (t \in runs /\ t # r) \/ t = n
    OBVIOUS
  <1>2. RunsOK'
    <2>1. \A t \in runs' : t.collection = CollOf[t.sweep] /\ t.ran \in {NoSweep, t.sweep}
      BY <1>1, <1>p DEF RunsOK
    <2>2. \A t, u \in runs' : t.collection = u.collection => t = u
      BY <1>1, <1>p DEF RunsOK
    <2>3. \A t, u \in runs' : t.worker = u.worker /\ t.worker # NoWorker => t = u
      BY <1>1, <1>p DEF RunsOK
    <2>4. \A t \in runs' : t.phase = "asked" => pending'[t.collection] = t.sweep
      <3> SUFFICES ASSUME NEW t \in runs', t.phase = "asked"
                   PROVE  pending'[t.collection] = t.sweep
        OBVIOUS
      <3>1. t \in runs /\ t # r
        BY <1>1
      <3>2. pending[t.collection] = t.sweep /\ t.collection # r.collection
        BY <1>p, <3>1 DEF RunsOK
      <3> QED BY <1>k, <3>1, <3>2
    <2> QED BY <2>1, <2>2, <2>3, <2>4 DEF RunsOK
  <1>3. Entries(proc[c])' /\ Surveyed(proc[c])' /\ FreeOf(proc[c])'
    BY <1>m, <1>p DEF Entries, Good, Surveyed, FreeOf
  <1>4. Matched(proc[c])'
    BY <1>1, <1>m, <1>p DEF Matched, IsNoted
  <1>5. Knows(proc[c])'
    BY <1>1, <1>m, <1>p DEF Knows
  \* The clock starts nothing of the collection that runs.
  <1>6. \A s \in due : CollOf[s] # r.collection => s \in due'
    <2>1. r.ran = r.sweep => CollOf[r.ran] = r.collection
      BY <1>p DEF RunsOK
    <2>2. r.ran \in {NoSweep, r.sweep}
      BY <1>p DEF RunsOK
    <2> QED BY <1>k, <2>1, <2>2
  <1>7. P.at \notin Before \cup Noting => r.collection \in P.names
    BY <1>p DEF Knows
  <1>8. Picked(proc[c])'
    BY <1>6, <1>7, <1>m, <1>p DEF Picked, Good, Before, Noting
  <1>9. DueStill(proc[c])'
    <2>1. P.at \in {"checking", "marking", "sending"} =>
             /\ CollOf[P.sweep] # r.collection /\ P.sweep \in Sweeps
             /\ CollOf[P.sweep] \in Collections
      BY <1>7, <1>l, <1>p, DispatchAssumption DEF FreeOf, Starting, Before, Noting, LocalOK
    <2> QED BY <1>6, <1>k, <1>m, <1>p, <2>1 DEF DueStill
  <1>10. Alone(c)'
    BY <1>2, <1>3, <1>4, <1>5, <1>8, <1>9, <1>m, <1>p, AloneBy DEF Placed
  <1> QED BY <1>1, <1>10

LEMMA AloneOutside ==
    ASSUME Base, NEW c, Alone(c), cast' = cast, Outside
    PROVE  Alone(c)' /\ \A t \in runs' \ runs : t.phase # "asked"
  <1>k. /\ runs \subseteq Run /\ QueueOK(queue)
        /\ c \in Procs /\ DOMAIN proc = Procs
    BY DEF Base, Kinds, Protocol, Locals, Alone, Procs
  <1>p. RunsOK
    BY DEF Alone
  <1>m. proc' = proc
    BY BaseOutside DEF Outside
  <1>1. ASSUME NEW r \in runs, RunStep(r)
        PROVE  Alone(c)' /\ \A t \in runs' \ runs : t.phase # "asked"
    <2>0. r \in Run /\ r.ran \in {NoSweep, r.sweep} /\ r.collection = CollOf[r.sweep]
      BY <1>k, <1>p DEF RunsOK
    <2>q. queue' = queue
      BY <1>1, Zenon DEF RunStep, ReadMark, Record, RunEnds
    <2>1. CASE ReadMark(r)
      <3>1. PICK s \in Sweeps : /\ pending[r.collection] \in {s, NoSweep}
                                /\ Replace(r, [r EXCEPT !.ran = s, !.phase = "collecting"])
        BY <2>1, Zenon DEF ReadMark
      <3> DEFINE n == [r EXCEPT !.ran = s, !.phase = "collecting"]
      <3>2. /\ n.collection = r.collection /\ n.sweep = r.sweep /\ n.worker = r.worker
            /\ n.ran = s /\ n.phase = "collecting"
        BY <2>0 DEF Run
      <3>3. runs' = (runs \ {r}) \cup {n}
        BY <3>1 DEF Replace
      <3> HIDE DEF n
      <3>4. r.phase = "asked" /\ pending' = pending /\ due' = due
        BY <2>1 DEF ReadMark, definition
      <3>5. s = r.sweep
        <4>1. pending[r.collection] = r.sweep
          BY <1>p, <3>4 DEF RunsOK
        <4>2. r.sweep # NoSweep
          BY <2>0, DispatchAssumption DEF Run
        <4> QED BY <3>1, <4>1, <4>2
      <3> QED BY <1>m, <2>q, <3>2, <3>3, <3>4, <3>5, AloneReplaces
    <2>2. CASE Record(r)
      <3>1. /\ Replace(r, [r EXCEPT !.phase = "baking"]) /\ due' = due \ {r.ran}
            /\ pending' = [pending EXCEPT ![r.collection] = NoSweep]
        BY <2>2 DEF Record
      <3> DEFINE n == [r EXCEPT !.phase = "baking"]
      <3>2. /\ n.collection = r.collection /\ n.sweep = r.sweep /\ n.worker = r.worker
            /\ n.ran = r.ran /\ n.phase = "baking"
        BY <2>0 DEF Run
      <3>3. runs' = (runs \ {r}) \cup {n}
        BY <3>1 DEF Replace
      <3> HIDE DEF n
      <3> QED BY <1>m, <2>0, <2>q, <3>1, <3>2, <3>3, AloneReplaces
    <2>3. CASE RunEnds(r)
      <3> DEFINE n == [r EXCEPT !.phase = "baking"]
      <3>1. /\ n.collection = r.collection /\ n.sweep = r.sweep /\ n.worker = r.worker
            /\ n.ran = r.ran /\ n.phase = "baking"
        BY <2>0 DEF Run
      <3> HIDE DEF n
      <3>2. runs' = (runs \ {r}) \cup {} /\ pending' = pending /\ due' = due
        BY <2>3 DEF RunEnds, definition
      <3> QED BY <1>m, <2>0, <2>q, <3>1, <3>2, AloneReplaces
    <2> QED BY <1>1, <2>1, <2>2, <2>3 DEF RunStep
  \* The other steps change no run, and make nothing less due.
  <1>2. ASSUME queue'.running = queue.running, queue'.waiting \subseteq queue.waiting,
               runs' = runs \/ runs' = {}, pending' = pending, due \subseteq due'
        PROVE  Alone(c)' /\ \A t \in runs' \ runs : t.phase # "asked"
    <2> DEFINE P == proc[c]
    <2>p. /\ Entries(P) /\ Matched(P) /\ Knows(P) /\ FreeOf(P) /\ Surveyed(P) /\ Picked(P)
          /\ DueStill(P) /\ P.errand \in {"none", "tick"}
      BY DEF Alone, Placed
    <2>m. OneMoves(c) /\ P' = P
      BY <1>k, <1>m DEF OneMoves
    <2>1. RunsOK'
      BY <1>2, <1>p DEF RunsOK
    <2>2. Entries(proc[c])' /\ Surveyed(proc[c])' /\ FreeOf(proc[c])' /\ Picked(proc[c])'
      BY <1>2, <2>m, <2>p DEF Entries, Good, Surveyed, FreeOf, Picked
    <2>3. Matched(proc[c])' /\ Knows(proc[c])' /\ DueStill(proc[c])'
      BY <1>2, <2>m, <2>p DEF Matched, IsNoted, Knows, DueStill
    <2>4. Alone(c)'
      BY <2>1, <2>2, <2>3, <2>m, <2>p, AloneBy DEF Placed
    <2> QED BY <1>2, <2>4
  <1>3. ASSUME NEW e \in queue.waiting, RemoveEntry(e)
        PROVE  Alone(c)' /\ \A t \in runs' \ runs : t.phase # "asked"
    <2>1. /\ queue' = OnlyWaiting(queue, queue.waiting \ {e}) /\ runs' = runs
          /\ pending' = pending /\ due' = due
      BY <1>3 DEF RemoveEntry, Take, definition
    <2>2. queue'.running = queue.running /\ queue'.waiting \subseteq queue.waiting
      BY <1>k, <2>1, OnlyWaitingIs DEF QueueOK
    <2> QED BY <1>2, <2>1, <2>2
  <1>4. ASSUME NEW d \in Collections, Toggle(d)
        PROVE  Alone(c)' /\ \A t \in runs' \ runs : t.phase # "asked"
    BY <1>2, <1>4 DEF Toggle
  <1>5. ASSUME NEW s, ComeDue(s)
        PROVE  Alone(c)' /\ \A t \in runs' \ runs : t.phase # "asked"
    BY <1>2, <1>5 DEF ComeDue
  <1>6. ASSUME NEW w, Rest(w)
        PROVE  Alone(c)' /\ \A t \in runs' \ runs : t.phase # "asked"
    BY <1>2, <1>6 DEF Rest, definition
  <1>7. ASSUME RestartTrigger
        PROVE  Alone(c)' /\ \A t \in runs' \ runs : t.phase # "asked"
    BY <1>2, <1>7 DEF RestartTrigger, definition
  <1> QED BY <1>1, <1>3, <1>4, <1>5, <1>6, <1>7 DEF Outside

\* A process that does nothing and is not of the cast does not begin anything.
LEMMA OthersRest ==
    ASSUME Base, NEW c, Alone(c), NEW p \in Procs \ {c} PROVE ~Handing(p) /\ ~Otherwise(p)
  <1>1. proc[p].at = "idle" /\ p \notin Cast.who /\ LocalOK(proc[p])
    BY DEF Alone, Base, Locals
  <1>2. proc[p].hand = {} /\ proc[p].errand # "ask"
    BY <1>1 DEF LocalOK, Starting
  <1>3. ~Handing(p)
    BY <1>1, <1>2 DEF Handing, DropWaiting, LineUp
  <1>4. ~(\/ Fill(p) \/ Fetch(p) \/ FetchFails(p) \/ SettleNotes(p)
          \/ Advance(p) \/ ChooseWoken(p) \/ HandedOver(p) \/ QueuedDue(p)
          \/ \E s \in proc[p].seen : HandOver(p, s) \/ QueueDue(p, s)
          \/ Survey(p) \/ Served(p))
    BY <1>1 DEF Fill, Fetch, FetchFails, SettleNotes, Advance, ChooseWoken, HandedOver,
                QueuedDue, HandOver, QueueDue, Survey, Served
  <1>5. ~\E e : \/ Skip(p, e) \/ Discard(p, e) \/ NoRoomAtBackends(p, e) \/ Choose(p, e)
                \/ TakeEntry(p, e)
    BY <1>1 DEF Skip, Discard, NoRoomAtBackends, Choose, Choosing, TakeEntry
  <1>6. ~(\/ Check(p) \/ CheckUnread(p) \/ Mark(p) \/ Send(p) \/ SendFails(p)
          \/ Recheck(p) \/ RecheckUnread(p) \/ Restore(p)
          \/ Clear(p) \/ Stamp(p) \/ Crash(p))
    BY <1>1 DEF Check, CheckUnread, Mark, Send, SendFails, Recheck, RecheckUnread, Restore,
                Clear, Stamp, Crash
  <1> QED BY <1>1, <1>3, <1>4, <1>5, <1>6 DEF Otherwise

LEMMA AloneNext ==
    ASSUME Base, NEW c, Alone(c), [Next /\ UNCHANGED cast]_<<vars, cast>>
    PROVE  Alone(c)' /\ \A t \in runs' \ runs : t.phase = "asked" => t.sweep \in due
  <1>c. c \in Procs /\ c \notin Askers \cup Wakers /\ Cast.faults \cap {"lost_reply", "crash"} = {}
    BY DispatchAssumption DEF Alone, Procs
  <1>1. CASE UNCHANGED <<vars, cast>>
    <2>1. /\ OneMoves(c) /\ cast' = cast /\ runs' = runs /\ pending' = pending
          /\ queue' = queue /\ due' = due /\ proc' = proc
      BY <1>1 DEF vars, OneMoves, Base, Locals
    <2>2. RunsOK'
      BY <2>1, SameRuns DEF Alone
    <2>3. Placed(proc[c])'
      BY <2>1 DEF Alone, Placed, Entries, Good, Matched, IsNoted, Knows, FreeOf, Surveyed,
                  Picked, DueStill
    <2> QED BY <2>1, <2>2, <2>3, AloneBy
  <1>2. CASE Outside /\ cast' = cast
    BY <1>2, AloneOutside
  <1>3. ASSUME Handing(c), cast' = cast
        PROVE  Alone(c)' /\ runs' = runs
    <2>1. ~LineUp(c)
      BY DEF LineUp, Alone, Placed
    <2>2. CASE DropWaiting(c)
      BY <1>3, <2>2, AloneStarts DEF DropWaiting
    <2>3. CASE \E e \in proc[c].hand : NoteStart(c, e)
      BY <1>3, <2>3, AloneNotes, Zenon DEF NoteStart
    <2>4. CASE \E e \in proc[c].hand : Return(c, e) \/ GiveUp(c, e)
      BY <1>3, <2>4, AloneReturns DEF Return, GiveUp
    <2> QED BY <1>3, <2>1, <2>2, <2>3, <2>4 DEF Handing
  <1>4. ASSUME Otherwise(c), cast' = cast
        PROVE  Alone(c)' /\ \A t \in runs' \ runs : t.sweep \in due
    <2>1. ~Crash(c)
      BY <1>c DEF Crash
    <2>2. CASE \/ Tick(c) \/ Fill(c) \/ FetchFails(c) \/ Advance(c) \/ ChooseWoken(c)
               \/ HandedOver(c) \/ QueuedDue(c) \/ Served(c)
               \/ \E s \in proc[c].seen : HandOver(c, s) \/ QueueDue(c, s)
               \/ \E e : Skip(c, e) \/ NoRoomAtBackends(c, e) \/ Discard(c, e)
      <3>1. runs' = runs
        BY <2>2 DEF Tick, Fill, FetchFails, Advance, ChooseWoken, HandedOver, QueuedDue, Served,
                    HandOver, QueueDue, Skip, NoRoomAtBackends, Discard
      <3> QED BY <1>4, <2>2, <3>1, AloneLooks
    <2>3. CASE \/ Fetch(c) \/ SettleNotes(c) \/ Survey(c)
               \/ \E e : Choose(c, e) \/ TakeEntry(c, e)
      <3>1. runs' = runs
        BY <2>3, Zenon DEF Fetch, SettleNotes, Survey, Choose, TakeEntry
      <3> QED BY <1>4, <2>3, <3>1, AloneLearns
    <2>4. CASE \/ Check(c) \/ CheckUnread(c) \/ Mark(c) \/ Recheck(c) \/ RecheckUnread(c)
               \/ Restore(c) \/ Clear(c) \/ Stamp(c)
      <3>1. runs' = runs
        BY <2>4 DEF Check, CheckUnread, Mark, Recheck, RecheckUnread, Restore, Clear, Stamp
      <3> QED BY <1>4, <2>4, <3>1, AloneStarts
    <2>5. CASE Send(c) \/ SendFails(c)
      <3>1. CASE runs' = runs
        BY <1>4, <2>5, <3>1, AloneStarts
      <3>2. CASE runs' # runs
        BY <1>4, <2>5, <3>2, AloneSends
      <3> QED BY <3>1, <3>2
    <2> QED BY <1>4, <1>c, <2>1, <2>2, <2>3, <2>4, <2>5 DEF Otherwise
  <1>5. CASE Next /\ cast' = cast
    <2>1. CASE Outside
      BY <1>2, <1>5, <2>1
    <2>2. ASSUME NEW p \in Procs, Handing(p) \/ Otherwise(p)
          PROVE  Alone(c)' /\ \A t \in runs' \ runs : t.phase = "asked" => t.sweep \in due
      <3>1. p = c
        BY <2>2, OthersRest
      <3> QED BY <1>3, <1>4, <1>5, <2>2, <3>1
    <2> QED BY <1>5, <2>1, <2>2, NextIs
  <1> QED BY <1>1, <1>5

AloneInv == Base /\ (ClockAlone => \A c \in Cast.who : Alone(c))

LEMMA InitAlone == ASSUME Init, ClockAlone, NEW c \in Cast.who PROVE Alone(c)
  <1>1. /\ queue = Empty /\ runs = {} /\ proc = [p \in Procs |-> Idle]
    BY DEF Init
  <1>2. /\ c \in Clocks /\ Cast.who = {c} /\ Cast.faults \cap {"lost_reply", "crash"} = {}
    BY DEF ClockAlone
  <1>3. \A p \in Procs : proc[p] = Idle
    BY <1>1
  <1>4. proc[c].at = "idle" /\ proc[c].hand = {} /\ proc[c].errand = "none"
    BY <1>2, <1>3 DEF Idle, Procs
  <1>5. \A p \in Procs : proc[p].at = "idle"
    BY <1>3 DEF Idle
  <1>6. queue.waiting = {} /\ queue.running = {}
    BY <1>1 DEF Empty
  <1>7. RunsOK
    BY <1>1 DEF RunsOK
  <1>8. Placed(proc[c])
    BY <1>1, <1>4, <1>6 DEF Placed, Entries, Matched, Knows, FreeOf, Surveyed, Picked, DueStill,
                            Starting, Before
  <1> QED BY <1>2, <1>5, <1>7, <1>8 DEF Alone

LEMMA AlwaysAlone == Spec => []AloneInv
  <1>1. Init => AloneInv
    BY InitBase, InitAlone DEF AloneInv
  <1>2. AloneInv /\ [Next /\ UNCHANGED cast]_<<vars, cast>> => AloneInv'
    <2>1. SUFFICES ASSUME AloneInv, [Next /\ UNCHANGED cast]_<<vars, cast>> PROVE AloneInv'
      OBVIOUS
    <2>2. cast' = cast
      BY <2>1
    <2>3. Base'
      BY <2>1, NextBase DEF AloneInv
    <2>4. ASSUME ClockAlone', NEW c \in Cast.who PROVE Alone(c)'
      <3>1. ClockAlone
        BY <2>2, <2>4 DEF ClockAlone, Cast
      <3> QED BY <2>1, <2>4, <3>1, AloneNext DEF AloneInv
    <2> QED BY <2>2, <2>3, <2>4 DEF AloneInv, Cast
  <1> QED BY <1>1, <1>2, PTL DEF Spec

\* One clock starts for every worker one run at a time, and a run makes the material of
\* the sweep it was started for (_dispatch, mark_pending and _collect_material).
THEOREM ClockRunsRight == Spec => []RunsAreRight
  <1>1. ASSUME AloneInv PROVE RunsAreRight
    <2>1. ASSUME ClockAlone PROVE RunsOK
      BY <1>1, <2>1 DEF AloneInv, ClockAlone, Alone
    <2> QED BY <2>1 DEF RunsAreRight, OneRunPerWorker, RightSweep, RunsOK
  <1> QED BY <1>1, AlwaysAlone, PTL

\* What one clock starts is due at that moment (_no_longer_due).
THEOREM ClockRunsDue == Spec => RunsOnlyWhenDue
  <1> DEFINE A == ClockAlone => \A r \in runs' \ runs : r.phase = "asked" => r.sweep \in due
  <1>1. ASSUME AloneInv, [Next /\ UNCHANGED cast]_<<vars, cast>> PROVE [A]_vars
    <2>1. ASSUME ClockAlone PROVE \A r \in runs' \ runs : r.phase = "asked" => r.sweep \in due
      <3>1. PICK c \in Cast.who : Alone(c)
        BY <1>1, <2>1 DEF AloneInv, ClockAlone
      <3> QED BY <1>1, <3>1, AloneNext DEF AloneInv
    <2> QED BY <2>1
  <1> QED BY <1>1, AlwaysAlone, PTL DEF Spec, RunsOnlyWhenDue

================================================================================
