----------------------------- MODULE MCQueue_proofs ----------------------------
(***************************************************************************)
(* For any number of callers, requests, collections and sweeps: the queue  *)
(* never lines up two ordinary runs of one pair, a request is in one place *)
(* only, and the waiting requests form one line, in which a request is     *)
(* overtaken only by one that was put back.  Several processes that read   *)
(* the stored record and write it back if it is still as read carry out    *)
(* these atomic operations.  settle takes out no note of a run that goes   *)
(* on, if ticks are short against runs and against the grace.  And in the  *)
(* workers' lines, which several clocks write blindly, no sweep stands     *)
(* twice, so none is started twice in one interval.                        *)
(***************************************************************************)
EXTENDS MCQueue, Lists_proofs

\* What each operation does to the list, stated once.

LEMMA OnlyWaitingShape ==
    ASSUME NEW q \in Queue, NEW W \in SUBSET q.waiting
    PROVE  /\ OnlyWaiting(q, W) \in Queue
           /\ OnlyWaiting(q, W).waiting = W
           /\ OnlyWaiting(q, W).ahead = q.ahead \cap (IdsOf(W) \X IdsOf(W))
           /\ OnlyWaiting(q, W).running = q.running
  BY DEF OnlyWaiting, Queue

LEMMA IdsOfEntries ==
    ASSUME NEW W \in SUBSET Entry
    PROVE  IdsOf(W) \in SUBSET Ids
  BY DEF IdsOf, Entry

LEMMA AtEndShape ==
    ASSUME NEW q \in Queue, NEW e \in Entry
    PROVE  /\ AtEnd(q, e) \in Queue
           /\ AtEnd(q, e).waiting = q.waiting \cup {e}
           /\ AtEnd(q, e).ahead = q.ahead \cup (IdsOf(q.waiting) \X {e.id})
           /\ AtEnd(q, e).running = q.running
  <1>1. IdsOf(q.waiting) \X {e.id} \in SUBSET (Ids \X Ids)
    <2>1. e.id \in Ids
      BY DEF Entry
    <2>2. IdsOf(q.waiting) \in SUBSET Ids
      BY IdsOfEntries DEF Queue
    <2> QED BY <2>1, <2>2
  <1> DEFINE R == IdsOf(q.waiting) \X {e.id}
  <1>2. AtEnd(q, e) = [q EXCEPT !.waiting = @ \cup {e}, !.ahead = @ \cup R]
    BY DEF AtEnd
  <1> HIDE DEF R
  <1>3. R \in SUBSET (Ids \X Ids)
    BY <1>1 DEF R
  <1>4. /\ AtEnd(q, e) \in Queue
        /\ AtEnd(q, e).waiting = q.waiting \cup {e}
        /\ AtEnd(q, e).ahead = q.ahead \cup R
        /\ AtEnd(q, e).running = q.running
    BY <1>2, <1>3 DEF Queue
  <1> QED BY <1>4 DEF R

LEMMA AtFrontShape ==
    ASSUME NEW q \in Queue, NEW e \in Entry
    PROVE  /\ AtFront(q, e) \in Queue
           /\ AtFront(q, e).waiting = q.waiting \cup {e}
           /\ AtFront(q, e).ahead = q.ahead \cup ({e.id} \X IdsOf(q.waiting))
           /\ AtFront(q, e).running = q.running
  <1>1. {e.id} \X IdsOf(q.waiting) \in SUBSET (Ids \X Ids)
    <2>1. e.id \in Ids
      BY DEF Entry
    <2>2. IdsOf(q.waiting) \in SUBSET Ids
      BY IdsOfEntries DEF Queue
    <2> QED BY <2>1, <2>2
  <1> DEFINE R == {e.id} \X IdsOf(q.waiting)
  <1>2. AtFront(q, e) = [q EXCEPT !.waiting = @ \cup {e}, !.ahead = @ \cup R]
    BY DEF AtFront
  <1> HIDE DEF R
  <1>3. R \in SUBSET (Ids \X Ids)
    BY <1>1 DEF R
  <1>4. /\ AtFront(q, e) \in Queue
        /\ AtFront(q, e).waiting = q.waiting \cup {e}
        /\ AtFront(q, e).ahead = q.ahead \cup R
        /\ AtFront(q, e).running = q.running
    BY <1>2, <1>3 DEF Queue
  <1> QED BY <1>4 DEF R

LEMMA LineOfPart ==
    ASSUME NEW W, NEW R, NEW V \in SUBSET W, StrictLine(W, R)
    PROVE  StrictLine(V, R \cap (V \X V))
  BY DEF StrictLine

LEMMA LineWithLast ==
    ASSUME NEW W, NEW R, NEW x, x \notin W, StrictLine(W, R)
    PROVE  StrictLine(W \cup {x}, R \cup (W \X {x}))
  BY DEF StrictLine

LEMMA LineWithFirst ==
    ASSUME NEW W, NEW R, NEW x, x \notin W, StrictLine(W, R)
    PROVE  StrictLine(W \cup {x}, R \cup ({x} \X W))
  BY DEF StrictLine

-----------------------------------------------------------------------------
\* The part of the invariant that speaks of the stored record only.

QueueOK(q) ==
    /\ q \in Queue
    /\ \A e, f \in q.waiting :
          ~e.named /\ ~f.named /\ Same(e, f.collection, f.sweep) => e = f
    /\ \A e, f \in q.waiting : e.id = f.id => e = f
    /\ \A r, t \in q.running : r.entry.id = t.entry.id => r = t
    /\ IdsOf(q.waiting) \cap RunIds(q) = {}
    /\ StrictLine(IdsOf(q.waiting), q.ahead)

\* The part that speaks of the callers' hands.
HandsOK(q, h) ==
    /\ h \in [Procs -> SUBSET Entry]
    /\ \A p \in Procs : \A e, f \in h[p] : e = f
    /\ \A p, o \in Procs : p # o => IdsOf(h[p]) \cap IdsOf(h[o]) = {}
    /\ \A p \in Procs : IdsOf(h[p]) \cap (IdsOf(q.waiting) \cup RunIds(q)) = {}

IInv == QueueOK(queue) /\ HandsOK(queue, hand)

\* Filtering the list keeps it in order.
LEMMA FilterOK ==
    ASSUME NEW q, QueueOK(q), NEW W \in SUBSET q.waiting
    PROVE  QueueOK(OnlyWaiting(q, W))
  <1> q \in Queue
    BY DEF QueueOK
  <1> DEFINE o == OnlyWaiting(q, W)
  <1>1. /\ o \in Queue
        /\ o.waiting = W
        /\ o.ahead = q.ahead \cap (IdsOf(W) \X IdsOf(W))
        /\ o.running = q.running
    BY OnlyWaitingShape
  <1> HIDE DEF o
  <1>2. IdsOf(W) \in SUBSET IdsOf(q.waiting)
    BY DEF IdsOf
  <1>3. StrictLine(IdsOf(W), q.ahead \cap (IdsOf(W) \X IdsOf(W)))
    BY <1>2, LineOfPart DEF QueueOK
  <1>4. IdsOf(o.waiting) \cap RunIds(o) = {}
    BY <1>1, <1>2 DEF QueueOK, RunIds
  <1>5. QueueOK(o)
    BY <1>1, <1>3, <1>4 DEF QueueOK
  <1> QED BY <1>5 DEF o

\* A new entry at either end, when its pair does not wait as a plain entry.
LEMMA InsertOK ==
    ASSUME NEW q, QueueOK(q), NEW e \in Entry,
           e.id \notin IdsOf(q.waiting), e.id \notin RunIds(q),
           e.named \/ Plain(q.waiting, e.collection, e.sweep) = {}
    PROVE  QueueOK(AtEnd(q, e)) /\ QueueOK(AtFront(q, e))
  <1> q \in Queue
    BY DEF QueueOK
  <1>1. ASSUME NEW o \in Queue, o.waiting = q.waiting \cup {e}, o.running = q.running,
               StrictLine(IdsOf(o.waiting), o.ahead)
        PROVE  QueueOK(o)
    <2>1. \A f, g \in o.waiting :
              ~f.named /\ ~g.named /\ Same(f, g.collection, g.sweep) => f = g
      BY <1>1 DEF QueueOK, Plain, Same
    <2>2. \A f, g \in o.waiting : f.id = g.id => f = g
      BY <1>1 DEF QueueOK, IdsOf
    <2>3. IdsOf(o.waiting) \cap RunIds(o) = {}
      BY <1>1 DEF QueueOK, IdsOf, RunIds
    <2> QED BY <1>1, <2>1, <2>2, <2>3 DEF QueueOK
  <1>2. IdsOf(q.waiting \cup {e}) = IdsOf(q.waiting) \cup {e.id}
    BY DEF IdsOf
  <1>3. StrictLine(IdsOf(q.waiting), q.ahead)
    BY DEF QueueOK
  <1>4. StrictLine(IdsOf(q.waiting) \cup {e.id}, q.ahead \cup (IdsOf(q.waiting) \X {e.id}))
    BY <1>3, LineWithLast
  <1>5. StrictLine(IdsOf(q.waiting) \cup {e.id}, q.ahead \cup ({e.id} \X IdsOf(q.waiting)))
    BY <1>3, LineWithFirst
  <1>6. QueueOK(AtEnd(q, e))
    <2>1. /\ AtEnd(q, e) \in Queue
          /\ AtEnd(q, e).waiting = q.waiting \cup {e}
          /\ AtEnd(q, e).ahead = q.ahead \cup (IdsOf(q.waiting) \X {e.id})
          /\ AtEnd(q, e).running = q.running
      BY AtEndShape
    <2>2. StrictLine(IdsOf(AtEnd(q, e).waiting), AtEnd(q, e).ahead)
      BY <1>2, <1>4, <2>1
    <2> QED BY <1>1, <2>1, <2>2
  <1>7. QueueOK(AtFront(q, e))
    <2>1. /\ AtFront(q, e) \in Queue
          /\ AtFront(q, e).waiting = q.waiting \cup {e}
          /\ AtFront(q, e).ahead = q.ahead \cup ({e.id} \X IdsOf(q.waiting))
          /\ AtFront(q, e).running = q.running
      BY AtFrontShape
    <2>2. StrictLine(IdsOf(AtFront(q, e).waiting), AtFront(q, e).ahead)
      BY <1>2, <1>5, <2>1
    <2> QED BY <1>1, <2>1, <2>2
  <1> QED BY <1>6, <1>7

LEMMA AddOK ==
    ASSUME NEW q, QueueOK(q), NEW e \in Entry,
           e.id \notin IdsOf(q.waiting), e.id \notin RunIds(q)
    PROVE  /\ QueueOK(Add(q, e))
           /\ Add(q, e).waiting \in SUBSET (q.waiting \cup {e})
           /\ Add(q, e).running = q.running
  <1> q \in Queue
    BY DEF QueueOK
  <1>1. CASE ~e.named /\ Plain(q.waiting, e.collection, e.sweep) # {}
    BY <1>1 DEF Add
  <1>2. CASE ~(~e.named /\ Plain(q.waiting, e.collection, e.sweep) # {})
    BY <1>2, InsertOK, AtEndShape DEF Add
  <1> QED BY <1>1, <1>2

LEMMA PutBackOK ==
    ASSUME NEW q, QueueOK(q), NEW e \in Entry,
           e.id \notin IdsOf(q.waiting), e.id \notin RunIds(q)
    PROVE  /\ QueueOK(PutBack(q, e))
           /\ PutBack(q, e).waiting \in SUBSET (q.waiting \cup {e})
           /\ PutBack(q, e).running = q.running
  <1> q \in Queue
    BY DEF QueueOK
  <1> DEFINE W == IF e.named THEN q.waiting
                             ELSE q.waiting \ Plain(q.waiting, e.collection, e.sweep)
             o == OnlyWaiting(q, W)
  <1>1. W \in SUBSET q.waiting
    OBVIOUS
  <1>2. PutBack(q, e) = AtFront(o, e)
    BY DEF PutBack
  <1>3. e.named \/ Plain(W, e.collection, e.sweep) = {}
    BY DEF Plain
  <1> HIDE DEF W
  <1>4. QueueOK(o) /\ o.waiting = W /\ o.running = q.running
    BY <1>1, FilterOK, OnlyWaitingShape
  <1> HIDE DEF o
  <1>5. e.id \notin IdsOf(o.waiting) /\ e.id \notin RunIds(o)
    BY <1>1, <1>4 DEF IdsOf, RunIds
  <1>6. o \in Queue
    BY <1>4 DEF QueueOK
  <1>7. AtFront(o, e).waiting = W \cup {e} /\ AtFront(o, e).running = q.running
    BY <1>4, <1>6, AtFrontShape
  <1> QED BY <1>1, <1>2, <1>3, <1>4, <1>5, <1>7, InsertOK

LEMMA StartedOK ==
    ASSUME NEW q, QueueOK(q), NEW e \in Entry, NEW at \in Times,
           e.id \notin IdsOf(q.waiting), e.id \notin RunIds(q)
    PROVE  /\ QueueOK(Started(q, e, at))
           /\ Started(q, e, at).waiting = q.waiting
           /\ RunIds(Started(q, e, at)) = RunIds(q) \cup {e.id}
  <1> q \in Queue
    BY DEF QueueOK
  <1> DEFINE r == [entry |-> e, at |-> at]
             o == Started(q, e, at)
  <1>1. r \in Run /\ r.entry = e
    BY DEF Run
  <1>2. o \in Queue /\ o.waiting = q.waiting /\ o.ahead = q.ahead /\ o.running = q.running \cup {r}
    BY <1>1 DEF Started, Queue
  <1> HIDE DEF r, o
  <1>3. RunIds(o) = RunIds(q) \cup {e.id}
    BY <1>1, <1>2 DEF RunIds
  <1>4. \A s, t \in o.running : s.entry.id = t.entry.id => s = t
    BY <1>1, <1>2 DEF QueueOK, RunIds
  <1>5. QueueOK(o)
    BY <1>2, <1>3, <1>4 DEF QueueOK
  <1> QED BY <1>2, <1>3, <1>5 DEF o

\* settle and forget only remove from `running`.
LEMMA FewerRunsOK ==
    ASSUME NEW q, QueueOK(q), NEW S \in SUBSET q.running
    PROVE  LET o == [q EXCEPT !.running = S] IN
           /\ QueueOK(o)
           /\ o.waiting = q.waiting
           /\ RunIds(o) \in SUBSET RunIds(q)
  <1> q \in Queue
    BY DEF QueueOK
  <1> DEFINE o == [q EXCEPT !.running = S]
  <1>1. o \in Queue /\ o.waiting = q.waiting /\ o.ahead = q.ahead /\ o.running = S
    BY DEF Queue
  <1> HIDE DEF o
  <1>2. RunIds(o) \in SUBSET RunIds(q)
    BY <1>1 DEF RunIds
  <1>3. QueueOK(o)
    BY <1>1, <1>2 DEF QueueOK
  <1>4. /\ QueueOK(o)
        /\ o.waiting = q.waiting
        /\ RunIds(o) \in SUBSET RunIds(q)
    BY <1>1, <1>2, <1>3
  <1> QED BY <1>4 DEF o

-----------------------------------------------------------------------------

\* If the record holds no new ids, the hands stay disjoint from it.
LEMMA HandsStay ==
    ASSUME NEW q, NEW o, NEW h, HandsOK(q, h),
           IdsOf(o.waiting) \cup RunIds(o) \in SUBSET (IdsOf(q.waiting) \cup RunIds(q))
    PROVE  HandsOK(o, h)
  BY DEF HandsOK

LEMMA InitInv == Init => IInv
  <1> SUFFICES ASSUME Init PROVE IInv
    OBVIOUS
  <1>1. QueueOK(Empty)
    BY DEF QueueOK, Empty, Queue, IdsOf, RunIds, StrictLine
  <1>2. HandsOK(Empty, hand)
    BY DEF Init, HandsOK, Empty, IdsOf, RunIds
  <1> QED BY <1>1, <1>2 DEF Init, IInv

\* The inductive step, one action at a time.
LEMMA NextInv == IInv /\ [Next]_vars => IInv'
  <1> SUFFICES ASSUME IInv, [Next]_vars PROVE IInv'
    OBVIOUS
  <1>q. QueueOK(queue) /\ queue \in Queue /\ HandsOK(queue, hand)
    BY DEF IInv, QueueOK
  <1>i. QueueOK(queue') /\ HandsOK(queue', hand') => IInv'
    BY DEF IInv
  <1>1. ASSUME NEW e \in Entry, Push(e)
        PROVE  IInv'
    <2>1. /\ e.id \notin IdsOf(queue.waiting)
          /\ e.id \notin RunIds(queue)
          /\ \A p \in Procs : e.id \notin IdsOf(hand[p])
      BY <1>1 DEF Push, InUse
    <2>2. QueueOK(queue')
      BY <1>1, <1>q, <2>1, AddOK DEF Push
    <2>3. IdsOf(queue'.waiting) \cup RunIds(queue')
             \in SUBSET (IdsOf(queue.waiting) \cup RunIds(queue) \cup {e.id})
      <3>1. queue'.waiting \in SUBSET (queue.waiting \cup {e}) /\ queue'.running = queue.running
        BY <1>1, <1>q, <2>1, AddOK DEF Push
      <3> QED BY <3>1 DEF IdsOf, RunIds
    <2>4. HandsOK(queue', hand)
      BY <1>q, <2>1, <2>3 DEF HandsOK
    <2> QED BY <1>i, <1>1, <2>2, <2>4 DEF Push
  <1>2. ASSUME NEW p \in Procs, NEW e \in queue.waiting, TakeOut(p, e)
        PROVE  IInv'
    <2>1. queue' = OnlyWaiting(queue, queue.waiting \ {e})
      BY <1>2 DEF TakeOut, Take
    <2>2. QueueOK(queue') /\ queue'.waiting = queue.waiting \ {e} /\ queue'.running = queue.running
      BY <1>q, <2>1, FilterOK, OnlyWaitingShape
    <2>3. hand' = [hand EXCEPT ![p] = {e}] /\ e \in Entry
      BY <1>2, <1>q DEF TakeOut, Queue
    <2>4. e.id \notin IdsOf(queue'.waiting) /\ e.id \notin RunIds(queue')
      BY <1>q, <2>2 DEF QueueOK, IdsOf, RunIds
    <2>5. /\ IdsOf(queue'.waiting) \in SUBSET IdsOf(queue.waiting)
          /\ RunIds(queue') = RunIds(queue)
      BY <2>2 DEF IdsOf, RunIds
    <2>6. \A o \in Procs : e.id \notin IdsOf(hand[o])
      BY <1>q DEF HandsOK, IdsOf
    <2>7. IdsOf(hand'[p]) = {e.id} /\ \A o \in Procs \ {p} : hand'[o] = hand[o]
      BY <1>q, <2>3 DEF HandsOK, IdsOf
    <2>8. HandsOK(queue', hand')
      <3>1. hand' \in [Procs -> SUBSET Entry]
        BY <1>q, <2>3 DEF HandsOK
      <3>2. \A o \in Procs : \A f, g \in hand'[o] : f = g
        BY <1>q, <2>3 DEF HandsOK
      <3>3. \A o, r \in Procs : o # r => IdsOf(hand'[o]) \cap IdsOf(hand'[r]) = {}
        BY <1>q, <2>6, <2>7 DEF HandsOK
      <3>4. \A o \in Procs :
                IdsOf(hand'[o]) \cap (IdsOf(queue'.waiting) \cup RunIds(queue')) = {}
        BY <1>q, <2>4, <2>5, <2>7 DEF HandsOK
      <3> QED BY <3>1, <3>2, <3>3, <3>4 DEF HandsOK
    <2> QED BY <1>i, <2>2, <2>8
  <1>3. ASSUME NEW p \in Procs, NEW e \in hand[p],
               \/ Return(p, e)
               \/ GiveUp(p, e)
               \/ \E at \in Times : NoteStarted(p, e, at)
        PROVE  IInv'
    <2>1. hand' = [hand EXCEPT ![p] = {}] /\ e \in Entry
      BY <1>3, <1>q DEF Return, GiveUp, NoteStarted, HandsOK
    <2>2. e.id \notin IdsOf(queue.waiting) /\ e.id \notin RunIds(queue)
      BY <1>q DEF HandsOK, IdsOf
    <2>3. QueueOK(queue') /\ IdsOf(queue'.waiting) \cup RunIds(queue')
             \in SUBSET (IdsOf(queue.waiting) \cup RunIds(queue) \cup {e.id})
      <3>1. CASE Return(p, e)
        <4>1. /\ QueueOK(queue')
              /\ queue'.waiting \in SUBSET (queue.waiting \cup {e})
              /\ queue'.running = queue.running
          BY <1>q, <2>1, <2>2, <3>1, PutBackOK DEF Return
        <4> QED BY <4>1 DEF IdsOf, RunIds
      <3>2. CASE GiveUp(p, e)
        BY <1>q, <3>2 DEF GiveUp
      <3>3. ASSUME NEW at \in Times, NoteStarted(p, e, at)
            PROVE  QueueOK(queue') /\ IdsOf(queue'.waiting) \cup RunIds(queue')
                      \in SUBSET (IdsOf(queue.waiting) \cup RunIds(queue) \cup {e.id})
        <4>1. /\ QueueOK(queue')
              /\ queue'.waiting = queue.waiting
              /\ RunIds(queue') = RunIds(queue) \cup {e.id}
          BY <1>q, <2>1, <2>2, <3>3, StartedOK DEF NoteStarted
        <4> QED BY <4>1
      <3> QED BY <1>3, <3>1, <3>2, <3>3
    <2>4. hand'[p] = {} /\ \A o \in Procs \ {p} : hand'[o] = hand[o]
      BY <1>q, <2>1 DEF HandsOK
    <2>5. \A o \in Procs \ {p} : e.id \notin IdsOf(hand[o])
      BY <1>q DEF HandsOK, IdsOf
    <2>6. HandsOK(queue', hand')
      <3>1. hand' \in [Procs -> SUBSET Entry]
        BY <1>q, <2>1 DEF HandsOK
      <3>2. \A o \in Procs : \A f, g \in hand'[o] : f = g
        BY <1>q, <2>4 DEF HandsOK
      <3>3. IdsOf(hand'[p]) = {}
        BY <2>4 DEF IdsOf
      <3>4. \A o, r \in Procs : o # r => IdsOf(hand'[o]) \cap IdsOf(hand'[r]) = {}
        BY <1>q, <2>4, <3>3 DEF HandsOK
      <3>5. \A o \in Procs :
                IdsOf(hand'[o]) \cap (IdsOf(queue'.waiting) \cup RunIds(queue')) = {}
        <4>1. ASSUME NEW o \in Procs \ {p}
              PROVE  IdsOf(hand[o]) \cap (IdsOf(queue'.waiting) \cup RunIds(queue')) = {}
          <5>1. IdsOf(hand[o]) \cap (IdsOf(queue.waiting) \cup RunIds(queue)) = {}
            BY <1>q DEF HandsOK
          <5> QED BY <2>3, <2>5, <5>1
        <4> QED BY <2>4, <3>3, <4>1
      <3> QED BY <3>1, <3>2, <3>4, <3>5 DEF HandsOK
    <2> QED BY <1>i, <2>3, <2>6
  <1>4. ASSUME NEW W \in SUBSET queue.waiting, queue' = OnlyWaiting(queue, W), hand' = hand
        PROVE  IInv'
    <2>1. QueueOK(queue') /\ queue'.waiting = W /\ queue'.running = queue.running
      BY <1>4, <1>q, FilterOK, OnlyWaitingShape
    <2>2. IdsOf(queue'.waiting) \cup RunIds(queue')
             \in SUBSET (IdsOf(queue.waiting) \cup RunIds(queue))
      BY <2>1 DEF IdsOf, RunIds
    <2> QED BY <1>i, <1>4, <1>q, <2>1, <2>2, HandsStay
  <1>5. ASSUME NEW e \in queue.waiting, Remove(e)
        PROVE  IInv'
    <2>1. queue' = OnlyWaiting(queue, queue.waiting \ {e}) /\ hand' = hand
      BY <1>5 DEF Remove, Take
    <2> QED BY <1>4, <2>1
  <1>6. ASSUME NEW names \in SUBSET Collections, NEW ends \in [Collections -> Times],
               NEW cutoff \in Times, SettleRuns(names, ends, cutoff)
        PROVE  IInv'
    <2> DEFINE S == {r \in queue.running : ~Gone(r, names, ends, cutoff)}
    <2>1. queue' = [queue EXCEPT !.running = S] /\ hand' = hand
      BY <1>6 DEF SettleRuns, Settle
    <2> HIDE DEF S
    <2>2. S \in SUBSET queue.running
      BY DEF S
    <2>3. QueueOK(queue') /\ queue'.waiting = queue.waiting /\ RunIds(queue') \in SUBSET RunIds(queue)
      BY <1>q, <2>1, <2>2, FewerRunsOK
    <2> QED BY <1>i, <1>q, <2>1, <2>3, HandsStay
  <1>7. ASSUME NEW c \in Collections, NEW s \in Sweeps, DropPair(c, s)
        PROVE  IInv'
    <2>1. queue' = OnlyWaiting(queue, queue.waiting \ Plain(queue.waiting, c, s)) /\ hand' = hand
      BY <1>7 DEF DropPair, Drop
    <2> QED BY <1>4, <2>1
  <1>8. ASSUME NEW c \in Collections, ForgetCollection(c)
        PROVE  IInv'
    <2> DEFINE o == OnlyWaiting(queue, {e \in queue.waiting : e.collection # c})
               S == {r \in o.running : r.entry.collection # c}
    <2>1. queue' = [o EXCEPT !.running = S] /\ hand' = hand
      BY <1>8 DEF ForgetCollection, Forget
    <2>2. {e \in queue.waiting : e.collection # c} \in SUBSET queue.waiting
      OBVIOUS
    <2>3. QueueOK(o) /\ o.waiting \in SUBSET queue.waiting /\ o.running = queue.running
      BY <1>q, <2>2, FilterOK, OnlyWaitingShape
    <2> HIDE DEF o
    <2>4. S \in SUBSET o.running
      OBVIOUS
    <2> HIDE DEF S
    <2>5. QueueOK(queue') /\ queue'.waiting = o.waiting /\ RunIds(queue') \in SUBSET RunIds(o)
      BY <2>1, <2>3, <2>4, FewerRunsOK
    <2>6. IdsOf(queue'.waiting) \cup RunIds(queue')
             \in SUBSET (IdsOf(queue.waiting) \cup RunIds(queue))
      BY <2>3, <2>5 DEF IdsOf, RunIds
    <2> QED BY <1>i, <1>q, <2>1, <2>5, <2>6, HandsStay
  <1>9. CASE UNCHANGED vars
    BY <1>i, <1>q, <1>9 DEF vars
  <1> QED BY <1>1, <1>2, <1>3, <1>5, <1>6, <1>7, <1>8, <1>9 DEF Next

LEMMA InvImplies == IInv => TypeOK /\ NoPlainTwins /\ OneHolder /\ OneLine
  BY DEF IInv, QueueOK, HandsOK, TypeOK, NoPlainTwins, OneHolder, OneLine

\* Whatever the callers do, the record and the hands keep their types, an
\* ordinary run of a pair waits at most once, a request is in one place only,
\* and the waiting requests form one line.
THEOREM QueueCorrect == Spec => [](TypeOK /\ NoPlainTwins /\ OneHolder /\ OneLine)
  <1>1. Spec => []IInv
    BY InitInv, NextInv, PTL DEF Spec
  <1> QED BY <1>1, InvImplies, PTL

\* The record and the hands of the processes hold entries and runs only.
COROLLARY QueueTyped == Spec => []TypeOK
  BY QueueCorrect, PTL

\* `add` and `put_back` fold: no two entries of the schedule for one sweep wait at once.
COROLLARY NoTwinsWait == Spec => []NoPlainTwins
  BY QueueCorrect, PTL

\* An entry waits, is in the hand of one process or is noted as running, in one place only.
COROLLARY EntryHeldOnce == Spec => []OneHolder
  BY QueueCorrect, PTL

\* However entries are added and put back, the order of what waits is a strict total order.
COROLLARY WaitingIsALine == Spec => []OneLine
  BY QueueCorrect, PTL

-----------------------------------------------------------------------------
\* The order of what waits, and what leaves the line.

\* A pair of the line that is new stands so because the second one has just arrived, or
\* because the first one was in somebody's hand.
LEMMA NewPairs ==
    ASSUME IInv, [Next]_vars, NEW a, NEW b, <<a, b>> \in queue'.ahead \ queue.ahead
    PROVE  \/ a \in Present /\ b \notin Present
           \/ a \in UNION {IdsOf(hand[p]) : p \in Procs} /\ a \in IdsOf(queue'.waiting)
  <1>q. QueueOK(queue) /\ queue \in Queue /\ HandsOK(queue, hand)
    BY DEF IInv, QueueOK
  <1>1. ASSUME NEW W \in SUBSET queue.waiting, queue'.ahead = OnlyWaiting(queue, W).ahead
        PROVE  FALSE
    BY <1>1, <1>q, OnlyWaitingShape
  <1>2. ASSUME NEW e \in Entry, Push(e)
        PROVE  a \in Present /\ b \notin Present
    <2>1. queue' = AtEnd(queue, e)
      BY <1>2 DEF Push, Add
    <2>2. queue'.ahead = queue.ahead \cup (IdsOf(queue.waiting) \X {e.id})
      BY <1>q, <2>1, AtEndShape
    <2>3. a \in IdsOf(queue.waiting) /\ b = e.id
      BY <2>2
    <2> QED BY <1>2, <2>3 DEF Push, InUse, Present
  <1>3. ASSUME NEW p \in Procs, NEW e \in hand[p], Return(p, e)
        PROVE  a \in IdsOf(hand[p]) /\ a \in IdsOf(queue'.waiting)
    <2> DEFINE W == IF e.named THEN queue.waiting
                    ELSE queue.waiting \ Plain(queue.waiting, e.collection, e.sweep)
               o == OnlyWaiting(queue, W)
    <2>1. queue' = AtFront(o, e)
      BY <1>3 DEF Return, PutBack
    <2>2. W \in SUBSET queue.waiting /\ e \in Entry
      BY <1>q DEF HandsOK
    <2> HIDE DEF W
    <2>3. o \in Queue /\ o.ahead \in SUBSET queue.ahead
      BY <1>q, <2>2, OnlyWaitingShape
    <2> HIDE DEF o
    <2>4. /\ queue'.ahead = o.ahead \cup ({e.id} \X IdsOf(o.waiting))
          /\ queue'.waiting = o.waiting \cup {e}
      BY <2>1, <2>2, <2>3, AtFrontShape
    <2>5. a = e.id
      BY <2>3, <2>4
    <2> QED BY <2>4, <2>5 DEF IdsOf
  <1>4. ASSUME NEW p \in Procs, NEW e \in queue.waiting, TakeOut(p, e)
        PROVE  FALSE
    BY <1>1, <1>4 DEF TakeOut, Take
  <1>5. ASSUME NEW p \in Procs, NEW e \in hand[p], GiveUp(p, e)
        PROVE  FALSE
    BY <1>5 DEF GiveUp
  <1>6. ASSUME NEW p \in Procs, NEW e \in hand[p], NEW at \in Times, NoteStarted(p, e, at)
        PROVE  FALSE
    BY <1>q, <1>6 DEF NoteStarted, Started, Queue
  <1>7. ASSUME NEW e \in queue.waiting, Remove(e)
        PROVE  FALSE
    BY <1>1, <1>7 DEF Remove, Take
  <1>8. ASSUME NEW names \in SUBSET Collections, NEW over \in [Collections -> Times],
               NEW cutoff \in Times, SettleRuns(names, over, cutoff)
        PROVE  FALSE
    BY <1>q, <1>8 DEF SettleRuns, Settle, Queue
  <1>9. ASSUME NEW c \in Collections, NEW s \in Sweeps, DropPair(c, s)
        PROVE  FALSE
    BY <1>1, <1>9 DEF DropPair, Drop
  <1>10. ASSUME NEW c \in Collections, ForgetCollection(c)
         PROVE  FALSE
    <2> DEFINE W == {e \in queue.waiting : e.collection # c}
    <2>1. queue'.ahead = OnlyWaiting(queue, W).ahead
      BY <1>q, <1>10, OnlyWaitingShape DEF ForgetCollection, Forget, Queue
    <2> QED BY <1>1, <2>1
  <1>11. CASE UNCHANGED vars
    BY <1>11 DEF vars
  <1> QED BY <1>2, <1>3, <1>4, <1>5, <1>6, <1>7, <1>8, <1>9, <1>10, <1>11 DEF Next

\* A request is served before an earlier one only if it was taken once and put back
\* (src/app/ingest_queue.py, add and put_back).
THEOREM FirstComeFirstServed == OrderSpec => []OvertakenOnlyByReturned
  <1> DEFINE Inv == IInv /\ OvertakenOnlyByReturned
  <1>1. OrderInit => Inv
    BY InitInv DEF OrderInit, Init, OvertakenOnlyByReturned, Empty
  <1>2. Inv /\ [OrderNext]_allVars => Inv'
    <2> SUFFICES ASSUME Inv, [OrderNext]_allVars PROVE Inv'
      OBVIOUS
    <2>1. [Next]_vars
      BY DEF OrderNext, allVars, vars
    <2>2. IInv'
      BY <2>1, NextInv
    <2>3. CASE UNCHANGED allVars
      BY <2>2, <2>3 DEF allVars, OvertakenOnlyByReturned
    <2>4. CASE OrderNext
      <3>1. SUFFICES ASSUME NEW pair \in queue'.ahead
                     PROVE  pair \in came' \/ pair[1] \in returned'
        BY <2>2 DEF OvertakenOnlyByReturned
      <3>2. PICK a, b \in IdsOf(queue'.waiting) : pair = <<a, b>>
        BY <2>2 DEF IInv, QueueOK, StrictLine
      <3>3. a \in Present' /\ b \in Present'
        BY <3>2 DEF Present
      <3>4. CASE pair \in queue.ahead
        <4>1. pair \in came \/ a \in returned
          BY <3>2, <3>4 DEF OvertakenOnlyByReturned
        <4> QED BY <2>4, <3>2, <3>3, <4>1 DEF OrderNext
      <3>5. CASE pair \notin queue.ahead
        <4>1. \/ a \in Present /\ b \notin Present
              \/ a \in UNION {IdsOf(hand[p]) : p \in Procs} /\ a \in IdsOf(queue'.waiting)
          BY <2>1, <3>1, <3>2, <3>5, NewPairs
        <4>2. a \in Present /\ b \notin Present => <<a, b>> \in came'
          BY <2>4, <3>3 DEF OrderNext
        <4>3. a \in UNION {IdsOf(hand[p]) : p \in Procs} => a \in returned'
          <5> DEFINE InHand == UNION {IdsOf(hand[p]) : p \in Procs}
          <5>1. returned' = (returned \cup (InHand \cap IdsOf(queue'.waiting))) \cap Present'
            BY <2>4 DEF OrderNext, IdsOf
          <5> HIDE DEF InHand
          <5>2. a \in InHand => a \in returned'
            BY <3>2, <3>3, <5>1
          <5> QED BY <5>2 DEF InHand
        <4> QED BY <3>2, <4>1, <4>2, <4>3
      <3> QED BY <3>4, <3>5
    <2> QED BY <2>3, <2>4
  <1> QED BY <1>1, <1>2, PTL DEF OrderSpec

\* A request that names its partitions goes into a hand, is removed on the page, or leaves
\* with its collection: no add, put_back or drop of its pair folds it
\* (src/app/ingest_queue.py, add, put_back, drop).
THEOREM NamedStays == Spec => NamedIsNeverFolded
  <1>1. IInv /\ [Next]_vars =>
          [\A e \in queue.waiting :
              e.named /\ e \notin queue'.waiting =>
                 \/ \E p \in Procs : e \in hand'[p]
                 \/ Remove(e)
                 \/ ForgetCollection(e.collection)]_vars
    <2> SUFFICES ASSUME IInv, [Next]_vars, NEW e \in queue.waiting, e.named,
                        e \notin queue'.waiting
                 PROVE  \/ \E p \in Procs : e \in hand'[p]
                        \/ Remove(e)
                        \/ ForgetCollection(e.collection)
      OBVIOUS
    <2>q. queue \in Queue /\ HandsOK(queue, hand)
      BY DEF IInv, QueueOK
    <2>1. ASSUME NEW f \in Entry, Push(f)
          PROVE  FALSE
      BY <2>q, <2>1, AtEndShape DEF Push, Add
    <2>2. ASSUME NEW p \in Procs, NEW f \in queue.waiting, TakeOut(p, f)
          PROVE  e \in hand'[p]
      <3>1. queue'.waiting = queue.waiting \ {f}
        BY <2>q, <2>2, OnlyWaitingShape DEF TakeOut, Take
      <3> QED BY <2>q, <2>2, <3>1 DEF TakeOut, HandsOK
    <2>3. ASSUME NEW p \in Procs, NEW f \in hand[p], Return(p, f)
          PROVE  FALSE
      <3> DEFINE W == IF f.named THEN queue.waiting
                      ELSE queue.waiting \ Plain(queue.waiting, f.collection, f.sweep)
                 o == OnlyWaiting(queue, W)
      <3>1. queue' = queue \/ queue' = AtFront(o, f)
        BY <2>3 DEF Return, PutBack
      <3>2. W \in SUBSET queue.waiting /\ f \in Entry /\ e \in W
        BY <2>q DEF HandsOK, Plain
      <3> HIDE DEF W
      <3>3. o \in Queue /\ o.waiting = W
        BY <2>q, <3>2, OnlyWaitingShape
      <3> HIDE DEF o
      <3> QED BY <3>1, <3>2, <3>3, AtFrontShape
    <2>4. ASSUME NEW p \in Procs, NEW f \in hand[p], GiveUp(p, f)
          PROVE  FALSE
      BY <2>4 DEF GiveUp
    <2>5. ASSUME NEW p \in Procs, NEW f \in hand[p], NEW at \in Times, NoteStarted(p, f, at)
          PROVE  FALSE
      BY <2>q, <2>5 DEF NoteStarted, Started, Queue
    <2>6. ASSUME NEW f \in queue.waiting, Remove(f)
          PROVE  Remove(e)
      <3>1. queue'.waiting = queue.waiting \ {f}
        BY <2>q, <2>6, OnlyWaitingShape DEF Remove, Take
      <3>2. f = e
        BY <3>1
      <3> QED BY <2>6, <3>2
    <2>7. ASSUME NEW names \in SUBSET Collections, NEW over \in [Collections -> Times],
                 NEW cutoff \in Times, SettleRuns(names, over, cutoff)
          PROVE  FALSE
      BY <2>q, <2>7 DEF SettleRuns, Settle, Queue
    <2>8. ASSUME NEW c \in Collections, NEW s \in Sweeps, DropPair(c, s)
          PROVE  FALSE
      BY <2>q, <2>8, OnlyWaitingShape DEF DropPair, Drop, Plain
    <2>9. ASSUME NEW c \in Collections, ForgetCollection(c)
          PROVE  ForgetCollection(e.collection)
      <3>1. queue'.waiting = {f \in queue.waiting : f.collection # c}
        BY <2>q, <2>9, OnlyWaitingShape DEF ForgetCollection, Forget, Queue
      <3>2. e.collection = c
        BY <3>1
      <3> QED BY <2>9, <3>2
    <2>10. CASE UNCHANGED vars
      BY <2>10 DEF vars
    <2> QED BY <2>1, <2>2, <2>3, <2>4, <2>5, <2>6, <2>7, <2>8, <2>9, <2>10 DEF Next
  <1> QED BY <1>1, InitInv, NextInv, PTL DEF Spec, NamedIsNeverFolded

-----------------------------------------------------------------------------
\* The read and the conditional write carry out the atomic operations.

\* The operators of the record are the same in each module that takes them in.
LEMMA SameOperators ==
    ASSUME NEW q, NEW e, NEW at, NEW c, NEW s, NEW names, NEW over, NEW cutoff
    PROVE  /\ Cas!Add(q, e) = Add(q, e) /\ Cas!Atomic!Add(q, e) = Add(q, e)
           /\ Cas!Take(q, e) = Take(q, e) /\ Cas!Atomic!Take(q, e) = Take(q, e)
           /\ Cas!PutBack(q, e) = PutBack(q, e) /\ Cas!Atomic!PutBack(q, e) = PutBack(q, e)
           /\ Cas!Started(q, e, at) = Started(q, e, at)
           /\ Cas!Atomic!Started(q, e, at) = Started(q, e, at)
           /\ Cas!Settle(q, names, over, cutoff) = Settle(q, names, over, cutoff)
           /\ Cas!Atomic!Settle(q, names, over, cutoff) = Settle(q, names, over, cutoff)
           /\ Cas!Drop(q, c, s) = Drop(q, c, s) /\ Cas!Atomic!Drop(q, c, s) = Drop(q, c, s)
           /\ Cas!Forget(q, c) = Forget(q, c) /\ Cas!Atomic!Forget(q, c) = Forget(q, c)
  <1>1. \A W : Cas!IdsOf(W) = IdsOf(W) /\ Cas!Atomic!IdsOf(W) = IdsOf(W)
    BY DEF Cas!IdsOf, Cas!Atomic!IdsOf, IdsOf
  <1>2. \A W, n, m : /\ Cas!Plain(W, n, m) = Plain(W, n, m)
                     /\ Cas!Atomic!Plain(W, n, m) = Plain(W, n, m)
    BY DEF Cas!Plain, Cas!Atomic!Plain, Plain, Cas!Same, Cas!Atomic!Same, Same
  <1>3. \A o, W : /\ Cas!OnlyWaiting(o, W) = OnlyWaiting(o, W)
                  /\ Cas!Atomic!OnlyWaiting(o, W) = OnlyWaiting(o, W)
    BY <1>1 DEF Cas!OnlyWaiting, Cas!Atomic!OnlyWaiting, OnlyWaiting
  <1>4. \A o, f : /\ Cas!AtEnd(o, f) = AtEnd(o, f) /\ Cas!Atomic!AtEnd(o, f) = AtEnd(o, f)
                  /\ Cas!AtFront(o, f) = AtFront(o, f)
                  /\ Cas!Atomic!AtFront(o, f) = AtFront(o, f)
    BY <1>1 DEF Cas!AtEnd, Cas!Atomic!AtEnd, AtEnd, Cas!AtFront, Cas!Atomic!AtFront, AtFront
  <1>5. Cas!Add(q, e) = Add(q, e) /\ Cas!Atomic!Add(q, e) = Add(q, e)
    BY <1>2, <1>4 DEF Cas!Add, Cas!Atomic!Add, Add
  <1>6. Cas!Take(q, e) = Take(q, e) /\ Cas!Atomic!Take(q, e) = Take(q, e)
    BY <1>3 DEF Cas!Take, Cas!Atomic!Take, Take
  <1>7. Cas!PutBack(q, e) = PutBack(q, e) /\ Cas!Atomic!PutBack(q, e) = PutBack(q, e)
    BY <1>1, <1>2, <1>3, <1>4 DEF Cas!PutBack, Cas!Atomic!PutBack, PutBack
  <1>8. /\ Cas!Started(q, e, at) = Started(q, e, at)
        /\ Cas!Atomic!Started(q, e, at) = Started(q, e, at)
    BY DEF Cas!Started, Cas!Atomic!Started, Started
  <1>9. /\ Cas!Settle(q, names, over, cutoff) = Settle(q, names, over, cutoff)
        /\ Cas!Atomic!Settle(q, names, over, cutoff) = Settle(q, names, over, cutoff)
    BY DEF Cas!Settle, Cas!Atomic!Settle, Settle, Cas!Gone, Cas!Atomic!Gone, Gone
  <1>10. Cas!Drop(q, c, s) = Drop(q, c, s) /\ Cas!Atomic!Drop(q, c, s) = Drop(q, c, s)
    BY <1>2, <1>3 DEF Cas!Drop, Cas!Atomic!Drop, Drop
  <1>11. Cas!Forget(q, c) = Forget(q, c) /\ Cas!Atomic!Forget(q, c) = Forget(q, c)
    BY <1>3 DEF Cas!Forget, Cas!Atomic!Forget, Forget
  <1> QED BY <1>5, <1>6, <1>7, <1>8, <1>9, <1>10, <1>11

\* What an operation carries, by its name.
LEMMA OpShape ==
    ASSUME NEW op \in Cas!Op
    PROVE  \/ op.do \in {"add", "take", "remove", "put_back"} /\ op.entry \in Cas!Entry
           \/ op.do = "started" /\ op.entry \in Cas!Entry /\ op.at \in Moments
           \/ /\ op.do = "settle"
              /\ op.names \in SUBSET Single
              /\ op.ended \in [Single -> Moments]
              /\ op.cutoff \in Moments
           \/ op.do = "drop" /\ op.collection \in Single /\ op.sweep \in Sweeps
           \/ op.do = "forget" /\ op.collection \in Single
  BY DEF Cas!Op

\* The change an operation makes, in the operators of the record.
LEMMA ChangeIs ==
    ASSUME NEW q, NEW op
    PROVE  /\ op.do = "add" => Cas!Change(q, op) = Add(q, op.entry)
           /\ op.do \in {"take", "remove"} =>
                 Cas!Change(q, op) = IF op.entry \in q.waiting THEN Take(q, op.entry) ELSE q
           /\ op.do = "put_back" => Cas!Change(q, op) = PutBack(q, op.entry)
           /\ op.do = "started" => Cas!Change(q, op) = Started(q, op.entry, op.at)
           /\ op.do = "settle" => Cas!Change(q, op) = Settle(q, op.names, op.ended, op.cutoff)
           /\ op.do = "drop" => Cas!Change(q, op) = Drop(q, op.collection, op.sweep)
           /\ op.do = "forget" => Cas!Change(q, op) = Forget(q, op.collection)
  BY SameOperators DEF Cas!Change

\* The ids a record speaks of.
KnownIds(q) == IdsOf(q.waiting) \cup RunIds(q)

CasQueue == Cas!Atomic!Queue

\* The fields of what filtering and inserting return, and that it is a record again.
LEMMA CasFilter ==
    ASSUME NEW q \in CasQueue, NEW W \in SUBSET q.waiting
    PROVE  /\ OnlyWaiting(q, W) \in CasQueue
           /\ OnlyWaiting(q, W).waiting = W
           /\ OnlyWaiting(q, W).running = q.running
  BY DEF OnlyWaiting, CasQueue, Cas!Atomic!Queue

LEMMA CasInsert ==
    ASSUME NEW q \in CasQueue, NEW e \in Cas!Entry
    PROVE  /\ AtEnd(q, e) \in CasQueue
           /\ AtEnd(q, e).waiting = q.waiting \cup {e} /\ AtEnd(q, e).running = q.running
           /\ AtFront(q, e) \in CasQueue
           /\ AtFront(q, e).waiting = q.waiting \cup {e} /\ AtFront(q, e).running = q.running
  <1> DEFINE L == IdsOf(q.waiting) \X {e.id}
             R == {e.id} \X IdsOf(q.waiting)
  <1>1. e.id \in Pair /\ IdsOf(q.waiting) \in SUBSET Pair
    BY DEF CasQueue, Cas!Atomic!Queue, Cas!Entry, Cas!Atomic!Entry, IdsOf
  <1>2. L \in SUBSET (Pair \X Pair) /\ R \in SUBSET (Pair \X Pair)
    BY <1>1
  <1>3. /\ AtEnd(q, e) = [q EXCEPT !.waiting = @ \cup {e}, !.ahead = @ \cup L]
        /\ AtFront(q, e) = [q EXCEPT !.waiting = @ \cup {e}, !.ahead = @ \cup R]
    BY DEF AtEnd, AtFront
  <1> HIDE DEF L, R
  <1>4. q.waiting \cup {e} \in SUBSET Cas!Atomic!Entry
    BY DEF CasQueue, Cas!Atomic!Queue, Cas!Entry
  <1>5. /\ AtEnd(q, e) \in CasQueue
        /\ AtEnd(q, e).waiting = q.waiting \cup {e} /\ AtEnd(q, e).running = q.running
    BY <1>2, <1>3, <1>4 DEF CasQueue, Cas!Atomic!Queue
  <1>6. /\ AtFront(q, e) \in CasQueue
        /\ AtFront(q, e).waiting = q.waiting \cup {e} /\ AtFront(q, e).running = q.running
    BY <1>2, <1>3, <1>4 DEF CasQueue, Cas!Atomic!Queue
  <1> QED BY <1>5, <1>6

\* An operation makes a record of a record, and the ids it brings in are its entry's own.
LEMMA ChangeTyped ==
    ASSUME NEW q \in CasQueue, NEW op \in Cas!Op
    PROVE  /\ Cas!Change(q, op) \in CasQueue
           /\ op.do \in {"add", "put_back", "started"} =>
                 KnownIds(Cas!Change(q, op)) \in SUBSET (KnownIds(q) \cup {op.entry.id})
           /\ op.do \notin {"add", "put_back", "started"} =>
                 KnownIds(Cas!Change(q, op)) \in SUBSET KnownIds(q)
  <1>1. ASSUME NEW W \in SUBSET q.waiting, NEW S \in SUBSET q.running,
               NEW o \in CasQueue, o.waiting = W, o.running = S
        PROVE  KnownIds(o) \in SUBSET KnownIds(q)
    BY <1>1 DEF KnownIds, IdsOf, RunIds
  <1>2. ASSUME NEW e, NEW o \in CasQueue, o.waiting \in SUBSET (q.waiting \cup {e}),
               o.running = q.running
        PROVE  KnownIds(o) \in SUBSET (KnownIds(q) \cup {e.id})
    BY <1>2 DEF KnownIds, IdsOf, RunIds
  <1>3. CASE op.do = "add" /\ op.entry \in Cas!Entry
    <2>1. Cas!Change(q, op) = Add(q, op.entry)
      BY <1>3, ChangeIs
    <2>2. Add(q, op.entry) \in {q, AtEnd(q, op.entry)}
      BY DEF Add
    <2>3. /\ Cas!Change(q, op) \in CasQueue
          /\ Cas!Change(q, op).waiting \in SUBSET (q.waiting \cup {op.entry})
          /\ Cas!Change(q, op).running = q.running
      BY <1>3, <2>1, <2>2, CasInsert
    <2> QED BY <1>2, <1>3, <2>3
  <1>4. CASE op.do \in {"take", "remove"} /\ op.entry \in Cas!Entry
    <2>1. Cas!Change(q, op) = q \/ Cas!Change(q, op) = OnlyWaiting(q, q.waiting \ {op.entry})
      BY <1>4, ChangeIs DEF Take
    <2>2. /\ Cas!Change(q, op) \in CasQueue
          /\ Cas!Change(q, op).waiting \in SUBSET q.waiting
          /\ Cas!Change(q, op).running = q.running
      BY <2>1, CasFilter
    <2> QED BY <1>1, <1>4, <2>2
  <1>5. CASE op.do = "put_back" /\ op.entry \in Cas!Entry
    <2> DEFINE e == op.entry
               W == IF e.named THEN q.waiting
                    ELSE q.waiting \ Plain(q.waiting, e.collection, e.sweep)
               o == OnlyWaiting(q, W)
    <2>1. Cas!Change(q, op) = q \/ Cas!Change(q, op) = AtFront(o, e)
      BY <1>5, ChangeIs DEF PutBack
    <2>2. W \in SUBSET q.waiting
      OBVIOUS
    <2> HIDE DEF W
    <2>3. o \in CasQueue /\ o.waiting \in SUBSET q.waiting /\ o.running = q.running
      BY <2>2, CasFilter
    <2> HIDE DEF o
    <2>4. /\ Cas!Change(q, op) \in CasQueue
          /\ Cas!Change(q, op).waiting \in SUBSET (q.waiting \cup {op.entry})
          /\ Cas!Change(q, op).running = q.running
      BY <1>5, <2>1, <2>3, CasInsert
    <2> QED BY <1>2, <1>5, <2>4
  <1>6. CASE op.do = "started" /\ op.entry \in Cas!Entry /\ op.at \in Moments
    <2> DEFINE r == [entry |-> op.entry, at |-> op.at]
               o == Cas!Change(q, op)
    <2>1. r \in Cas!Atomic!Run /\ r.entry = op.entry
      BY <1>6 DEF Cas!Atomic!Run, Cas!Entry
    <2>2. o = [q EXCEPT !.running = @ \cup {r}]
      BY <1>6, ChangeIs DEF Started
    <2> HIDE DEF r, o
    <2>3. o \in CasQueue /\ o.waiting = q.waiting /\ o.running = q.running \cup {r}
      BY <2>1, <2>2 DEF CasQueue, Cas!Atomic!Queue
    <2>4. KnownIds(o) \in SUBSET (KnownIds(q) \cup {op.entry.id})
      BY <2>1, <2>3 DEF KnownIds, IdsOf, RunIds
    <2> QED BY <1>6, <2>3, <2>4 DEF o
  <1>7. CASE op.do = "settle"
    <2> DEFINE S == {r \in q.running : ~Gone(r, op.names, op.ended, op.cutoff)}
               o == Cas!Change(q, op)
    <2>1. o = [q EXCEPT !.running = S] /\ S \in SUBSET q.running
      BY <1>7, ChangeIs DEF Settle
    <2> HIDE DEF S, o
    <2>2. o \in CasQueue /\ o.waiting = q.waiting /\ o.running = S
      BY <2>1 DEF CasQueue, Cas!Atomic!Queue
    <2>3. KnownIds(o) \in SUBSET KnownIds(q)
      BY <1>1, <2>1, <2>2
    <2> QED BY <1>7, <2>2, <2>3 DEF o
  <1>8. CASE op.do = "drop"
    <2>1. Cas!Change(q, op) =
             OnlyWaiting(q, q.waiting \ Plain(q.waiting, op.collection, op.sweep))
      BY <1>8, ChangeIs DEF Drop
    <2>2. /\ Cas!Change(q, op) \in CasQueue
          /\ Cas!Change(q, op).waiting \in SUBSET q.waiting
          /\ Cas!Change(q, op).running = q.running
      BY <2>1, CasFilter
    <2> QED BY <1>1, <1>8, <2>2
  <1>9. CASE op.do = "forget"
    <2> DEFINE o == OnlyWaiting(q, {e \in q.waiting : e.collection # op.collection})
               S == {r \in o.running : r.entry.collection # op.collection}
               n == Cas!Change(q, op)
    <2>1. n = [o EXCEPT !.running = S]
      BY <1>9, ChangeIs DEF Forget
    <2>2. o \in CasQueue /\ o.waiting \in SUBSET q.waiting /\ o.running = q.running
      BY CasFilter
    <2>3. S \in SUBSET q.running
      BY <2>2
    <2> HIDE DEF S, o, n
    <2>4. n \in CasQueue /\ n.waiting = o.waiting /\ n.running = S
      BY <2>1, <2>2, <2>3 DEF CasQueue, Cas!Atomic!Queue
    <2>5. KnownIds(n) \in SUBSET KnownIds(q)
      BY <1>1, <2>2, <2>3, <2>4
    <2> QED BY <1>9, <2>4, <2>5 DEF n
  <1> QED BY <1>3, <1>4, <1>5, <1>6, <1>7, <1>8, <1>9, OpShape

\* What is stored and in hand is typed, and what a caller is in the middle of still fits
\* its hand: what it puts back or notes it holds, what it takes it has room for, and what
\* it adds bears an id of its own.
Fits(p, c) ==
    /\ c.op.do \in {"put_back", "started"} => c.op.entry \in casHand[p]
    /\ c.op.do = "take" => casHand[p] = {}
    /\ c.op.do = "add" => c.op.entry.id \notin Cas!Atomic!InUse

OwnId ==
    \A p, o \in Procs : \A c \in casCall[p], d \in casCall[o] :
       c.op.do = "add" /\ d.op.do = "add" /\ c.op.entry.id = d.op.entry.id => p = o

CasInv ==
    /\ Cas!TypeOK
    /\ \A p \in Procs : \A c \in casCall[p] : Fits(p, c)
    /\ OwnId
    /\ casCall = [p \in Procs |-> casCall[p]]

\* The ids in use, in the operators of the record.
LEMMA InUseIs ==
    Cas!Atomic!InUse = KnownIds(casQueue) \cup (UNION {IdsOf(casHand[p]) : p \in Procs})
  BY DEF Cas!Atomic!InUse, Cas!Atomic!IdsOf, Cas!Atomic!RunIds, KnownIds, IdsOf, RunIds

\* What the caller holds after an operation.
LEMMA HandAfterIs ==
    ASSUME NEW p, NEW op, NEW q
    PROVE  /\ op.do = "take" =>
                 Cas!HandAfter(p, op, q) = [casHand EXCEPT ![p] = {op.entry} \cap q.waiting]
           /\ op.do \in {"put_back", "started"} =>
                 Cas!HandAfter(p, op, q) = [casHand EXCEPT ![p] = {}]
           /\ op.do \notin {"take", "put_back", "started"} => Cas!HandAfter(p, op, q) = casHand
  BY DEF Cas!HandAfter

LEMMA CasInitInv == Cas!Init => CasInv
  <1> SUFFICES ASSUME Cas!Init PROVE CasInv
    OBVIOUS
  <1>1. casQueue = [waiting |-> {}, ahead |-> {}, running |-> {}]
        /\ casHand = [p \in Procs |-> {}] /\ casCall = [p \in Procs |-> {}]
    BY DEF Cas!Init, Cas!Atomic!Init, Cas!Atomic!Empty
  <1>2. Cas!TypeOK
    BY <1>1 DEF Cas!TypeOK, Cas!Atomic!TypeOK, Cas!Atomic!Queue
  <1> QED BY <1>1, <1>2 DEF CasInv, OwnId

\* The caller p is done with c: what it holds shrinks, or it has taken c's entry out.
LEMMA CallEnds ==
    ASSUME CasInv, NEW p \in Procs, NEW c \in casCall[p],
           casCall' = [casCall EXCEPT ![p] = {}],
           casQueue' \in CasQueue,
           \/ KnownIds(casQueue') \in SUBSET Cas!Atomic!InUse
           \/ /\ c.op.do = "add"
              /\ KnownIds(casQueue') \in SUBSET (KnownIds(casQueue) \cup {c.op.entry.id}),
           NEW h \in SUBSET (casHand[p] \cup casQueue.waiting),
           casHand' = [casHand EXCEPT ![p] = h]
    PROVE  CasInv'
  <1>t. /\ casQueue \in CasQueue /\ casHand \in [Procs -> SUBSET Cas!Atomic!Entry]
        /\ \A o \in Procs : /\ casCall[o] \subseteq [op : Cas!Op, raw : CasQueue, tries : 1..RETRIES]
                            /\ \A d, e \in casCall[o] : d = e
    BY DEF CasInv, Cas!TypeOK, Cas!Atomic!TypeOK, CasQueue
  <1>c. casCall'[p] = {} /\ \A o \in Procs \ {p} : casCall'[o] = casCall[o]
    BY DEF CasInv
  <1>h. casHand'[p] = h /\ \A o \in Procs \ {p} : casHand'[o] = casHand[o]
    BY <1>t
  <1>1. h \in SUBSET Cas!Atomic!Entry
    BY <1>t DEF CasQueue, Cas!Atomic!Queue
  <1>2. Cas!TypeOK'
    <2>1. casHand' \in [Procs -> SUBSET Cas!Atomic!Entry]
      BY <1>t, <1>1
    <2>2. \A o \in Procs : /\ casCall'[o] \subseteq [op : Cas!Op, raw : CasQueue, tries : 1..RETRIES]
                           /\ \A d, e \in casCall'[o] : d = e
      BY <1>t, <1>c
    <2> QED BY <2>1, <2>2 DEF Cas!TypeOK, Cas!Atomic!TypeOK, CasQueue
  <1>3. Cas!Atomic!InUse' \in SUBSET (Cas!Atomic!InUse \cup {c.op.entry.id})
        /\ (c.op.do # "add" => Cas!Atomic!InUse' \in SUBSET Cas!Atomic!InUse)
    <2>1. IdsOf(h) \in SUBSET Cas!Atomic!InUse
      BY InUseIs DEF IdsOf, KnownIds
    <2>2. \A o \in Procs : IdsOf(casHand'[o]) \in SUBSET Cas!Atomic!InUse
      BY <1>h, <2>1, InUseIs
    <2>3. Cas!Atomic!InUse' =
             KnownIds(casQueue') \cup (UNION {IdsOf(casHand'[o]) : o \in Procs})
      BY DEF Cas!Atomic!InUse, Cas!Atomic!IdsOf, Cas!Atomic!RunIds, KnownIds, IdsOf, RunIds
    <2>4. (UNION {IdsOf(casHand'[o]) : o \in Procs}) \in SUBSET Cas!Atomic!InUse
      BY <2>2
    <2>5. KnownIds(casQueue) \in SUBSET Cas!Atomic!InUse
      BY InUseIs
    <2> QED BY <2>3, <2>4, <2>5
  <1>4. ASSUME NEW o \in Procs, NEW d \in casCall'[o] PROVE Fits(o, d)'
    <2>1. o # p /\ d \in casCall[o] /\ casHand'[o] = casHand[o]
      BY <1>4, <1>c, <1>h
    <2>2. Fits(o, d)
      BY <2>1 DEF CasInv
    <2>3. d.op.do = "add" => d.op.entry.id \notin Cas!Atomic!InUse'
      <3>1. c.op.do = "add" /\ d.op.do = "add" => c.op.entry.id # d.op.entry.id
        BY <2>1 DEF CasInv, OwnId
      <3> QED BY <1>3, <2>2, <3>1 DEF Fits
    <2> QED BY <2>1, <2>2, <2>3 DEF Fits
  <1>5. OwnId'
    BY <1>c DEF CasInv, OwnId
  <1>6. (casCall = [o \in Procs |-> casCall[o]])'
    BY DEF CasInv
  <1> QED BY <1>2, <1>4, <1>5, <1>6 DEF CasInv

\* The record and the hands stand still while p reads, for the first time or again.
LEMMA CallReads ==
    ASSUME CasInv, NEW p \in Procs, NEW op \in Cas!Op,
           NEW c \in [op : Cas!Op, raw : CasQueue, tries : 1..RETRIES], c.op = op,
           casCall' = [casCall EXCEPT ![p] = {c}],
           casQueue' = casQueue, casHand' = casHand,
           op.do \in {"put_back", "started"} => op.entry \in casHand[p],
           op.do = "take" => casHand[p] = {},
           op.do = "add" => /\ op.entry.id \notin Cas!Atomic!InUse
                            /\ \A o \in Procs \ {p} : \A d \in casCall[o] :
                                  d.op.do = "add" => d.op.entry.id # op.entry.id
    PROVE  CasInv'
  <1>0. c.op = op /\ c \in [op : Cas!Op, raw : CasQueue, tries : 1..RETRIES]
    OBVIOUS
  <1>c. casCall'[p] = {c} /\ \A o \in Procs \ {p} : casCall'[o] = casCall[o]
    BY DEF CasInv
  <1>1. Cas!TypeOK'
    <2>1. \A o \in Procs : /\ casCall'[o] \subseteq [op : Cas!Op, raw : CasQueue, tries : 1..RETRIES]
                           /\ \A d, e \in casCall'[o] : d = e
      BY <1>0, <1>c DEF CasInv, Cas!TypeOK, CasQueue
    <2> QED BY <2>1 DEF CasInv, Cas!TypeOK, Cas!Atomic!TypeOK, CasQueue
  <1>2. Cas!Atomic!InUse' = Cas!Atomic!InUse
    BY DEF Cas!Atomic!InUse, Cas!Atomic!IdsOf, Cas!Atomic!RunIds
  <1>3. ASSUME NEW o \in Procs, NEW d \in casCall'[o] PROVE Fits(o, d)'
    <2>1. CASE o = p
      <3>1. d = c
        BY <1>c, <1>3, <2>1
      <3> QED BY <1>0, <1>2, <2>1, <3>1 DEF Fits
    <2>2. CASE o # p
      <3>1. Fits(o, d)
        BY <1>c, <1>3, <2>2 DEF CasInv
      <3> QED BY <1>2, <3>1 DEF Fits
    <2> QED BY <2>1, <2>2
  <1>4. OwnId'
    BY <1>0, <1>c DEF CasInv, OwnId
  <1>5. (casCall = [o \in Procs |-> casCall[o]])'
    BY DEF CasInv
  <1> QED BY <1>1, <1>3, <1>4, <1>5 DEF CasInv

\* A caller that is in no call lets go of what it holds.
LEMMA HandEmptied ==
    ASSUME CasInv, NEW p \in Procs, casCall[p] = {}, casCall' = casCall,
           casQueue' = casQueue, casHand' = [casHand EXCEPT ![p] = {}]
    PROVE  CasInv'
  <1>t. casHand \in [Procs -> SUBSET Cas!Atomic!Entry]
    BY DEF CasInv, Cas!TypeOK, Cas!Atomic!TypeOK
  <1>1. Cas!TypeOK'
    BY <1>t DEF CasInv, Cas!TypeOK, Cas!Atomic!TypeOK
  <1>2. Cas!Atomic!InUse' \in SUBSET Cas!Atomic!InUse
    <2>1. \A o \in Procs : IdsOf(casHand'[o]) \in SUBSET IdsOf(casHand[o])
      BY <1>t DEF IdsOf
    <2>2. Cas!Atomic!InUse' =
             KnownIds(casQueue) \cup (UNION {IdsOf(casHand'[o]) : o \in Procs})
      BY DEF Cas!Atomic!InUse, Cas!Atomic!IdsOf, Cas!Atomic!RunIds, KnownIds, IdsOf, RunIds
    <2> QED BY <2>1, <2>2, InUseIs
  <1>3. ASSUME NEW o \in Procs, NEW d \in casCall'[o] PROVE Fits(o, d)'
    <2>1. Fits(o, d) /\ o # p /\ casHand'[o] = casHand[o]
      BY <1>t, <1>3 DEF CasInv
    <2> QED BY <1>2, <2>1 DEF Fits
  <1> QED BY <1>1, <1>3 DEF CasInv, OwnId

LEMMA CasStutters ==
    ASSUME CasInv, casQueue' = casQueue, casHand' = casHand, casCall' = casCall
    PROVE  CasInv'
  <1>1. Cas!TypeOK'
    BY DEF CasInv, Cas!TypeOK, Cas!Atomic!TypeOK
  <1>2. Cas!Atomic!InUse' = Cas!Atomic!InUse
    BY DEF Cas!Atomic!InUse, Cas!Atomic!IdsOf, Cas!Atomic!RunIds
  <1> QED BY <1>1, <1>2 DEF CasInv, Fits, OwnId

\* Every step of the callers keeps the invariant, and is a step of the queue's callers or
\* changes nothing they can see.
LEMMA CasNextInv ==
    ASSUME CasInv, Cas!Next, Cas!CasAssumption
    PROVE  CasInv' /\ (Cas!Atomic!Next \/ UNCHANGED <<casQueue, casHand>>)
  <1>t. /\ casQueue \in CasQueue /\ casHand \in [Procs -> SUBSET Cas!Atomic!Entry]
        /\ \A o \in Procs : casCall[o] \subseteq [op : Cas!Op, raw : CasQueue, tries : 1..RETRIES]
    BY DEF CasInv, Cas!TypeOK, Cas!Atomic!TypeOK, CasQueue
  <1>n. RETRIES \in Nat \ {0}
    BY DEF Cas!CasAssumption
  <1>k. KnownIds(casQueue) \in SUBSET Cas!Atomic!InUse
    BY InUseIs
  <1>g. ASSUME NEW p \in Procs, NEW e \in casHand[p], casHand' = [casHand EXCEPT ![p] = {}],
               casQueue' = casQueue
        PROVE  Cas!Atomic!Next
    BY <1>g DEF Cas!Atomic!Next, Cas!Atomic!GiveUp
  <1>1. ASSUME NEW p \in Procs, NEW op \in Cas!Op, Cas!Begin(p, op)
        PROVE  CasInv' /\ UNCHANGED <<casQueue, casHand>>
    <2>1. /\ op.do \in {"put_back", "started"} => op.entry \in casHand[p]
          /\ op.do = "take" => casHand[p] = {}
          /\ op.do = "add" => /\ op.entry.id \notin Cas!Atomic!InUse
                              /\ \A o \in Procs \ {p} : \A d \in casCall[o] :
                                    d.op.do = "add" => d.op.entry.id # op.entry.id
      BY <1>1 DEF Cas!Begin, Cas!May
    <2> DEFINE n == 1
               d == [op |-> op, raw |-> casQueue, tries |-> n]
    <2>2. n \in 1..RETRIES /\ casCall' = [casCall EXCEPT ![p] = {d}]
      BY <1>n, <1>1 DEF Cas!Begin
    <2> HIDE DEF n
    <2>3. d \in [op : Cas!Op, raw : CasQueue, tries : 1..RETRIES] /\ d.op = op
      BY <1>t, <2>2
    <2> HIDE DEF d
    <2> QED BY <1>1, <2>1, <2>2, <2>3, CallReads DEF Cas!Begin
  <1>2. ASSUME NEW p \in Procs, NEW c \in casCall[p], Cas!Retry(p, c)
        PROVE  CasInv' /\ UNCHANGED <<casQueue, casHand>>
    <2>1. Fits(p, c) /\ c.op \in Cas!Op /\ c.tries \in 1..RETRIES
      BY <1>t DEF CasInv
    <2>2. c.tries + 1 \in 1..RETRIES
      BY <1>n, <1>2, <2>1 DEF Cas!Retry
    <2> DEFINE n == c.tries + 1
               d == [c EXCEPT !.raw = casQueue, !.tries = n]
    <2>n. n \in 1..RETRIES /\ casCall' = [casCall EXCEPT ![p] = {d}]
      BY <1>2, <2>2 DEF Cas!Retry
    <2> HIDE DEF n
    <2>3. d \in [op : Cas!Op, raw : CasQueue, tries : 1..RETRIES] /\ d.op = c.op
      <3>1. c \in [op : Cas!Op, raw : CasQueue, tries : 1..RETRIES]
        BY <1>t
      <3> QED BY <1>t, <2>n, <3>1
    <2> HIDE DEF d
    <2>4. c.op.do = "add" => \A o \in Procs \ {p} : \A b \in casCall[o] :
                                b.op.do = "add" => b.op.entry.id # c.op.entry.id
      BY DEF CasInv, OwnId
    <2> QED BY <1>2, <2>1, <2>n, <2>3, <2>4, CallReads DEF Cas!Retry, Fits
  <1>3. ASSUME NEW p \in Procs, NEW c \in casCall[p], Cas!Unchanged(p, c)
        PROVE  CasInv' /\ (Cas!Atomic!Next \/ UNCHANGED <<casQueue, casHand>>)
    <2>1. Fits(p, c) /\ c.op \in Cas!Op /\ c.raw \in CasQueue
      BY <1>t DEF CasInv
    <2>2. CASE c.op.do = "take"
      <3>1. c.op.entry \notin c.raw.waiting
        <4> SUFFICES ASSUME c.op.entry \in c.raw.waiting PROVE FALSE
          OBVIOUS
        <4>1. Cas!Change(c.raw, c.op) = OnlyWaiting(c.raw, c.raw.waiting \ {c.op.entry})
          BY <2>2, ChangeIs DEF Take
        <4>2. Cas!Change(c.raw, c.op).waiting = c.raw.waiting \ {c.op.entry}
          BY <2>1, <4>1, CasFilter
        <4> QED BY <1>3, <4>2 DEF Cas!Unchanged
      <3>2. casHand' = [casHand EXCEPT ![p] = {}]
        <4>1. {c.op.entry} \cap c.raw.waiting = {}
          BY <3>1
        <4>2. casHand' = [casHand EXCEPT ![p] = {c.op.entry} \cap c.raw.waiting]
          <5>1. casHand' = Cas!HandAfter(p, c.op, c.raw)
            BY <1>3 DEF Cas!Unchanged
          <5> QED BY <2>2, <5>1 DEF Cas!HandAfter
        <4> QED BY <4>1, <4>2
      <3>3. casHand' = casHand
        BY <1>t, <2>1, <2>2, <3>2 DEF Fits
      <3> QED BY <1>3, <1>k, <1>t, <3>2, <3>3, CallEnds DEF Cas!Unchanged
    <2>3. CASE c.op.do \in {"put_back", "started"}
      <3>1. casHand' = [casHand EXCEPT ![p] = {}]
        BY <1>3, <2>3, HandAfterIs DEF Cas!Unchanged
      <3>2. Cas!Atomic!Next
        BY <1>3, <1>g, <2>1, <2>3, <3>1 DEF Cas!Unchanged, Fits
      <3> QED BY <1>3, <1>k, <1>t, <3>1, <3>2, CallEnds DEF Cas!Unchanged
    <2>4. CASE c.op.do \notin {"take", "put_back", "started"}
      <3>1. casHand' = casHand /\ casHand' = [casHand EXCEPT ![p] = casHand[p]]
        BY <1>3, <1>t, <2>4, HandAfterIs DEF Cas!Unchanged
      <3> QED BY <1>3, <1>k, <1>t, <3>1, CallEnds DEF Cas!Unchanged
    <2> QED BY <2>2, <2>3, <2>4
  <1>4. ASSUME NEW p \in Procs, NEW c \in casCall[p], Cas!Write(p, c)
        PROVE  CasInv' /\ Cas!Atomic!Next
    <2>1. Fits(p, c) /\ c.op \in Cas!Op /\ c.raw = casQueue
      BY <1>4, <1>t DEF CasInv, Cas!Write
    <2> DEFINE op == c.op
    <2>2. /\ casQueue' = Cas!Change(casQueue, op)
          /\ casQueue' # casQueue
          /\ casHand' = Cas!HandAfter(p, op, casQueue)
          /\ casCall' = [casCall EXCEPT ![p] = {}]
      BY <1>4, <2>1 DEF Cas!Write
    <2>3. /\ casQueue' \in CasQueue
          /\ op.do \in {"add", "put_back", "started"} =>
                KnownIds(casQueue') \in SUBSET (KnownIds(casQueue) \cup {op.entry.id})
          /\ op.do \notin {"add", "put_back", "started"} =>
                KnownIds(casQueue') \in SUBSET KnownIds(casQueue)
      BY <1>t, <2>1, <2>2, ChangeTyped
    <2> HIDE DEF op
    <2>o. op \in Cas!Op /\ op = c.op
      BY <2>1 DEF op
    <2>h. casHand = [casHand EXCEPT ![p] = casHand[p]]
      BY <1>t
    <2>4. CASE op.do = "add" /\ op.entry \in Cas!Entry
      <3>1. casQueue' = Cas!Atomic!Add(casQueue, op.entry) /\ casHand' = casHand
        BY <2>2, <2>4, ChangeIs, HandAfterIs, SameOperators
      <3>2. Cas!Atomic!Push(op.entry)
        BY <2>1, <2>4, <2>o, <3>1 DEF Cas!Atomic!Push, Fits
      <3>3. Cas!Atomic!Next
        BY <2>4, <3>2 DEF Cas!Atomic!Next, Cas!Entry
      <3> QED BY <2>2, <2>3, <2>4, <2>o, <2>h, <3>1, <3>3, CallEnds
    <2>5. CASE op.do = "take" /\ op.entry \in Cas!Entry
      <3>1. op.entry \in casQueue.waiting /\ casQueue' = Cas!Atomic!Take(casQueue, op.entry)
        BY <2>2, <2>5, ChangeIs, SameOperators
      <3>2. casHand' = [casHand EXCEPT ![p] = {op.entry}]
        BY <2>2, <2>5, <3>1, HandAfterIs
      <3>3. Cas!Atomic!TakeOut(p, op.entry)
        BY <2>1, <2>5, <2>o, <3>1, <3>2 DEF Cas!Atomic!TakeOut, Fits
      <3>4. Cas!Atomic!Next
        BY <3>1, <3>3 DEF Cas!Atomic!Next
      <3> QED BY <1>k, <2>2, <2>3, <2>5, <3>1, <3>2, <3>4, CallEnds
    <2>6. CASE op.do = "remove" /\ op.entry \in Cas!Entry
      <3>1. /\ op.entry \in casQueue.waiting
            /\ casQueue' = Cas!Atomic!Take(casQueue, op.entry)
            /\ casHand' = casHand
        BY <2>2, <2>6, ChangeIs, HandAfterIs, SameOperators
      <3>2. Cas!Atomic!Next
        BY <3>1 DEF Cas!Atomic!Next, Cas!Atomic!Remove
      <3> QED BY <1>k, <2>2, <2>3, <2>6, <2>h, <3>1, <3>2, CallEnds
    <2>7. CASE op.do = "put_back" /\ op.entry \in Cas!Entry
      <3>1. /\ casQueue' = Cas!Atomic!PutBack(casQueue, op.entry)
            /\ casHand' = [casHand EXCEPT ![p] = {}]
            /\ op.entry \in casHand[p]
        <4>1. casQueue' = Cas!Atomic!PutBack(casQueue, op.entry)
          BY <2>2, <2>7, ChangeIs, SameOperators
        <4>2. casHand' = [casHand EXCEPT ![p] = {}]
          BY <2>2, <2>7, HandAfterIs
        <4>3. op.entry \in casHand[p]
          BY <2>1, <2>7, <2>o DEF Fits
        <4> QED BY <4>1, <4>2, <4>3
      <3>2. Cas!Atomic!Next
        BY <3>1 DEF Cas!Atomic!Next, Cas!Atomic!Return
      <3>3. KnownIds(casQueue') \in SUBSET Cas!Atomic!InUse
        BY <2>3, <2>7, <3>1, InUseIs DEF IdsOf
      <3> QED BY <2>2, <2>3, <3>1, <3>2, <3>3, CallEnds
    <2>8. CASE op.do = "started" /\ op.entry \in Cas!Entry /\ op.at \in Moments
      <3>1. /\ casQueue' = Cas!Atomic!Started(casQueue, op.entry, op.at)
            /\ casHand' = [casHand EXCEPT ![p] = {}]
            /\ op.entry \in casHand[p]
        <4>1. casQueue' = Cas!Atomic!Started(casQueue, op.entry, op.at)
          BY <2>2, <2>8, ChangeIs, SameOperators
        <4>2. casHand' = [casHand EXCEPT ![p] = {}]
          BY <2>2, <2>8, HandAfterIs
        <4>3. op.entry \in casHand[p]
          BY <2>1, <2>8, <2>o DEF Fits
        <4> QED BY <4>1, <4>2, <4>3
      <3>2. Cas!Atomic!Next
        BY <2>8, <3>1 DEF Cas!Atomic!Next, Cas!Atomic!NoteStarted
      <3>3. KnownIds(casQueue') \in SUBSET Cas!Atomic!InUse
        BY <2>3, <2>8, <3>1, InUseIs DEF IdsOf
      <3> QED BY <2>2, <2>3, <3>1, <3>2, <3>3, CallEnds
    <2>9. CASE op.do \in {"settle", "drop", "forget"}
      <3>1. casHand' = casHand
        BY <2>2, <2>9, HandAfterIs
      <3>2. CASE op.do = "settle"
        <4>1. /\ op.names \in SUBSET Single /\ op.ended \in [Single -> Moments]
              /\ op.cutoff \in Moments
          BY <2>o, <3>2, OpShape
        <4>2. casQueue' = Cas!Atomic!Settle(casQueue, op.names, op.ended, op.cutoff)
          BY <2>2, <3>2, ChangeIs, SameOperators
        <4> QED BY <3>1, <4>1, <4>2, <1>k, <2>2, <2>3, <2>9, <2>h, CallEnds
                DEF Cas!Atomic!Next, Cas!Atomic!SettleRuns
      <3>3. CASE op.do = "drop"
        <4>1. op.collection \in Single /\ op.sweep \in Sweeps
          BY <2>o, <3>3, OpShape
        <4>2. casQueue' = Cas!Atomic!Drop(casQueue, op.collection, op.sweep)
          BY <2>2, <3>3, ChangeIs, SameOperators
        <4> QED BY <3>1, <4>1, <4>2, <1>k, <2>2, <2>3, <2>9, <2>h, CallEnds
                DEF Cas!Atomic!Next, Cas!Atomic!DropPair
      <3>4. CASE op.do = "forget"
        <4>1. op.collection \in Single
          BY <2>o, <3>4, OpShape
        <4>2. casQueue' = Cas!Atomic!Forget(casQueue, op.collection)
          BY <2>2, <3>4, ChangeIs, SameOperators
        <4> QED BY <3>1, <4>1, <4>2, <1>k, <2>2, <2>3, <2>9, <2>h, CallEnds
                DEF Cas!Atomic!Next, Cas!Atomic!ForgetCollection
      <3> QED BY <2>9, <3>2, <3>3, <3>4
    <2> QED BY <2>4, <2>5, <2>6, <2>7, <2>8, <2>9, <2>o, OpShape
  <1>5. ASSUME NEW p \in Procs, NEW c \in casCall[p], Cas!Raise(p, c)
        PROVE  CasInv' /\ (Cas!Atomic!Next \/ UNCHANGED <<casQueue, casHand>>)
    <2>1. Fits(p, c)
      BY DEF CasInv
    <2>2. CASE c.op.do \in {"put_back", "started"}
      <3>1. casHand' = [casHand EXCEPT ![p] = {}] /\ casQueue' = casQueue
        BY <1>5, <2>2 DEF Cas!Raise
      <3>2. Cas!Atomic!Next
        BY <1>g, <2>1, <2>2, <3>1 DEF Fits
      <3> QED BY <1>5, <1>k, <1>t, <3>1, <3>2, CallEnds DEF Cas!Raise
    <2>3. CASE c.op.do \notin {"put_back", "started"}
      <3>1. casHand' = casHand /\ casHand' = [casHand EXCEPT ![p] = casHand[p]]
            /\ casQueue' = casQueue
        BY <1>5, <1>t, <2>3 DEF Cas!Raise
      <3> QED BY <1>5, <1>k, <1>t, <3>1, CallEnds DEF Cas!Raise
    <2> QED BY <2>2, <2>3
  <1>6. ASSUME NEW p \in Procs, Cas!Abandon(p)
        PROVE  CasInv' /\ (Cas!Atomic!Next \/ UNCHANGED <<casQueue, casHand>>)
    <2>1. /\ casHand' = [casHand EXCEPT ![p] = {}] /\ casQueue' = casQueue
          /\ casCall' = [casCall EXCEPT ![p] = {}]
      BY <1>6 DEF Cas!Abandon
    <2>2. Cas!Atomic!Next \/ UNCHANGED <<casQueue, casHand>>
      <3>1. CASE casHand[p] = {}
        BY <1>t, <2>1, <3>1
      <3>2. CASE casHand[p] # {}
        BY <1>g, <2>1, <3>2
      <3> QED BY <3>1, <3>2
    <2>3. CasInv'
      <3>1. CASE casCall[p] = {}
        <4>1. casCall' = casCall
          BY <2>1, <3>1 DEF CasInv
        <4> QED BY <2>1, <3>1, <4>1, HandEmptied
      <3>2. ASSUME NEW c \in casCall[p] PROVE CasInv'
        BY <1>k, <1>t, <2>1, CallEnds
      <3> QED BY <3>1, <3>2
    <2> QED BY <2>2, <2>3
  <1> QED BY <1>1, <1>2, <1>3, <1>4, <1>5, <1>6 DEF Cas!Next

\* Whatever the callers' reads and conditional writes come to, what they see is the atomic
\* operations of the queue (src/app/ingest_queue.py, _mutate): no update is lost, no entry is
\* taken twice, no retry takes effect twice.
THEOREM CallersSeeAtomicQueue ==
    ASSUME CallersAssumption PROVE MCSpec => CasImplementsAtomicQueue
  <1>1. MCInit => CasInv /\ Cas!Atomic!Init
    BY CasInitInv DEF MCInit, Cas!Init
  <1> DEFINE everything == <<machine, allVars, casVars, clockVars, lineVars>>
  <1>2. CasInv /\ [MCNext]_everything =>
           CasInv' /\ [machine = "cas" => Cas!Atomic!Next]_<<casQueue, casHand>>
    <2> SUFFICES ASSUME CasInv, [MCNext]_everything
                 PROVE  /\ CasInv'
                        /\ [machine = "cas" => Cas!Atomic!Next]_<<casQueue, casHand>>
      OBVIOUS
    <2>1. CASE machine = "cas" /\ Cas!Next
      BY <2>1, CallersAssumption, CasNextInv
    <2>2. CASE UNCHANGED casVars
      BY <2>2, CasStutters DEF casVars
    <2>3. (Cas!Next /\ machine = "cas") \/ UNCHANGED casVars
      BY DEF MCNext, casVars
    <2> QED BY <2>1, <2>2, <2>3
  <1>3. CasInv => Cas!TypeOK
    BY DEF CasInv
  <1> QED BY <1>1, <1>2, <1>3, PTL DEF MCSpec, CasImplementsAtomicQueue


-----------------------------------------------------------------------------
\* Which notes `settle` takes out.

TickRun == [collection : Single, id : Pair \cup {NoEntry}, since : Nat]

TickNote == [entry : [id : Pair, collection : Single], at : Nat]

ClockTick ==
    [at : {"asleep", "fetched", "settling", "serving", "noting"}, names : SUBSET Single,
     ended : [Single -> Nat], now : Nat, from : Nat, entry : Pair \cup {NoEntry},
     collection : Single \cup {NoEntry}]

ClockTyped ==
    /\ time \in Nat
    /\ noted = [waiting |-> {}, ahead |-> {}, running |-> noted.running]
    /\ noted.running \in SUBSET TickNote
    /\ going \in SUBSET TickRun
    /\ ended \in [Single -> Nat]
    /\ tick \in [Procs -> ClockTick]

Awake(p) == tick[p].at # "asleep"

\* What has begun, ended and been read lies in the past, and one run of a collection goes
\* on at a time.
PastOnly ==
    /\ \A r \in going : r.since <= time
    /\ \A r, t \in going : r.collection = t.collection => r = t
    /\ \A c \in Single : ended[c] <= time
    /\ \A p \in Procs : Awake(p) =>
          /\ tick[p].from <= time /\ time <= tick[p].from + LAG
          /\ \A c \in Single : tick[p].ended[c] <= tick[p].from
    /\ \A p \in Procs : tick[p].at \in {"settling", "serving", "noting"} =>
          tick[p].from < tick[p].now /\ tick[p].now <= time

\* Of a collection that a tick has not seen running, no run older than the tick goes on,
\* and none has ended since: not in the record, and not in what another tick has read.
NotSeenIsNew ==
    \A p \in Procs : Awake(p) => \A c \in Single \ tick[p].names :
       /\ \A r \in going : r.collection = c => tick[p].from <= r.since
       /\ ended[c] <= tick[p].from
       /\ \A o \in Procs : Awake(o) => tick[o].ended[c] <= tick[p].from

\* The run r was started by a tick that read the clock at `at`: after every end of an
\* earlier run of its collection, and no later than a tick lasts.
BegunAt(r, c, at) ==
    /\ r.collection = c
    /\ at <= r.since /\ r.since <= at + LAG
    /\ ended[c] < at
    /\ \A p \in Procs : Awake(p) => tick[p].ended[c] < at

\* What is noted, or is about to be, and goes on.
NotedInTime ==
    /\ \A n \in noted.running : \A r \in going :
          r.id = n.entry.id => BegunAt(r, n.entry.collection, n.at)
    /\ \A p \in Procs : tick[p].at = "noting" =>
          /\ tick[p].entry \in Pair /\ tick[p].collection \in Single
          /\ \A r \in going :
                r.id = tick[p].entry => BegunAt(r, tick[p].collection, tick[p].now)

ClockInv == ClockTyped /\ PastOnly /\ NotSeenIsNew /\ NotedInTime

LEMMA ClockInitInv ==
    ASSUME Clock!Init PROVE ClockInv
  <1>1. /\ time = 1 /\ noted = [waiting |-> {}, ahead |-> {}, running |-> {}] /\ going = {}
        /\ ended = [c \in Single |-> 0] /\ tick = [p \in Procs |-> Clock!Asleep]
    BY DEF Clock!Init, Clock!Empty
  <1>2. Clock!Asleep \in ClockTick /\ Clock!Asleep.at = "asleep"
    BY DEF Clock!Asleep, ClockTick
  <1>3. ClockTyped
    BY <1>1, <1>2 DEF ClockTyped
  <1>4. \A p \in Procs : tick[p].at = "asleep"
    BY <1>1, <1>2
  <1> QED BY <1>1, <1>3, <1>4 DEF ClockInv, PastOnly, NotSeenIsNew, NotedInTime, Awake

\* Only the tick of p changes, and p does not read the status anew.
LEMMA TickGoesOn ==
    ASSUME ClockInv, NEW p \in Procs, Awake(p), NEW t \in ClockTick,
           tick' = [tick EXCEPT ![p] = t],
           t.names = tick[p].names, t.ended = tick[p].ended, t.from = tick[p].from,
           NEW d \in {0, 1}, time' = time + d,
           \A o \in Procs : Awake(o) => time + d <= tick[o].from + LAG,
           going' = going, ended' = ended,
           noted' = [noted EXCEPT !.running = noted'.running],
           noted'.running \in SUBSET noted.running,
           t.at \in {"settling", "serving"} => tick[p].from < t.now /\ t.now <= time + d,
           t.at # "noting", t.at # "asleep",
           Clock!SettlementAssumption
    PROVE  ClockInv'
  <1>t. ClockTyped
    BY DEF ClockInv
  <1>c. tick'[p] = t /\ \A o \in Procs \ {p} : tick'[o] = tick[o]
    BY <1>t DEF ClockTyped
  <1>a. /\ \A o \in Procs : /\ Awake(o)' => Awake(o)
                            /\ tick'[o].names = tick[o].names
                            /\ tick'[o].ended = tick[o].ended
                            /\ tick'[o].from = tick[o].from
        /\ \A o \in Procs : tick'[o].at = "noting" => tick'[o] = tick[o]
    BY <1>c DEF Awake
  <1>n. time' \in Nat /\ time <= time'
    BY <1>t DEF ClockTyped
  <1>1. ClockTyped'
    BY <1>t, <1>n DEF ClockTyped
  <1>2. PastOnly'
    <2>1. \A r \in going' : r.since <= time'
      BY <1>t, <1>n DEF ClockInv, PastOnly, ClockTyped, TickRun
    <2>2. \A c \in Single : ended'[c] <= time'
      BY <1>t, <1>n DEF ClockInv, PastOnly, ClockTyped
    <2>3. \A o \in Procs : Awake(o)' =>
             /\ tick'[o].from <= time' /\ time' <= tick'[o].from + LAG
             /\ \A c \in Single : tick'[o].ended[c] <= tick'[o].from
      BY <1>t, <1>n, <1>a DEF ClockInv, PastOnly, ClockTyped, ClockTick
    <2>4. \A o \in Procs : tick'[o].at \in {"settling", "serving", "noting"} =>
             tick'[o].from < tick'[o].now /\ tick'[o].now <= time'
      <3>1. ASSUME NEW o \in Procs \ {p}, tick[o].at \in {"settling", "serving", "noting"}
            PROVE  tick[o].from < tick[o].now /\ tick[o].now <= time'
        BY <1>t, <1>n, <3>1 DEF ClockInv, PastOnly, ClockTyped, ClockTick
      <3> QED BY <1>c, <3>1
    <2> QED BY <2>1, <2>2, <2>3, <2>4 DEF ClockInv, PastOnly
  <1>3. NotSeenIsNew'
    BY <1>a DEF ClockInv, NotSeenIsNew
  <1>4. \A r, c, at : BegunAt(r, c, at) => BegunAt(r, c, at)'
    BY <1>a DEF BegunAt
  <1>5. NotedInTime'
    BY <1>a, <1>4 DEF ClockInv, NotedInTime
  <1> QED BY <1>1, <1>2, <1>3, <1>5 DEF ClockInv

\* The tick of p is over or begins, and nothing but it changes.
LEMMA ClockFetches ==
    ASSUME ClockInv, NEW p \in Procs, Clock!Fetch(p), Clock!SettlementAssumption
    PROVE  ClockInv'
  <1>t. ClockTyped
    BY DEF ClockInv
  <1> DEFINE t == tick'[p]
  <1>1. /\ t.at = "fetched" /\ t.names = Clock!Going /\ t.ended = ended /\ t.from = time
        /\ t \in ClockTick
        /\ \A o \in Procs \ {p} : tick'[o] = tick[o]
    <2>1. Clock!Asleep \in ClockTick
      BY DEF Clock!Asleep, ClockTick
    <2>2. Clock!Going \in SUBSET Single
      BY <1>t DEF Clock!Going, ClockTyped, TickRun
    <2>3. tick' = [tick EXCEPT ![p] = [Clock!Asleep EXCEPT !.at = "fetched",
                     !.names = Clock!Going, !.ended = ended, !.from = time]]
      BY DEF Clock!Fetch
    <2> QED BY <1>t, <2>1, <2>2, <2>3 DEF ClockTyped, ClockTick
  <1>2. tick' \in [Procs -> ClockTick]
    BY <1>t, <1>1 DEF ClockTyped, Clock!Fetch
  <1> HIDE DEF t
  <1>u. time' = time /\ noted' = noted /\ going' = going /\ ended' = ended /\ t = tick'[p]
    BY DEF Clock!Fetch, t
  <1>g. \A r \in going : r.collection \in t.names
    BY <1>1 DEF Clock!Going
  <1>3. ClockTyped'
    BY <1>t, <1>2, <1>u DEF ClockTyped
  <1>l. time \in Nat /\ LAG \in Nat /\ time <= time + LAG
    BY <1>t DEF ClockTyped, Clock!SettlementAssumption
  <1>4. PastOnly'
    <2>1. \A o \in Procs \ {p} : tick'[o] = tick[o] /\ (Awake(o)' <=> Awake(o))
      BY <1>1 DEF Awake
    <2>2. /\ t.from <= time /\ time <= t.from + LAG
          /\ \A c \in Single : t.ended[c] <= t.from
      BY <1>1, <1>l DEF ClockInv, PastOnly
    <2> QED BY <1>1, <1>u, <2>1, <2>2 DEF ClockInv, PastOnly
  <1>5. NotSeenIsNew'
    <2> SUFFICES ASSUME NEW q \in Procs, Awake(q)', NEW c \in Single \ tick'[q].names
                 PROVE  /\ \A r \in going : r.collection = c => tick'[q].from <= r.since
                        /\ ended[c] <= tick'[q].from
                        /\ \A o \in Procs : Awake(o)' => tick'[o].ended[c] <= tick'[q].from
      BY <1>u DEF NotSeenIsNew
    <2>1. CASE q = p
      <3>1. ended[c] <= time
        BY DEF ClockInv, PastOnly
      <3>2. ASSUME NEW o \in Procs \ {p}, Awake(o)
            PROVE  tick[o].ended[c] <= time
        BY <1>t, <3>2 DEF ClockInv, PastOnly, ClockTyped, ClockTick
      <3> QED BY <1>1, <1>g, <1>u, <2>1, <3>1, <3>2 DEF Awake
    <2>2. CASE q # p
      <3>1. Awake(q) /\ tick'[q] = tick[q]
        BY <1>1, <2>2 DEF Awake
      <3> QED BY <1>1, <1>u, <3>1 DEF ClockInv, NotSeenIsNew, Awake
    <2> QED BY <2>1, <2>2
  <1>6. \A r \in going, c \in Single : \A at : BegunAt(r, c, at) => BegunAt(r, c, at)'
    BY <1>1, <1>u DEF BegunAt, Awake
  <1>7. NotedInTime'
    <2>1. \A n \in noted.running : n.entry.collection \in Single
      BY <1>t DEF ClockTyped, TickNote
    <2>2. \A o \in Procs : tick'[o].at = "noting" => tick'[o] = tick[o] /\ tick[o].at = "noting"
      BY <1>1, <1>u
    <2> QED BY <1>u, <1>6, <2>1, <2>2 DEF ClockInv, NotedInTime
  <1> QED BY <1>3, <1>4, <1>5, <1>7 DEF ClockInv

\* The tick of p is over; what it was about to note, if anything, is noted.
LEMMA ClockSleeps ==
    ASSUME ClockInv, NEW p \in Procs, tick' = [tick EXCEPT ![p] = Clock!Asleep],
           time' = time, going' = going, ended' = ended,
           noted' = [noted EXCEPT !.running = noted'.running],
           noted'.running \in SUBSET TickNote,
           \A n \in noted'.running \ noted.running :
              /\ tick[p].at = "noting"
              /\ n.entry.id = tick[p].entry /\ n.entry.collection = tick[p].collection
              /\ n.at = tick[p].now
    PROVE  ClockInv'
  <1>t. ClockTyped
    BY DEF ClockInv
  <1>1. Clock!Asleep \in ClockTick /\ Clock!Asleep.at = "asleep"
    BY DEF Clock!Asleep, ClockTick
  <1>2. tick'[p].at = "asleep" /\ \A o \in Procs \ {p} : tick'[o] = tick[o]
    BY <1>t, <1>1 DEF ClockTyped
  <1>3. \A o \in Procs : Awake(o)' => o # p /\ Awake(o) /\ tick'[o] = tick[o]
    BY <1>2 DEF Awake
  <1>4. ClockTyped'
    BY <1>t, <1>1 DEF ClockTyped
  <1>5. PastOnly'
    BY <1>2, <1>3 DEF ClockInv, PastOnly
  <1>6. NotSeenIsNew'
    BY <1>3 DEF ClockInv, NotSeenIsNew
  <1>7. \A r, c, at : BegunAt(r, c, at) => BegunAt(r, c, at)'
    BY <1>3 DEF BegunAt
  <1>8. NotedInTime'
    BY <1>2, <1>7 DEF ClockInv, NotedInTime
  <1> QED BY <1>4, <1>5, <1>6, <1>8 DEF ClockInv

\* A run begins: one that a tick launches under an id of its own, or one nobody notes.
LEMMA ClockLaunches ==
    ASSUME ClockInv, NEW p \in Procs, NEW c \in Single, NEW i \in Pair, Clock!Launch(p, c, i),
           Clock!SettlementAssumption
    PROVE  ClockInv'
  <1>t. ClockTyped
    BY DEF ClockInv
  <1>r. PICK r : r = [collection |-> c, id |-> i, since |-> time]
    OBVIOUS
  <1>n. PICK now : now = tick[p].now
    OBVIOUS
  <1> DEFINE t == tick'[p]
  <1>1. /\ tick[p].at = "serving" /\ c \notin tick[p].names /\ \A x \in going : x.collection # c
        /\ \A n \in noted.running : n.entry.id # i
        /\ \A x \in going : x.id # i
        /\ \A o \in Procs : tick[o].entry # i
        /\ going' = going \cup {r}
        /\ time' = time /\ noted' = noted /\ ended' = ended
    BY <1>r DEF Clock!Launch, Clock!Going
  <1>2. /\ t \in ClockTick /\ t.at = "noting" /\ t.entry = i /\ t.collection = c
        /\ t.names = tick[p].names /\ t.ended = tick[p].ended /\ t.now = tick[p].now
        /\ t.from = tick[p].from
        /\ \A o \in Procs \ {p} : tick'[o] = tick[o]
        /\ tick' \in [Procs -> ClockTick]
    <2>1. tick' = [tick EXCEPT ![p].at = "noting", ![p].entry = i, ![p].collection = c]
      BY DEF Clock!Launch
    <2>2. tick[p] \in ClockTick
      BY <1>t DEF ClockTyped
    <2>3. tick' = [tick EXCEPT ![p] = [tick[p] EXCEPT !.at = "noting", !.entry = i,
                                                      !.collection = c]]
      BY <1>t, <2>1 DEF ClockTyped
    <2> QED BY <1>t, <2>2, <2>3 DEF ClockTyped, ClockTick
  <1>3. r \in TickRun /\ r.collection = c /\ r.id = i /\ r.since = time
    BY <1>t, <1>r DEF TickRun, ClockTyped
  <1>tp. t = tick'[p]
    OBVIOUS
  <1> HIDE DEF t
  <1>a. \A o \in Procs : /\ Awake(o)' <=> Awake(o)
                         /\ tick'[o].names = tick[o].names /\ tick'[o].ended = tick[o].ended
                         /\ tick'[o].from = tick[o].from /\ tick'[o].now = tick[o].now
    BY <1>1, <1>2, <1>tp DEF Awake
  <1>4. ClockTyped'
    BY <1>t, <1>1, <1>2, <1>3 DEF ClockTyped
  <1>l. time \in Nat /\ LAG \in Nat /\ time <= time
    BY <1>t DEF ClockTyped, Clock!SettlementAssumption
  <1>5. PastOnly'
    <2>1. \A o \in Procs : tick'[o].at \in {"settling", "serving", "noting"} =>
                              tick[o].at \in {"settling", "serving", "noting"}
      BY <1>1, <1>2
    <2>2. /\ \A x \in going' : x.since <= time
          /\ \A x, y \in going' : x.collection = y.collection => x = y
      BY <1>1, <1>3, <1>l DEF ClockInv, PastOnly
    <2> QED BY <1>1, <1>a, <2>1, <2>2 DEF ClockInv, PastOnly
  <1>6. NotSeenIsNew'
    <2>1. \A o \in Procs : Awake(o) => tick[o].from <= r.since
      BY <1>3 DEF ClockInv, PastOnly
    <2> QED BY <1>1, <1>a, <2>1 DEF ClockInv, NotSeenIsNew
  <1>7. \A x, d, at : BegunAt(x, d, at) => BegunAt(x, d, at)'
    BY <1>1, <1>a DEF BegunAt
  <1>8. BegunAt(r, c, now)'
    <2>1. Awake(p) /\ tick[p].from < tick[p].now /\ tick[p].now <= time
          /\ time <= tick[p].from + LAG
      BY <1>1 DEF ClockInv, PastOnly, Awake
    <2>2. /\ ended[c] <= tick[p].from
          /\ \A o \in Procs : Awake(o) => tick[o].ended[c] <= tick[p].from
      BY <1>1, <2>1 DEF ClockInv, NotSeenIsNew
    <2>3. tick[p].from \in Nat /\ tick[p].now \in Nat /\ ended[c] \in Nat
          /\ \A o \in Procs : tick[o].ended[c] \in Nat
      BY <1>t DEF ClockTyped, ClockTick
    <2>4. time <= tick[p].now + LAG
      BY <1>l, <2>1, <2>3
    <2>5. ended[c] < tick[p].now
      BY <2>1, <2>2, <2>3
    <2>6. \A o \in Procs : Awake(o) => tick[o].ended[c] < tick[p].now
      BY <2>1, <2>2, <2>3
    <2> QED BY <1>1, <1>3, <1>n, <1>a, <2>1, <2>4, <2>5, <2>6 DEF BegunAt
  <1>9. NotedInTime'
    <2>1. \A n \in noted.running : \A x \in going' :
             x.id = n.entry.id => BegunAt(x, n.entry.collection, n.at)'
      BY <1>1, <1>3, <1>7 DEF ClockInv, NotedInTime
    <2>2. ASSUME NEW o \in Procs, tick'[o].at = "noting"
          PROVE  /\ tick'[o].entry \in Pair /\ tick'[o].collection \in Single
                 /\ \A x \in going' : x.id = tick'[o].entry =>
                       BegunAt(x, tick[o].collection, tick[o].now)'
      <3>1. CASE o = p
        <4>1. \A x \in going' : x.id = i => x = r
          BY <1>1, <1>3
        <4>2. tick'[o].entry = i /\ tick'[o].collection = c /\ tick'[o].now = now
          BY <1>2, <1>n, <1>tp, <3>1
        <4> QED BY <1>8, <4>1, <4>2 DEF BegunAt
      <3>2. CASE o # p
        <4>1. tick'[o] = tick[o] /\ tick[o].at = "noting" /\ tick[o].entry # i
          BY <1>1, <1>2, <2>2, <3>2
        <4> QED BY <1>1, <1>3, <1>7, <4>1 DEF ClockInv, NotedInTime
      <3> QED BY <3>1, <3>2
    <2> QED BY <1>1, <2>1, <2>2 DEF NotedInTime
  <1> QED BY <1>4, <1>5, <1>6, <1>9 DEF ClockInv

\* Runs end, are lost with the trigger, or are asked for by a person, and time passes; the
\* ticks stand still.
LEMMA ClockWaits ==
    ASSUME ClockInv, Clock!SettlementAssumption, tick' = tick, noted' = noted,
           NEW d \in {0, 1}, time' = time + d,
           \A p \in Procs : Awake(p) => time + d <= tick[p].from + LAG,
           going' \in SUBSET TickRun,
           \A r \in going' \ going :
              r.id = NoEntry /\ r.since = time /\ \A t \in going : t.collection # r.collection,
           \A r, t \in going' \ going : r = t,
           ended' \in [Single -> Nat],
           \A c \in Single : ended'[c] \in {0, ended[c]} \/
              /\ ended'[c] = time' /\ \A t \in going' : t.collection # c
              /\ \E r \in going : r.collection = c /\ r.since + MINRUN <= time'
    PROVE  ClockInv'
  <1>t. ClockTyped
    BY DEF ClockInv
  <1>c. /\ time \in Nat /\ time' \in Nat /\ time <= time' /\ LAG \in Nat /\ MINRUN \in Nat
        /\ LAG < MINRUN /\ NoEntry \notin Pair
    BY <1>t DEF ClockTyped, Clock!SettlementAssumption
  <1>k. /\ \A p \in Procs : /\ tick[p].from \in Nat /\ tick[p].now \in Nat
                            /\ tick[p].ended \in [Single -> Nat] /\ tick[p].names \in SUBSET Single
        /\ \A r \in going : r.since \in Nat /\ r.collection \in Single
        /\ ended \in [Single -> Nat]
        /\ \A n \in noted.running : n.at \in Nat /\ n.entry.id \in Pair
                                    /\ n.entry.collection \in Single
    BY <1>t DEF ClockTyped, ClockTick, TickRun, TickNote
  <1>a. \A p \in Procs : Awake(p)' <=> Awake(p)
    BY DEF Awake
  <1>1. ClockTyped'
    BY <1>t, <1>c DEF ClockTyped
  <1>2. PastOnly'
    <2>1. \A r \in going' : r.since <= time'
      BY <1>c, <1>k DEF ClockInv, PastOnly
    <2>2. \A r, t \in going' : r.collection = t.collection => r = t
      <3>1. \A r, t \in going : r.collection = t.collection => r = t
        BY DEF ClockInv, PastOnly
      <3> QED BY <3>1
    <2>3. \A c \in Single : ended'[c] <= time'
      BY <1>c, <1>k DEF ClockInv, PastOnly
    <2>4. \A p \in Procs : Awake(p) =>
             /\ tick[p].from <= time' /\ time' <= tick[p].from + LAG
             /\ \A c \in Single : tick[p].ended[c] <= tick[p].from
      BY <1>c, <1>k DEF ClockInv, PastOnly
    <2>5. \A p \in Procs : tick[p].at \in {"settling", "serving", "noting"} =>
             tick[p].from < tick[p].now /\ tick[p].now <= time'
      BY <1>c, <1>k DEF ClockInv, PastOnly
    <2> QED BY <1>a, <2>1, <2>2, <2>3, <2>4, <2>5 DEF PastOnly
  <1>3. NotSeenIsNew'
    <2> SUFFICES ASSUME NEW p \in Procs, Awake(p), NEW c \in Single \ tick[p].names
                 PROVE  /\ \A r \in going' : r.collection = c => tick[p].from <= r.since
                        /\ ended'[c] <= tick[p].from
                        /\ \A o \in Procs : Awake(o) => tick[o].ended[c] <= tick[p].from
      BY <1>a DEF NotSeenIsNew
    <2>1. /\ \A r \in going : r.collection = c => tick[p].from <= r.since
          /\ ended[c] <= tick[p].from
          /\ \A o \in Procs : Awake(o) => tick[o].ended[c] <= tick[p].from
      BY DEF ClockInv, NotSeenIsNew
    <2>2. tick[p].from <= time /\ time' <= tick[p].from + LAG
      BY DEF ClockInv, PastOnly
    <2>3. ended'[c] <= tick[p].from
      <3>1. CASE ended'[c] \in {0, ended[c]}
        BY <1>k, <2>1, <3>1
      <3>2. ASSUME NEW r \in going, r.collection = c, r.since + MINRUN <= time'
            PROVE  FALSE
        <4>1. tick[p].from <= r.since
          BY <2>1, <3>2
        <4> QED BY <1>c, <1>k, <2>2, <3>2, <4>1
      <3> QED BY <3>1, <3>2
    <2>4. \A r \in going' : r.collection = c => tick[p].from <= r.since
      BY <2>1, <2>2
    <2> QED BY <2>1, <2>3, <2>4
  <1>4. ASSUME NEW r \in going \cap going', NEW c \in Single, NEW at \in Nat, BegunAt(r, c, at)
        PROVE  BegunAt(r, c, at)'
    <2>1. ended'[c] < at
      BY <1>4, <1>k DEF BegunAt
    <2> QED BY <1>4, <1>a, <2>1 DEF BegunAt
  <1>5. NotedInTime'
    <2>1. \A n \in noted.running : \A r \in going' :
             r.id = n.entry.id => BegunAt(r, n.entry.collection, n.at)'
      <3> SUFFICES ASSUME NEW n \in noted.running, NEW r \in going', r.id = n.entry.id
                   PROVE  BegunAt(r, n.entry.collection, n.at)'
        OBVIOUS
      <3>1. r \in going
        BY <1>c, <1>k
      <3>2. BegunAt(r, n.entry.collection, n.at)
        BY <3>1 DEF ClockInv, NotedInTime
      <3> QED BY <1>4, <1>k, <3>1, <3>2
    <2>2. ASSUME NEW p \in Procs, tick[p].at = "noting"
          PROVE  /\ tick[p].entry \in Pair /\ tick[p].collection \in Single
                 /\ \A r \in going' : r.id = tick[p].entry =>
                       BegunAt(r, tick[p].collection, tick[p].now)'
      <3>1. /\ tick[p].entry \in Pair /\ tick[p].collection \in Single
            /\ \A r \in going : r.id = tick[p].entry =>
                  BegunAt(r, tick[p].collection, tick[p].now)
        BY <2>2 DEF ClockInv, NotedInTime
      <3>2. ASSUME NEW r \in going', r.id = tick[p].entry
            PROVE  BegunAt(r, tick[p].collection, tick[p].now)'
        <4>1. r \in going
          BY <1>c, <3>1, <3>2
        <4>2. PICK c, at : c = tick[p].collection /\ at = tick[p].now
          OBVIOUS
        <4>3. BegunAt(r, c, at)'
          BY <1>4, <1>k, <3>1, <3>2, <4>1, <4>2
        <4> QED BY <4>2, <4>3 DEF BegunAt
      <3> QED BY <3>1, <3>2
    <2> QED BY <2>1, <2>2 DEF NotedInTime
  <1> QED BY <1>1, <1>2, <1>3, <1>5 DEF ClockInv

\* Whatever takes a note out of the record, no run of its id goes on.
LEMMA SettledIsOver ==
    ASSUME ClockInv, Clock!SettlementAssumption, NEW p \in Procs, Clock!SettleNotes(p),
           NEW n \in noted.running, n \notin noted'.running, NEW r \in going, r.id = n.entry.id
    PROVE  FALSE
  <1>t. ClockTyped
    BY DEF ClockInv
  <1>1. Clock!Gone(n, tick[p].names, tick[p].ended, tick[p].now - GRACE) /\ Awake(p)
        /\ tick[p].at = "settling"
    <2>1. noted' = [noted EXCEPT !.running = {x \in @ : ~Clock!Gone(x, tick[p].names,
                                              tick[p].ended, tick[p].now - GRACE)}]
      BY DEF Clock!SettleNotes, Clock!Settle
    <2> QED BY <1>t, <2>1 DEF Clock!SettleNotes, Awake, ClockTyped
  <1> DEFINE c == n.entry.collection
  <1>2. BegunAt(r, c, n.at)
    BY DEF ClockInv, NotedInTime
  <1>3. c \in Single \ tick[p].names
    BY <1>1, <1>t DEF Clock!Gone, ClockTyped, TickNote
  <1>4. tick[p].from <= r.since
    BY <1>1, <1>2, <1>3 DEF ClockInv, NotSeenIsNew, BegunAt
  <1>5. tick[p].ended[c] < n.at /\ r.since <= n.at + LAG
    BY <1>1, <1>2 DEF BegunAt
  <1>6. tick[p].now <= time /\ time <= tick[p].from + LAG
    BY <1>1 DEF ClockInv, PastOnly
  <1>7. /\ tick[p].from \in Nat /\ tick[p].now \in Nat /\ n.at \in Nat /\ r.since \in Nat
        /\ time \in Nat /\ LAG \in Nat /\ GRACE \in Nat /\ LAG + LAG < GRACE
        /\ tick[p].ended[c] \in Nat
    BY <1>t, <1>3 DEF ClockTyped, ClockTick, TickNote, TickRun, Clock!SettlementAssumption
  <1>8. n.at <= tick[p].now - GRACE
    <2>1. ~(tick[p].ended[c] >= n.at)
      BY <1>5, <1>7
    <2> QED BY <1>1, <2>1 DEF Clock!Gone
  <1> HIDE DEF c
  <1> QED BY <1>4, <1>5, <1>6, <1>7, <1>8

LEMMA ClockNextInv ==
    ASSUME ClockInv, Clock!Next, Clock!SettlementAssumption
    PROVE  /\ ClockInv'
           /\ \A n \in noted.running \ noted'.running : \A r \in going : r.id # n.entry.id
  <1>t. ClockTyped
    BY DEF ClockInv
  <1>n. time \in Nat /\ \A q \in Procs : tick[q].from \in Nat /\ tick[q] \in ClockTick
    BY <1>t DEF ClockTyped, ClockTick
  <1>l. \A q \in Procs : Awake(q) => time + 0 <= tick[q].from + LAG
    BY <1>n DEF ClockInv, PastOnly
  <1>m. Clock!MayPass(time + 1) => \A q \in Procs : Awake(q) => time + 1 <= tick[q].from + LAG
    <2> SUFFICES ASSUME Clock!MayPass(time + 1), NEW q \in Procs, Awake(q)
                 PROVE  time + 1 <= tick[q].from + LAG
      OBVIOUS
    <2>1. (time + 1) - tick[q].from <= LAG
      BY DEF Clock!MayPass, Awake
    <2>2. LAG \in Nat
      BY DEF Clock!SettlementAssumption
    <2> QED BY <1>n, <2>1, <2>2
  <1>1. ASSUME NEW p \in Procs, Clock!Fetch(p)
        PROVE  ClockInv' /\ noted' = noted
    BY <1>1, ClockFetches DEF Clock!Fetch
  <1>2. ASSUME NEW p \in Procs, Clock!ReadClock(p)
        PROVE  ClockInv' /\ noted' = noted
    <2> DEFINE now == Clock!Written(time + 1)
               t == [tick[p] EXCEPT !.at = "settling", !.now = now]
    <2>1. now = time + 1 /\ now \in Nat
      BY <1>n DEF Clock!Written
    <2>2. tick' = [tick EXCEPT ![p].at = "settling", ![p].now = now]
      BY <1>2 DEF Clock!ReadClock
    <2> HIDE DEF now
    <2>3. tick' = [tick EXCEPT ![p] = t]
      BY <1>t, <2>2 DEF ClockTyped
    <2>4. /\ t \in ClockTick /\ t.names = tick[p].names /\ t.ended = tick[p].ended
          /\ t.from = tick[p].from /\ t.at = "settling" /\ t.now = now
      BY <1>n, <2>1 DEF ClockTick
    <2> HIDE DEF t
    <2>5. /\ tick[p].at = "fetched" /\ Awake(p) /\ time' = time + 1
          /\ \A q \in Procs : Awake(q) => time + 1 <= tick[q].from + LAG
          /\ going' = going /\ ended' = ended /\ noted' = noted
      BY <1>2, <1>m DEF Clock!ReadClock, Awake
    <2>6. tick[p].from < now
      BY <1>n, <2>1, <2>5 DEF ClockInv, PastOnly
    <2>7. noted' = [noted EXCEPT !.running = noted'.running]
      BY <1>t, <2>5 DEF ClockTyped
    <2>8. now <= time + 1 /\ 1 \in {0, 1}
      BY <1>n, <2>1
    <2> QED BY <2>3, <2>4, <2>5, <2>6, <2>7, <2>8, TickGoesOn
  <1>3. ASSUME NEW p \in Procs, Clock!SettleNotes(p)
        PROVE  ClockInv'
    <2> DEFINE t == [tick[p] EXCEPT !.at = "serving"]
    <2>3. tick' = [tick EXCEPT ![p] = t]
      BY <1>t, <1>3 DEF ClockTyped, Clock!SettleNotes
    <2>4. /\ t \in ClockTick /\ t.names = tick[p].names /\ t.ended = tick[p].ended
          /\ t.from = tick[p].from /\ t.at = "serving" /\ t.now = tick[p].now
      BY <1>n DEF ClockTick
    <2> HIDE DEF t
    <2>5. /\ tick[p].at = "settling" /\ Awake(p) /\ time' = time + 0
          /\ going' = going /\ ended' = ended
      BY <1>3, <1>n DEF Clock!SettleNotes, Awake
    <2>6. tick[p].from < t.now /\ t.now <= time + 0
      BY <1>n, <2>4, <2>5 DEF ClockInv, PastOnly
    <2>7. /\ noted' = [noted EXCEPT !.running = noted'.running]
          /\ noted'.running \in SUBSET noted.running
      BY <1>3, <1>t DEF ClockTyped, Clock!SettleNotes, Clock!Settle
    <2> QED BY <1>l, <2>3, <2>4, <2>5, <2>6, <2>7, TickGoesOn
  <1>4. ASSUME NEW p \in Procs, Clock!Note(p)
        PROVE  ClockInv' /\ noted.running \in SUBSET noted'.running
    <2> DEFINE n == [entry |-> [id |-> tick[p].entry, collection |-> tick[p].collection],
                     at |-> tick[p].now]
    <2>1. noted' = [noted EXCEPT !.running = @ \cup {n}] /\ tick[p].at = "noting"
      BY <1>4 DEF Clock!Note, Clock!Started
    <2>2. /\ n \in TickNote /\ n.entry.id = tick[p].entry
          /\ n.entry.collection = tick[p].collection /\ n.at = tick[p].now
      BY <1>n, <2>1 DEF ClockInv, NotedInTime, TickNote, ClockTick
    <2> HIDE DEF n
    <2>3. /\ noted'.running = noted.running \cup {n}
          /\ noted' = [noted EXCEPT !.running = noted'.running]
      BY <1>t, <2>1 DEF ClockTyped
    <2>4. noted'.running \in SUBSET TickNote
      BY <1>t, <2>2, <2>3 DEF ClockTyped
    <2> QED BY <1>4, <2>1, <2>2, <2>3, <2>4, ClockSleeps DEF Clock!Note
  <1>5. ASSUME NEW p \in Procs, Clock!TickEnds(p)
        PROVE  ClockInv' /\ noted' = noted
    <2>1. noted' = noted /\ noted' = [noted EXCEPT !.running = noted'.running]
          /\ noted'.running \in SUBSET TickNote
      BY <1>5, <1>t DEF Clock!TickEnds, ClockTyped
    <2> QED BY <1>5, <2>1, ClockSleeps DEF Clock!TickEnds
  <1>6. ASSUME NEW p \in Procs, NEW c \in Single, NEW i \in Pair, Clock!Launch(p, c, i)
        PROVE  ClockInv' /\ noted' = noted
    BY <1>6, ClockLaunches DEF Clock!Launch
  <1>7. ASSUME NEW c \in Single, Clock!AskedRun(c)
        PROVE  ClockInv' /\ noted' = noted
    <2> DEFINE r == [collection |-> c, id |-> NoEntry, since |-> time]
    <2>1. going' = going \cup {r} /\ \A t \in going : t.collection # c
      BY <1>7 DEF Clock!AskedRun, Clock!Going
    <2>2. r \in TickRun /\ r.collection = c /\ r.id = NoEntry /\ r.since = time
      BY <1>n DEF TickRun
    <2> HIDE DEF r
    <2>3. going' \in SUBSET TickRun /\ ended' = ended /\ ended \in [Single -> Nat]
          /\ time' = time + 0 /\ tick' = tick /\ noted' = noted
      BY <1>7, <1>n, <1>t, <2>1, <2>2 DEF ClockTyped, Clock!AskedRun
    <2> QED BY <1>l, <2>1, <2>2, <2>3, ClockWaits
  <1>8. ASSUME NEW r \in going, Clock!End(r)
        PROVE  ClockInv' /\ noted' = noted
    <2>1. /\ time' = time + 1 /\ going' = going \ {r} /\ tick' = tick /\ noted' = noted
          /\ ended' = [ended EXCEPT ![r.collection] = Clock!Written(time + 1)]
          /\ time + 1 - r.since >= MINRUN
          /\ \A q \in Procs : Awake(q) => time + 1 <= tick[q].from + LAG
      BY <1>8, <1>m DEF Clock!End
    <2>2. Clock!Written(time + 1) = time + 1
      BY <1>n DEF Clock!Written
    <2>3. r.collection \in Single /\ r.since \in Nat /\ MINRUN \in Nat
      BY <1>t DEF ClockTyped, TickRun, Clock!SettlementAssumption
    <2>4. /\ ended' \in [Single -> Nat] /\ ended'[r.collection] = time'
          /\ \A c \in Single \ {r.collection} : ended'[c] = ended[c]
      BY <1>n, <1>t, <2>1, <2>2, <2>3 DEF ClockTyped
    <2>5. r.since + MINRUN <= time'
      BY <1>n, <2>1, <2>3
    <2>6. \A t \in going' : t.collection # r.collection
      BY <2>1 DEF ClockInv, PastOnly
    <2>7. going' \in SUBSET TickRun /\ 1 \in {0, 1}
      BY <1>t, <2>1 DEF ClockTyped
    <2>8. \A c \in Single : ended'[c] \in {0, ended[c]} \/
              /\ ended'[c] = time' /\ \A t \in going' : t.collection # c
              /\ \E x \in going : x.collection = c /\ x.since + MINRUN <= time'
      BY <2>4, <2>5, <2>6
    <2> QED BY <2>1, <2>4, <2>7, <2>8, ClockWaits
  <1>9. ASSUME Clock!RestartTrigger
        PROVE  ClockInv' /\ noted' = noted
    <2>1. /\ going' = {} /\ ended' \in [Single -> Nat] /\ \A c \in Single : ended'[c] = 0
          /\ time' = time + 0 /\ tick' = tick /\ noted' = noted
      BY <1>9, <1>n DEF Clock!RestartTrigger
    <2> QED BY <1>l, <2>1, ClockWaits
  <1>10. ASSUME Clock!Pass
         PROVE  ClockInv' /\ noted' = noted
    <2>1. /\ time' = time + 1 /\ going' = going /\ tick' = tick /\ noted' = noted
          /\ ended' = ended
          /\ \A q \in Procs : Awake(q) => time + 1 <= tick[q].from + LAG
      BY <1>10, <1>m DEF Clock!Pass
    <2>2. going' \in SUBSET TickRun /\ ended' \in [Single -> Nat]
      BY <1>t, <2>1 DEF ClockTyped
    <2> QED BY <2>1, <2>2, ClockWaits
  <1> QED BY <1>1, <1>2, <1>3, <1>4, <1>5, <1>6, <1>7, <1>8, <1>9, <1>10, SettledIsOver
          DEF Clock!Next

\* However old the status a tick compares with, and whatever the other clock launches and
\* ends meanwhile, settle takes out no note of a run that goes on
\* (src/app/ingest_queue.py, settle; the hypotheses on its times are those of the run).
THEOREM NotesOutliveRuns == ASSUME ClocksAssumption PROVE MCSpec => SettlesOnlyWhatIsOver
  <1> DEFINE everything == <<machine, allVars, casVars, clockVars, lineVars>>
  <1>1. MCInit => ClockInv
    BY ClockInitInv DEF MCInit
  <1>2. ClockInv /\ [MCNext]_everything =>
           /\ ClockInv'
           /\ [\A n \in noted.running \ noted'.running :
                  \A r \in going : r.id # n.entry.id]_clockVars
    <2> SUFFICES ASSUME ClockInv, [MCNext]_everything
                 PROVE  /\ ClockInv'
                        /\ \A n \in noted.running \ noted'.running :
                              \A r \in going : r.id # n.entry.id
      OBVIOUS
    <2>1. CASE Clock!Next
      BY <2>1, ClocksAssumption, ClockNextInv
    <2>2. CASE UNCHANGED clockVars
      BY <2>2 DEF clockVars, ClockInv, ClockTyped, PastOnly, NotSeenIsNew, NotedInTime, Awake,
                  BegunAt
    <2>3. Clock!Next \/ UNCHANGED clockVars
      BY DEF MCNext, TheEnd, clockVars
    <2> QED BY <2>1, <2>2, <2>3
  <1> QED BY <1>1, <1>2, PTL DEF MCSpec, SettlesOnlyWhatIsOver, Clock!SettlesOnlyWhatIsOver,
             clockVars, Clock!vars

-----------------------------------------------------------------------------
\* The workers' lines, which two clocks write over each other.

LineRecord ==
    [line : [{w1} -> Seq(OfWorker)], batch : [{w1} -> Seq(OfWorker)],
     awake : [{w1} -> BOOLEAN], rested : [{w1} -> BOOLEAN]]

\* A record with every sweep once in the line and the batch of the worker.
GoodRecord(r) ==
    /\ r \in LineRecord
    /\ Distinct(r.batch[w1]) /\ Distinct(r.line[w1])
    /\ Members(r.batch[w1]) \cap Members(r.line[w1]) = {}
    /\ Len(r.batch[w1]) <= PER_RUN

\* What the machine keeps: the copies that clocks have read are good too, and a sweep
\* that is due and has been started runs still.
LinesInv ==
    /\ GoodRecord(record)
    /\ read \in [Procs -> SUBSET [task : Lines!Operations, record : LineRecord]]
    /\ \A p \in Procs : \A t \in read[p] : GoodRecord(t.record)
    /\ holds \in [Procs -> SUBSET [sweep : OfWorker, dropped : BOOLEAN]]
    /\ passed \subseteq OfWorker /\ entries \subseteq OfWorker /\ running \subseteq OfWorker
    /\ due \subseteq OfWorker
    /\ ran \cap due \subseteq running

\* The lists of the operations, whichever of them is done.
LEMMA ClaimSplits ==
    ASSUME NEW q \in Seq(OfWorker), NEW n \in 0..Len(q), Distinct(q)
    PROVE  /\ SubSeq(q, 1, n) \in Seq(OfWorker) /\ Len(SubSeq(q, 1, n)) = n
           /\ SubSeq(q, n + 1, Len(q)) \in Seq(OfWorker)
           /\ Distinct(SubSeq(q, 1, n)) /\ Distinct(SubSeq(q, n + 1, Len(q)))
           /\ Members(SubSeq(q, 1, n)) \cap Members(SubSeq(q, n + 1, Len(q))) = {}
  <1> DEFINE a == SubSeq(q, 1, n)
             b == SubSeq(q, n + 1, Len(q))
             m == Len(q) - n
  <1>1. a \in Seq(OfWorker) /\ Len(a) = n /\ \A i \in 1..n : a[i] = q[i]
    OBVIOUS
  <1>2. b \in Seq(OfWorker) /\ Len(b) = m /\ \A i \in 1..m : b[i] = q[n + i]
    OBVIOUS
  <1>3. /\ n \in Nat /\ m \in Nat /\ Len(q) = n + m
        /\ \A i, j \in 1..Len(q) : q[i] = q[j] => i = j
    BY DEF Distinct
  <1> HIDE DEF a, b, m
  <1>4. Distinct(a)
    BY <1>1, <1>3 DEF Distinct
  <1>5. Distinct(b)
    <2> SUFFICES ASSUME NEW i \in 1..m, NEW j \in 1..m, b[i] = b[j] PROVE i = j
      BY <1>2 DEF Distinct
    <2>1. n + i \in 1..Len(q) /\ n + j \in 1..Len(q) /\ q[n + i] = q[n + j]
      BY <1>2, <1>3
    <2>2. n + i = n + j
      BY <1>3, <2>1
    <2> QED BY <1>3, <2>2
  <1>6. Members(a) \cap Members(b) = {}
    <2> SUFFICES ASSUME NEW i \in 1..n, NEW j \in 1..m, a[i] = b[j] PROVE FALSE
      BY <1>1, <1>2 DEF Members
    <2>1. i \in 1..Len(q) /\ n + j \in 1..Len(q) /\ q[i] = q[n + j]
      BY <1>1, <1>2, <1>3
    <2>2. i = n + j
      BY <1>3, <2>1
    <2> QED BY <1>3, <2>2
  <1> QED BY <1>1, <1>2, <1>4, <1>5, <1>6 DEF a, b, m

LEMMA SetOfLine ==
    ASSUME NEW q \in Seq(OfWorker)
    PROVE  Lines!ToSet(q) = Members(q)
  <1>1. DOMAIN q = 1..Len(q)
    OBVIOUS
  <1> QED BY <1>1 DEF Lines!ToSet, Members

LEMMA ChangeKeeps ==
    ASSUME NEW r, GoodRecord(r), NEW t \in Lines!Operations, Lines!LinesAssumption
    PROVE  GoodRecord(Lines!Change(r, t))
  <1> DEFINE n == Lines!Change(r, t)
  <1>r. /\ r \in LineRecord /\ Distinct(r.batch[w1]) /\ Distinct(r.line[w1])
        /\ Members(r.batch[w1]) \cap Members(r.line[w1]) = {}
        /\ Len(r.batch[w1]) <= PER_RUN
    BY DEF GoodRecord
  <1>q. r.line[w1] \in Seq(OfWorker) /\ r.batch[w1] \in Seq(OfWorker) /\ PER_RUN \in Nat
    BY <1>r DEF LineRecord, Lines!LinesAssumption
  <1>1. ASSUME t.do = "enqueue", t.sweep \in OfWorker PROVE GoodRecord(n)
    <2>w. SameWorker[t.sweep] = w1
      BY <1>1 DEF SameWorker
    <2>1. n = Lines!Enqueue(r, t.sweep)
      BY <1>1 DEF Lines!Change
    <2>2. CASE n = r
      BY <2>2
    <2>3. CASE n # r
      <3>1. t.sweep \notin Lines!ToSet(r.batch[w1] \o r.line[w1])
            /\ n = [r EXCEPT !.line[w1] = Append(@, t.sweep)]
        BY <2>1, <2>3, <2>w DEF Lines!Enqueue, Lines!Lined
      <3>2. t.sweep \notin Members(r.batch[w1]) /\ t.sweep \notin Members(r.line[w1])
        <4> DEFINE a == r.batch[w1] \o r.line[w1]
        <4>1. a \in Seq(OfWorker) /\ Members(a) = Members(r.batch[w1]) \cup Members(r.line[w1])
          BY <1>q, Joined
        <4>2. Lines!ToSet(a) = Members(a)
          BY <4>1, SetOfLine
        <4> HIDE DEF a
        <4> QED BY <3>1, <4>1, <4>2 DEF a
      <3> DEFINE l == Append(r.line[w1], t.sweep)
      <3>3. /\ l \in Seq(OfWorker)
            /\ Members(l) = Members(r.line[w1]) \cup {t.sweep}
            /\ Distinct(l)
        BY <1>1, <1>q, <1>r, <3>2, Appended
      <3>6. n = [r EXCEPT !.line = [r.line EXCEPT ![w1] = l]]
        BY <1>r, <3>1 DEF LineRecord
      <3> HIDE DEF l, n
      <3>7. /\ n \in LineRecord /\ n.line[w1] = l /\ n.batch = r.batch
        BY <1>r, <3>3, <3>6 DEF LineRecord
      <3> QED BY <1>r, <3>2, <3>3, <3>7 DEF GoodRecord
    <2> QED BY <2>2, <2>3
  <1>2. ASSUME t.do \in {"done", "drop"} PROVE GoodRecord(n)
    <2> DEFINE S == OfWorker \ {t.sweep}
               l == Kept(r.line[w1], S)
               b == Kept(r.batch[w1], S)
    <2>0. \A q : Lines!Kept(q, S) = Kept(q, S)
      BY DEF Lines!Kept, Kept
    <2>1. n = [r EXCEPT !.line = [w \in {w1} |-> Lines!Kept(r.line[w], S)],
                        !.batch = [w \in {w1} |-> Lines!Kept(r.batch[w], S)]]
      BY <1>2 DEF Lines!Change, Lines!Without
    <2>2. /\ l \in Seq(OfWorker) /\ Members(l) = Members(r.line[w1]) \cap S /\ Distinct(l)
          /\ b \in Seq(OfWorker) /\ Members(b) = Members(r.batch[w1]) \cap S /\ Distinct(b)
          /\ Len(b) <= Len(r.batch[w1])
      BY <1>q, <1>r, KeptShape
    <2>5. /\ [w \in {w1} |-> Lines!Kept(r.line[w], S)] = [w \in {w1} |-> l]
          /\ [w \in {w1} |-> Lines!Kept(r.batch[w], S)] = [w \in {w1} |-> b]
      BY <2>0
    <2> HIDE DEF S, l, b
    <2>3. n = [r EXCEPT !.line = [w \in {w1} |-> l], !.batch = [w \in {w1} |-> b]]
      BY <2>1, <2>5
    <2> HIDE DEF l, b, n
    <2>4. n \in LineRecord /\ n.line[w1] = l /\ n.batch[w1] = b
      BY <1>r, <2>2, <2>3 DEF LineRecord
    <2>6. Len(b) <= PER_RUN
      BY <1>q, <1>r, <2>2
    <2> QED BY <1>r, <2>2, <2>4, <2>6 DEF GoodRecord
  <1>3. ASSUME t.do = "finish", t.worker = w1 PROVE GoodRecord(n)
    <2>1. n = r \/ n = [r EXCEPT !.awake[w1] = FALSE, !.rested[w1] = FALSE]
      BY <1>3 DEF Lines!Change, Lines!Finish
    <2> HIDE DEF n
    <2>2. n \in LineRecord /\ n.line = r.line /\ n.batch = r.batch
      BY <1>r, <2>1 DEF LineRecord
    <2> QED BY <1>r, <2>2 DEF GoodRecord
  <1>4. ASSUME t.do = "claim", t.worker = w1 PROVE GoodRecord(n)
    <2>1. CASE n = r
      BY <2>1
    <2>2. CASE n # r
      <3> DEFINE q == r.line[w1]
                 m == IF Len(q) < PER_RUN THEN Len(q) ELSE PER_RUN
                 b == SubSeq(q, 1, m)
                 l == SubSeq(q, m + 1, Len(q))
      <3>1. n = [r EXCEPT !.batch[w1] = b, !.line[w1] = SubSeq(@, m + 1, Len(@)),
                          !.awake[w1] = TRUE]
        BY <1>4, <2>2 DEF Lines!Change, Lines!Claim
      <3>2. m \in 0..Len(q) /\ m <= PER_RUN
        BY <1>q
      <3>3. n = [r EXCEPT !.batch = [r.batch EXCEPT ![w1] = b],
                          !.line = [r.line EXCEPT ![w1] = l],
                          !.awake = [r.awake EXCEPT ![w1] = TRUE]]
        BY <1>r, <3>1 DEF LineRecord
      <3> HIDE DEF m
      <3>4. /\ b \in Seq(OfWorker) /\ Len(b) = m /\ l \in Seq(OfWorker)
            /\ Distinct(b) /\ Distinct(l) /\ Members(b) \cap Members(l) = {}
        BY <1>q, <1>r, <3>2, ClaimSplits
      <3> HIDE DEF q, b, l, n
      <3>5. n \in LineRecord /\ n.line[w1] = l /\ n.batch[w1] = b
        BY <1>r, <3>3, <3>4 DEF LineRecord
      <3> QED BY <3>2, <3>4, <3>5 DEF GoodRecord
    <2> QED BY <2>1, <2>2
  <1>5. ASSUME t.do = "mark" PROVE GoodRecord(n)
    BY <1>5 DEF Lines!Change
  <1> QED BY <1>1, <1>2, <1>3, <1>4, <1>5 DEF Lines!Operations

LEMMA LinesInitInv == ASSUME Lines!LinesAssumption, Lines!Init PROVE LinesInv
  <1>1. /\ record = [line |-> [w \in {w1} |-> <<>>], batch |-> [w \in {w1} |-> <<>>],
                     awake |-> [w \in {w1} |-> FALSE], rested |-> [w \in {w1} |-> TRUE]]
        /\ read = [p \in Procs |-> {}] /\ holds = [p \in Procs |-> {}]
        /\ passed = {} /\ entries = {} /\ running = {} /\ due = OfWorker /\ ran = {}
    BY DEF Lines!Init
  <1>2. record \in LineRecord /\ record.batch[w1] = <<>> /\ record.line[w1] = <<>>
    BY <1>1 DEF LineRecord
  <1>3. Distinct(<<>>) /\ Members(<<>>) = {} /\ Len(<<>>) = 0
    BY DEF Distinct, Members
  <1>4. 0 <= PER_RUN
    BY DEF Lines!LinesAssumption
  <1>5. GoodRecord(record)
    BY <1>2, <1>3, <1>4 DEF GoodRecord
  <1> QED BY <1>1, <1>5 DEF LinesInv

\* A record that has only been rested keeps its lists.
LEMMA RestKeeps ==
    ASSUME NEW r, GoodRecord(r), NEW w \in {w1}
    PROVE  GoodRecord([r EXCEPT !.rested[w] = TRUE])
  <1> DEFINE n == [r EXCEPT !.rested[w] = TRUE]
  <1>1. r \in LineRecord /\ n = [r EXCEPT !.rested = [r.rested EXCEPT ![w] = TRUE]]
    BY DEF GoodRecord
  <1> HIDE DEF n
  <1>2. n \in LineRecord /\ n.line = r.line /\ n.batch = r.batch
    BY <1>1 DEF LineRecord
  <1>3. GoodRecord(n)
    BY <1>2 DEF GoodRecord
  <1> QED BY <1>3 DEF n

LEMMA LinesNextInv ==
    ASSUME LinesInv, Lines!Next, Lines!LinesAssumption
    PROVE  LinesInv' /\ (running' \ running) \cap ran = {}
  <1>i. /\ GoodRecord(record)
        /\ read \in [Procs -> SUBSET [task : Lines!Operations, record : LineRecord]]
        /\ \A p \in Procs : \A t \in read[p] : GoodRecord(t.record)
        /\ holds \in [Procs -> SUBSET [sweep : OfWorker, dropped : BOOLEAN]]
        /\ passed \subseteq OfWorker /\ entries \subseteq OfWorker /\ running \subseteq OfWorker
        /\ due \subseteq OfWorker
        /\ ran \cap due \subseteq running
    BY DEF LinesInv
  <1>o. record \in LineRecord
    BY <1>i DEF GoodRecord
  <1>1. ASSUME NEW p \in Procs, NEW t \in Lines!Operations, Lines!Read(p, t)
        PROVE  LinesInv' /\ running' = running
    <2>1. /\ read' = [read EXCEPT ![p] = {[task |-> t, record |-> record]}]
          /\ record' = record /\ holds' = holds /\ passed' = passed /\ entries' = entries
          /\ running' = running /\ due' = due /\ ran' = ran
      BY <1>1 DEF Lines!Read, Lines!outside
    <2>2. read' \in [Procs -> SUBSET [task : Lines!Operations, record : LineRecord]]
      BY <1>i, <1>o, <2>1
    <2>3. \A q \in Procs : \A x \in read'[q] : x \in read[q] \/ x.record = record
      BY <1>i, <2>1
    <2>4. \A q \in Procs : \A x \in read'[q] : GoodRecord(x.record)
      BY <1>i, <2>3
    <2>5. GoodRecord(record)'
      BY <1>i, <2>1 DEF GoodRecord
    <2>6. (\A q \in Procs : \A x \in read[q] : GoodRecord(x.record))'
      BY <2>4 DEF GoodRecord
    <2> QED BY <1>i, <2>1, <2>2, <2>5, <2>6 DEF LinesInv
  <1>2. ASSUME NEW p \in Procs, Lines!Write(p)
        PROVE  LinesInv' /\ running' = running
    <2>1. PICK r \in read[p] : record' = Lines!Change(r.record, r.task)
      BY <1>2 DEF Lines!Write
    <2>2. /\ read' = [read EXCEPT ![p] = {}]
          /\ holds' = [holds EXCEPT ![p] =
                {[h EXCEPT !.dropped = @ \/ \E x \in read[p] : x.task.do = "drop"] : h \in @}]
          /\ passed' = passed /\ entries' = entries
          /\ running' = running /\ due' = due /\ ran' = ran
      BY <1>2 DEF Lines!Write, Lines!outside
    <2>3. GoodRecord(record')
      <3>1. GoodRecord(r.record) /\ r.task \in Lines!Operations
        BY <1>i, <2>1
      <3> QED BY <2>1, <3>1, ChangeKeeps
    <2>4. GoodRecord(record)'
      BY <2>3 DEF GoodRecord
    <2>5. holds' \in [Procs -> SUBSET [sweep : OfWorker, dropped : BOOLEAN]]
      <3> DEFINE Dropped == \E x \in read[p] : x.task.do = "drop"
                 T == [sweep : OfWorker, dropped : BOOLEAN]
      <3>1. \A h \in holds[p] : h \in T
        BY <1>i
      <3> HIDE DEF Dropped
      <3>2. \A h \in T : [h EXCEPT !.dropped = @ \/ Dropped] \in T
        <4> SUFFICES ASSUME NEW h \in T PROVE [h EXCEPT !.dropped = @ \/ Dropped] \in T
          OBVIOUS
        <4> DEFINE b == h.dropped \/ Dropped
        <4>1. b \in BOOLEAN
          BY Zenon
        <4> HIDE DEF b
        <4>2. [h EXCEPT !.dropped = b] \in T
          BY <4>1
        <4> QED BY <4>2 DEF b
      <3>3. {[h EXCEPT !.dropped = @ \/ \E x \in read[p] : x.task.do = "drop"] : h \in holds[p]}
               \in SUBSET T
        BY <3>1, <3>2 DEF Dropped
      <3> QED BY <1>i, <2>2, <3>3
    <2>6. /\ read' \in [Procs -> SUBSET [task : Lines!Operations, record : LineRecord]]
          /\ \A q \in Procs : read'[q] \subseteq read[q]
      BY <1>i, <2>2
    <2>7. (\A q \in Procs : \A x \in read[q] : GoodRecord(x.record))'
      BY <1>i, <2>6 DEF GoodRecord
    <2> QED BY <1>i, <2>2, <2>4, <2>5, <2>6, <2>7 DEF LinesInv
  <1>k. ASSUME record' = record, read' = read
        PROVE  /\ GoodRecord(record)'
               /\ (read \in [Procs -> SUBSET [task : Lines!Operations, record : LineRecord]])'
               /\ (\A q \in Procs : \A x \in read[q] : GoodRecord(x.record))'
    BY <1>i, <1>k DEF GoodRecord
  <1>3. ASSUME NEW p \in Procs, Lines!Note(p)
        PROVE  LinesInv' /\ running' = running
    <2>1. PICK h \in holds[p] : entries' = entries \cup {h.sweep}
      BY <1>3 DEF Lines!Note
    <2>2. /\ holds' = [holds EXCEPT ![p] = {}] /\ record' = record /\ read' = read
          /\ passed' = passed /\ running' = running /\ due' = due /\ ran' = ran
      BY <1>3 DEF Lines!Note
    <2>3. h.sweep \in OfWorker
      BY <1>i, <2>1
    <2>4. holds' \in [Procs -> SUBSET [sweep : OfWorker, dropped : BOOLEAN]]
      BY <1>i, <2>2
    <2>5. entries' \subseteq OfWorker
      BY <1>i, <2>1, <2>3
    <2> QED BY <1>i, <1>k, <2>2, <2>4, <2>5 DEF LinesInv
  <1>4. ASSUME NEW p \in Procs, NEW s \in OfWorker, Lines!Hand(p, s)
        PROVE  LinesInv' /\ running' = running
    <2>1. /\ passed' = passed \cup {s} /\ record' = record /\ read' = read /\ holds' = holds
          /\ entries' = entries /\ running' = running /\ due' = due /\ ran' = ran
      BY <1>4 DEF Lines!Hand
    <2> QED BY <1>i, <1>k, <2>1 DEF LinesInv
  <1>5. ASSUME NEW p \in Procs, NEW s \in OfWorker, Lines!Start(p, s)
        PROVE  LinesInv' /\ (running' \ running) \cap ran = {}
    <2>1. /\ s \in due /\ s \notin running
          /\ passed' = passed \ {s} /\ running' = running \cup {s} /\ ran' = ran \cup {s}
          /\ holds' = [holds EXCEPT ![p] = {[sweep |-> s, dropped |-> FALSE]}]
          /\ record' = record /\ read' = read /\ entries' = entries /\ due' = due
      BY <1>5 DEF Lines!Start, Lines!Starts
    <2>2. holds' \in [Procs -> SUBSET [sweep : OfWorker, dropped : BOOLEAN]]
      BY <1>i, <2>1
    <2>3. s \notin ran
      BY <1>i, <2>1
    <2> QED BY <1>i, <1>k, <2>1, <2>2, <2>3 DEF LinesInv
  <1>6. ASSUME NEW p \in Procs, NEW s \in OfWorker, Lines!Discard(p, s)
        PROVE  LinesInv' /\ running' = running
    <2>1. /\ passed' = passed \ {s} /\ record' = Lines!Without(record, s) /\ read' = read
          /\ holds' = holds /\ entries' = entries /\ running' = running /\ due' = due
          /\ ran' = ran
      BY <1>6 DEF Lines!Discard
    <2>2. GoodRecord(Lines!Without(record, s))
      <3> DEFINE t == [do |-> "drop", sweep |-> s]
      <3>1. t \in Lines!Operations /\ t.do = "drop" /\ t.sweep = s
        BY DEF Lines!Operations
      <3>2. Lines!Change(record, t) = Lines!Without(record, s)
        BY <3>1 DEF Lines!Change
      <3> HIDE DEF t
      <3> QED BY <1>i, <3>1, <3>2, ChangeKeeps
    <2>3. GoodRecord(record)'
      BY <2>1, <2>2 DEF GoodRecord
    <2>4. (\A q \in Procs : \A x \in read[q] : GoodRecord(x.record))'
      BY <1>i, <2>1 DEF GoodRecord
    <2> QED BY <1>i, <2>1, <2>3, <2>4 DEF LinesInv
  <1>7. ASSUME NEW s \in OfWorker, Lines!RunEnds(s)
        PROVE  LinesInv' /\ running' \subseteq running
    <2>1. /\ running' = running \ {s} /\ entries' = entries \ {s} /\ due' = due \ {s}
          /\ record' = record /\ read' = read /\ holds' = holds /\ passed' = passed
          /\ ran' = ran
      BY <1>7 DEF Lines!RunEnds
    <2> QED BY <1>i, <1>k, <2>1 DEF LinesInv
  <1>8. ASSUME NEW s \in OfWorker, Lines!SettleLate(s)
        PROVE  LinesInv' /\ running' = running
    <2>1. /\ entries' = entries \ {s} /\ running' = running /\ due' = due
          /\ record' = record /\ read' = read /\ holds' = holds /\ passed' = passed
          /\ ran' = ran
      BY <1>8 DEF Lines!SettleLate
    <2> QED BY <1>i, <1>k, <2>1 DEF LinesInv
  <1>9. ASSUME NEW s \in OfWorker, Lines!ComeDue(s)
        PROVE  LinesInv' /\ running' = running
    <2>1. /\ due' = due \cup {s} /\ ran' = ran \ {s} /\ running' = running
          /\ record' = record /\ read' = read /\ holds' = holds /\ passed' = passed
          /\ entries' = entries
      BY <1>9 DEF Lines!ComeDue
    <2> QED BY <1>i, <1>k, <2>1 DEF LinesInv
  <1>10. ASSUME NEW w \in {w1}, Lines!Rest(w)
         PROVE  LinesInv' /\ running' = running
    <2>1. /\ record' = [record EXCEPT !.rested[w] = TRUE]
          /\ read' = [p \in Procs |-> {[r EXCEPT !.record.rested[w] = TRUE] : r \in read[p]}]
          /\ holds' = holds /\ passed' = passed /\ entries' = entries
          /\ running' = running /\ due' = due /\ ran' = ran
      BY <1>10 DEF Lines!Rest, Lines!outside
    <2>2. GoodRecord(record')
      BY <1>i, <2>1, RestKeeps
    <2>3. ASSUME NEW p \in Procs, NEW r \in read[p]
          PROVE  LET n == [r EXCEPT !.record.rested[w] = TRUE]
                 IN  /\ n \in [task : Lines!Operations, record : LineRecord]
                     /\ GoodRecord(n.record)
      <3> DEFINE c == [r.record EXCEPT !.rested[w] = TRUE]
                 n == [r EXCEPT !.record.rested[w] = TRUE]
      <3>1. r \in [task : Lines!Operations, record : LineRecord] /\ GoodRecord(r.record)
        BY <1>i
      <3>2. GoodRecord(c)
        BY <3>1, RestKeeps
      <3>3. c \in LineRecord
        BY <3>2 DEF GoodRecord
      <3>4. n = [r EXCEPT !.record = c]
        BY <3>1
      <3> HIDE DEF c, n
      <3>5. n \in [task : Lines!Operations, record : LineRecord] /\ n.record = c
        BY <3>1, <3>3, <3>4
      <3> QED BY <3>2, <3>5 DEF n
    <2>4. /\ read' \in [Procs -> SUBSET [task : Lines!Operations, record : LineRecord]]
          /\ \A p \in Procs : \A x \in read'[p] : GoodRecord(x.record)
      BY <2>1, <2>3
    <2>5. GoodRecord(record)' /\ (\A q \in Procs : \A x \in read[q] : GoodRecord(x.record))'
      BY <2>2, <2>4 DEF GoodRecord
    <2> QED BY <1>i, <2>1, <2>4, <2>5 DEF LinesInv
  <1> QED BY <1>1, <1>2, <1>3, <1>4, <1>5, <1>6, <1>7, <1>8, <1>9, <1>10
          DEF Lines!Next, Lines!Step

\* What LinesInv says of every copy of the record.
LEMMA GoodCopies ==
    ASSUME NEW r, GoodRecord(r)
    PROVE  /\ DOMAIN r.line = {w1} /\ DOMAIN r.batch = {w1}
           /\ Lines!ToSet(Lines!Lined(r, w1)) \subseteq OfWorker
           /\ Len(r.batch[w1]) <= PER_RUN
           /\ Lines!IsInjective(Lines!Lined(r, w1))
  <1> DEFINE a == r.batch[w1] \o r.line[w1]
  <1>1. /\ r.batch[w1] \in Seq(OfWorker) /\ r.line[w1] \in Seq(OfWorker)
        /\ DOMAIN r.line = {w1} /\ DOMAIN r.batch = {w1}
        /\ Distinct(r.batch[w1]) /\ Distinct(r.line[w1])
        /\ Members(r.batch[w1]) \cap Members(r.line[w1]) = {}
        /\ Len(r.batch[w1]) <= PER_RUN
    BY DEF GoodRecord, LineRecord
  <1>2. a \in Seq(OfWorker) /\ Distinct(a)
    BY <1>1, Joined
  <1> HIDE DEF a
  <1>3. Lines!ToSet(a) = Members(a) /\ DOMAIN a = 1..Len(a) /\ \A i \in 1..Len(a) : a[i] \in OfWorker
    BY <1>2, SetOfLine
  <1>4. Lines!ToSet(a) \subseteq OfWorker /\ Lines!IsInjective(a)
    BY <1>2, <1>3 DEF Members, Distinct, Lines!IsInjective
  <1> QED BY <1>1, <1>4 DEF a, Lines!Lined

LEMMA LinesAreRight == LinesInv => Lines!TypeOK /\ Lines!OnceInLine
  <1> SUFFICES ASSUME LinesInv PROVE Lines!TypeOK /\ Lines!OnceInLine
    OBVIOUS
  <1>1. \A r \in Lines!Copies : GoodRecord(r)
    BY DEF LinesInv, Lines!Copies
  <1>2. \A r \in Lines!Copies :
           /\ DOMAIN r.line = {w1} /\ DOMAIN r.batch = {w1}
           /\ Lines!ToSet(Lines!Lined(r, w1)) \subseteq OfWorker
           /\ Len(r.batch[w1]) <= PER_RUN
           /\ Lines!IsInjective(Lines!Lined(r, w1))
    BY <1>1, GoodCopies
  <1>3. passed \subseteq OfWorker /\ entries \subseteq OfWorker /\ running \subseteq OfWorker
    BY DEF LinesInv
  <1>4. Lines!TypeOK
    BY <1>2, <1>3 DEF Lines!TypeOK
  <1>5. Lines!OnceInLine
    BY <1>2 DEF Lines!OnceInLine, Lines!NoTwins
  <1> QED BY <1>4, <1>5

\* However the clocks undo each other's writes of the workers' lines, every copy of the
\* record has a sweep at most once in its line and no sweep is started twice in one
\* interval (src/app/workers.py, enqueue, claim, done; src/app/main.py, _dispatch).
THEOREM LinesHoldSweepsOnce == ASSUME WorkersAssumption PROVE MCSpec => OneRunPerInterval
  <1> DEFINE everything == <<machine, allVars, casVars, clockVars, lineVars>>
  <1>1. MCInit => LinesInv
    BY WorkersAssumption, LinesInitInv DEF MCInit
  <1>2. LinesInv /\ [MCNext]_everything =>
           LinesInv' /\ [(running' \ running) \cap ran = {}]_lineVars
    <2> SUFFICES ASSUME LinesInv, [MCNext]_everything
                 PROVE  LinesInv' /\ (running' \ running) \cap ran = {}
      OBVIOUS
    <2>1. CASE Lines!Next
      BY <2>1, WorkersAssumption, LinesNextInv
    <2>2. CASE UNCHANGED lineVars
      BY <2>2 DEF lineVars, LinesInv, GoodRecord
    <2>3. Lines!Next \/ UNCHANGED lineVars
      BY DEF MCNext, lineVars
    <2> QED BY <2>1, <2>2, <2>3
  <1> QED BY <1>1, <1>2, LinesAreRight, PTL
          DEF MCSpec, OneRunPerInterval, Lines!OneRunPerInterval, lineVars, Lines!vars

================================================================================
