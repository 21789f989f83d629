------------------------------ MODULE QueueRecord ------------------------------
(***************************************************************************)
(* The record that src/app/ingest_queue.py keeps under ("ingest", "queue") *)
(* and the functions its callers apply to it.  Every operator here is one  *)
(* `change` closure of that file: it maps the record read to the record to *)
(* write; how the result is written is the business of IngestQueueCas.     *)
(*                                                                         *)
(* The list `waiting` is a set of entries plus the relation `ahead` on     *)
(* their ids, <<a, b>> \in ahead when a stands before b in the list.  The  *)
(* list `running` is only ever filtered and appended to, so it is a set.   *)
(***************************************************************************)
EXTENDS Naturals, FiniteSets

Empty == [waiting |-> {}, ahead |-> {}, running |-> {}]

IdsOf(S) == {e.id : e \in S}

Same(e, c, s) == e.collection = c /\ e.sweep = s

\* The plain entries (no run_once) of one (collection, sweep) pair.
Plain(W, c, s) == {e \in W : Same(e, c, s) /\ ~e.named}

\* The list with only the entries of W left, in their order.
OnlyWaiting(q, W) ==
    [q EXCEPT !.waiting = W, !.ahead = @ \cap (IdsOf(W) \X IdsOf(W))]

AtEnd(q, e) ==
    [q EXCEPT !.waiting = @ \cup {e}, !.ahead = @ \cup (IdsOf(q.waiting) \X {e.id})]

AtFront(q, e) ==
    [q EXCEPT !.waiting = @ \cup {e}, !.ahead = @ \cup ({e.id} \X IdsOf(q.waiting))]

\* Mutant: new requests go to the head.
AddAtHead(q, e) ==
    IF ~e.named /\ Plain(q.waiting, e.collection, e.sweep) # {} THEN q ELSE AtFront(q, e)

\* add: an entry without run_once is folded into a waiting one of its pair.
Add(q, e) ==
    IF ~e.named /\ Plain(q.waiting, e.collection, e.sweep) # {} THEN q ELSE AtEnd(q, e)

\* Mutant: the entry is handed out and stays in the list.
TakeKeeping(q, e) == q

\* take and remove: the entry leaves the list, wherever it stands.
Take(q, e) == OnlyWaiting(q, q.waiting \ {e})

\* Mutant: the pair that was queued again is not looked for.
PutBackUnfolded(q, e) ==
    IF e.id \in IdsOf(q.waiting) THEN q ELSE AtFront(q, e)

\* put_back: to the head of the list, folding the pair that was queued again.
PutBack(q, e) ==
    IF e.id \in IdsOf(q.waiting)
    THEN q
    ELSE AtFront(OnlyWaiting(q, IF e.named
                                THEN q.waiting
                                ELSE q.waiting \ Plain(q.waiting, e.collection, e.sweep)), e)

\* Mutant: the entry is noted without the time of its start.
StartedUntimed(q, e, at) == [q EXCEPT !.running = @ \cup {[entry |-> e]}]

\* started: what was handed to the trigger, with the time of the tick.
Started(q, e, at) == [q EXCEPT !.running = @ \cup {[entry |-> e, at |-> at]}]

\* Mutant: whatever the trigger does not list as running is over.
GoneAtOnce(r, names, ended, cutoff) == r.entry.collection \notin names

\* settle: the noted runs of which the trigger says, or enough time says, that
\* they are over.  `names` are the sources running in the status, ended[c] the
\* end of the last finished run of c (0 if none is listed), cutoff = now - grace.
Gone(r, names, ended, cutoff) ==
    /\ r.entry.collection \notin names
    /\ \/ ended[r.entry.collection] # 0 /\ ended[r.entry.collection] >= r.at
       \/ r.at <= cutoff

Settle(q, names, ended, cutoff) ==
    [q EXCEPT !.running = {r \in @ : ~Gone(r, names, ended, cutoff)}]

\* Mutant: the requests for particular partitions go as well.
DropNamedToo(q, c, s) == OnlyWaiting(q, {e \in q.waiting : ~Same(e, c, s)})

\* drop: the pair ran by another way, its plain entries are not needed any more.
Drop(q, c, s) == OnlyWaiting(q, q.waiting \ Plain(q.waiting, c, s))

\* forget: the collection was deleted.
Forget(q, c) ==
    [OnlyWaiting(q, {e \in q.waiting : e.collection # c}) EXCEPT
        !.running = {r \in @ : r.entry.collection # c}]

================================================================================
