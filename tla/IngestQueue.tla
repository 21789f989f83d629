------------------------------ MODULE IngestQueue ------------------------------
(***************************************************************************)
(* What src/app/ingest_queue.py promises its callers: every operation on   *)
(* the queue is one atomic step, whoever calls it.  The callers are the    *)
(* two clocks of chiezo-app, one per uvicorn worker, and the request       *)
(* threads; each follows the protocol of `_dispatch` in src/app/main.py:   *)
(* take an entry, try to start it, then note it as started, put it back,   *)
(* or give it up.  Whether the start succeeds is left open here            *)
(* (Dispatch.tla decides it); IngestQueueCas.tla shows how the atomic      *)
(* steps come out of a read and a conditional write.                       *)
(***************************************************************************)
EXTENDS QueueRecord

CONSTANTS
    Procs,         \* callers that take entries out of the queue
    Ids,           \* identities of entries (uuid4); an id is free again once nobody holds it
    Collections,
    Sweeps,
    Times          \* the moments a status or a clock can name, 0 is "not listed"

ASSUME TimesAssumption == Times \subseteq Nat

VARIABLES
    queue,         \* the stored record
    hand           \* hand[p]: the entry p took and has not disposed of yet

vars == <<queue, hand>>

\* The queue never looks at an entry's origin, worker and times; `named` tells
\* whether it carries a run_once.
Entry == [id : Ids, collection : Collections, sweep : Sweeps, named : BOOLEAN]

Run == [entry : Entry, at : Times]

Queue == [waiting : SUBSET Entry, ahead : SUBSET (Ids \X Ids), running : SUBSET Run]

RunIds(q) == {r.entry.id : r \in q.running}

InUse == IdsOf(queue.waiting) \cup RunIds(queue) \cup UNION {IdsOf(hand[p]) : p \in Procs}

-----------------------------------------------------------------------------

Init ==
    /\ queue = Empty
    /\ hand = [p \in Procs |-> {}]

\* add, by a clock or by a person's request.
Push(e) ==
    /\ e.id \notin InUse
    /\ queue' = Add(queue, e)
    /\ UNCHANGED hand

\* take, from _dispatch.
TakeOut(p, e) ==
    /\ hand[p] = {}
    /\ e \in queue.waiting
    /\ queue' = Take(queue, e)
    /\ hand' = [hand EXCEPT ![p] = {e}]

\* 409, 429 or an unexpected exception while starting.
Return(p, e) ==
    /\ e \in hand[p]
    /\ queue' = PutBack(queue, e)
    /\ hand' = [hand EXCEPT ![p] = {}]

NoteStarted(p, e, at) ==
    /\ e \in hand[p]
    /\ queue' = Started(queue, e, at)
    /\ hand' = [hand EXCEPT ![p] = {}]

\* Another HTTP error while starting, or the process died holding the entry.
GiveUp(p, e) ==
    /\ e \in hand[p]
    /\ hand' = [hand EXCEPT ![p] = {}]
    /\ UNCHANGED queue

\* remove: the page's button, and _dispatch for what must not run any more.
Remove(e) ==
    /\ e \in queue.waiting
    /\ queue' = Take(queue, e)
    /\ UNCHANGED hand

SettleRuns(names, ended, cutoff) ==
    /\ queue' = Settle(queue, names, ended, cutoff)
    /\ UNCHANGED hand

DropPair(c, s) ==
    /\ queue' = Drop(queue, c, s)
    /\ UNCHANGED hand

ForgetCollection(c) ==
    /\ queue' = Forget(queue, c)
    /\ UNCHANGED hand

Next ==
    \/ \E e \in Entry : Push(e)
    \/ \E p \in Procs, e \in queue.waiting : TakeOut(p, e)
    \/ \E p \in Procs : \E e \in hand[p] : Return(p, e) \/ GiveUp(p, e)
    \/ \E p \in Procs : \E e \in hand[p], at \in Times : NoteStarted(p, e, at)
    \/ \E e \in queue.waiting : Remove(e)
    \/ \E names \in SUBSET Collections, ended \in [Collections -> Times], cutoff \in Times :
          SettleRuns(names, ended, cutoff)
    \/ \E c \in Collections, s \in Sweeps : DropPair(c, s)
    \/ \E c \in Collections : ForgetCollection(c)

Spec == Init /\ [][Next]_vars

-----------------------------------------------------------------------------

\* R is a strict total order on W and says nothing of anything else.
StrictLine(W, R) ==
    /\ R \subseteq W \X W
    /\ \A a \in W : <<a, a>> \notin R
    /\ \A a, b \in W : a # b => <<a, b>> \in R \/ <<b, a>> \in R
    /\ \A a, b, c \in W : <<a, b>> \in R /\ <<b, c>> \in R => <<a, c>> \in R

\* The record holds entries and runs; what processes hold in hand are entries.
TypeOK ==
    /\ queue \in Queue
    /\ hand \in [Procs -> SUBSET Entry]

\* The same pair never waits twice: neither `add` nor `put_back` of one clock,
\* racing the `add` of the other, lines up two ordinary runs of one sweep
\* (src/app/ingest_queue.py, "add" and "put_back").
NoPlainTwins ==
    \A e, f \in queue.waiting :
        ~e.named /\ ~f.named /\ Same(e, f.collection, f.sweep) => e = f

\* One request is in one place: it waits, or one caller has it in hand, or it
\* is noted as running.  Two clocks can never both be starting the same entry.
OneHolder ==
    /\ \A e, f \in queue.waiting : e.id = f.id => e = f
    /\ \A r, t \in queue.running : r.entry.id = t.entry.id => r = t
    /\ \A p \in Procs : \A e, f \in hand[p] : e = f
    /\ \A p, o \in Procs : p # o => IdsOf(hand[p]) \cap IdsOf(hand[o]) = {}
    /\ \A p \in Procs : IdsOf(hand[p]) \cap (IdsOf(queue.waiting) \cup RunIds(queue)) = {}
    /\ IdsOf(queue.waiting) \cap RunIds(queue) = {}

\* The waiting entries stand in one line, so `position` tells each caller a
\* different number and `_dispatch` a definite head, after any mix of takes
\* from the middle, returns to the head and filters.
OneLine == StrictLine(IdsOf(queue.waiting), queue.ahead)

\* A request that names its own partitions (run_once) is never folded into
\* another one: it leaves the line only for somebody's hand, by the page's
\* "remove", or together with its deleted collection
\* (src/app/ingest_queue.py, "add", "put_back" and "drop").
NamedIsNeverFolded ==
    [][\A e \in queue.waiting :
          e.named /\ e \notin queue'.waiting =>
             \/ \E p \in Procs : e \in hand'[p]
             \/ Remove(e)
             \/ ForgetCollection(e.collection)]_vars

================================================================================
