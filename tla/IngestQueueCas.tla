----------------------------- MODULE IngestQueueCas ----------------------------
(***************************************************************************)
(* How src/app/ingest_queue.py carries out its operations: `_mutate` reads *)
(* the stored text, computes the new record, and writes it only if the     *)
(* text is still the one it read (machine_store.put_if, a compare inside   *)
(* BEGIN IMMEDIATE), up to _RETRIES times.  A change that leaves the       *)
(* record as it was is not written at all.  Several processes do this at   *)
(* once; the module shows that the callers see the atomic operations of    *)
(* IngestQueue.tla.                                                        *)
(***************************************************************************)
EXTENDS QueueRecord

CONSTANTS
    Procs, Ids, Collections, Sweeps, Times,
    RETRIES        \* _RETRIES of ingest_queue.py, at least 1

\* _mutate reads at least once.
CasAssumption == RETRIES \in Nat \ {0}

VARIABLES
    queue,         \* what machine_store holds
    hand,          \* as in IngestQueue
    call           \* call[p]: the operation p is in the middle of, {} if none

vars == <<queue, hand, call>>

Atomic == INSTANCE IngestQueue

Entry == Atomic!Entry

-----------------------------------------------------------------------------
\* The operations, as data: what `change` does to a record it is given.

Op ==
    [do : {"add", "take", "remove", "put_back"}, entry : Entry]
        \cup [do : {"started"}, entry : Entry, at : Times]
        \cup [do : {"settle"}, names : SUBSET Collections,
              ended : [Collections -> Times], cutoff : Times]
        \cup [do : {"drop"}, collection : Collections, sweep : Sweeps]
        \cup [do : {"forget"}, collection : Collections]

\* take and remove look for the entry's id; a list without it is left alone.
Change(q, op) ==
    CASE op.do = "add" -> Add(q, op.entry)
      [] op.do \in {"take", "remove"} ->
            IF op.entry \in q.waiting THEN Take(q, op.entry) ELSE q
      [] op.do = "put_back" -> PutBack(q, op.entry)
      [] op.do = "started" -> Started(q, op.entry, op.at)
      [] op.do = "settle" -> Settle(q, op.names, op.ended, op.cutoff)
      [] op.do = "drop" -> Drop(q, op.collection, op.sweep)
      [] op.do = "forget" -> Forget(q, op.collection)

\* What the caller holds once the operation has returned.
HandAfter(p, op, q) ==
    CASE op.do = "take" -> [hand EXCEPT ![p] = {op.entry} \cap q.waiting]
      [] op.do \in {"put_back", "started"} -> [hand EXCEPT ![p] = {}]
      [] OTHER -> hand

\* The operations p may be asked for now: the protocol of _dispatch.
May(p, op) ==
    CASE op.do = "add" ->
            /\ op.entry.id \notin Atomic!InUse
            /\ \A o \in Procs : \A c \in call[o] :
                  c.op.do = "add" => c.op.entry.id # op.entry.id
      [] op.do = "take" -> hand[p] = {} /\ op.entry \in queue.waiting
      [] op.do = "remove" -> op.entry \in queue.waiting
      [] op.do \in {"put_back", "started"} -> op.entry \in hand[p]
      [] OTHER -> TRUE

-----------------------------------------------------------------------------

Init ==
    /\ Atomic!Init
    /\ call = [p \in Procs |-> {}]

\* The first read.
Begin(p, op) ==
    /\ call[p] = {}
    /\ May(p, op)
    /\ call' = [call EXCEPT ![p] = {[op |-> op, raw |-> queue, tries |-> 1]}]
    /\ UNCHANGED <<queue, hand>>

\* `change` left the record as it was read: the answer is returned unwritten.
Unchanged(p, c) ==
    /\ c \in call[p]
    /\ Change(c.raw, c.op) = c.raw
    /\ hand' = HandAfter(p, c.op, c.raw)
    /\ call' = [call EXCEPT ![p] = {}]
    /\ UNCHANGED queue

\* Mutant: an unconditional put.
WriteAnyway(p, c) ==
    /\ c \in call[p]
    /\ Change(c.raw, c.op) # c.raw
    /\ queue' = Change(c.raw, c.op)
    /\ hand' = HandAfter(p, c.op, c.raw)
    /\ call' = [call EXCEPT ![p] = {}]

\* put_if: the stored text is the one that was read.
Write(p, c) ==
    /\ c \in call[p]
    /\ Change(c.raw, c.op) # c.raw
    /\ queue = c.raw
    /\ queue' = Change(c.raw, c.op)
    /\ hand' = HandAfter(p, c.op, c.raw)
    /\ call' = [call EXCEPT ![p] = {}]

\* Mutant: one attempt too many.
RetryOnceMore(p, c) ==
    /\ c \in call[p]
    /\ Change(c.raw, c.op) # c.raw
    /\ queue # c.raw
    /\ c.tries <= RETRIES
    /\ call' = [call EXCEPT ![p] = {[c EXCEPT !.raw = queue, !.tries = @ + 1]}]
    /\ UNCHANGED <<queue, hand>>

\* put_if lost; read again.
Retry(p, c) ==
    /\ c \in call[p]
    /\ Change(c.raw, c.op) # c.raw
    /\ queue # c.raw
    /\ c.tries < RETRIES
    /\ call' = [call EXCEPT ![p] = {[c EXCEPT !.raw = queue, !.tries = @ + 1]}]
    /\ UNCHANGED <<queue, hand>>

\* RuntimeError: every attempt lost.  A put_back or a started that fails loses
\* the entry _dispatch had in hand.
Raise(p, c) ==
    /\ c \in call[p]
    /\ Change(c.raw, c.op) # c.raw
    /\ queue # c.raw
    /\ c.tries = RETRIES
    /\ hand' = IF c.op.do \in {"put_back", "started"} THEN [hand EXCEPT ![p] = {}] ELSE hand
    /\ call' = [call EXCEPT ![p] = {}]
    /\ UNCHANGED queue

\* The process restarts, or _dispatch gives the entry up.
Abandon(p) ==
    /\ hand[p] # {} \/ call[p] # {}
    /\ hand' = [hand EXCEPT ![p] = {}]
    /\ call' = [call EXCEPT ![p] = {}]
    /\ UNCHANGED queue

Next ==
    \/ \E p \in Procs, op \in Op : Begin(p, op)
    \/ \E p \in Procs : \E c \in call[p] :
          Unchanged(p, c) \/ Write(p, c) \/ Retry(p, c) \/ Raise(p, c)
    \/ \E p \in Procs : Abandon(p)

Spec == Init /\ [][Next]_vars

-----------------------------------------------------------------------------

\* The stored record is a queue; a process is in one call, within its RETRIES.
TypeOK ==
    /\ Atomic!TypeOK
    /\ \A p \in Procs :
          /\ call[p] \subseteq [op : Op, raw : Atomic!Queue, tries : 1..RETRIES]
          /\ \A c, d \in call[p] : c = d

\* No interleaving of reads and conditional writes shows a caller anything but
\* the atomic operations: an update is never lost, an entry never taken twice,
\* a retry never applied twice.
ImplementsAtomicQueue == Atomic!Spec

================================================================================
