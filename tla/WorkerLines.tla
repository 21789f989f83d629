------------------------------ MODULE WorkerLines ------------------------------
(***************************************************************************)
(* The record of the workers' lines (src/app/workers.py, "queue") under    *)
(* the clocks of several processes.  Every operation reads the whole       *)
(* record and writes the whole record back, without looking whether it     *)
(* changed meanwhile, so operations of two processes undo each other.  The *)
(* module asks what a sweep is still sure of: Dispatch takes each of these *)
(* operations as one step, this module takes it as two.                    *)
(*                                                                         *)
(* A tick calls the operations one after the other, for every sweep and    *)
(* every worker; here a clock does them in any order.                      *)
(***************************************************************************)
EXTENDS Lists, SequencesExt

CONSTANTS
    Clocks,        \* processes: a clock, or the thread of a run that a provider refuses;
                   \* bound: no more operations overlap than there are of them
    Sweeps,
    Workers,
    WorkerOf,
    PER_RUN        \* how many entries a worker claims at once

LinesAssumption == WorkerOf \in [Sweeps -> Workers] /\ PER_RUN \in Nat

VARIABLES
    record,        \* what machine_store holds
    read,          \* read[p]: the operation p is in and the record it has read, {} if none
    hand,          \* hand[p]: the sweep p has started and not yet noted, and whether
                   \* it has been dropped from the lines; {} if none
    waiting,       \* ingest_queue: worker entries that wait ...
    noted,         \* ... and the sweeps noted as running
    running,       \* what the trigger runs
    due,           \* sweeps whose interval has passed since they last ran
    ran            \* history: sweeps that were started since they last came due

vars == <<record, read, hand, waiting, noted, running, due, ran>>
outside == <<waiting, noted, running, due, ran>>

Record == [line : [Workers -> Seq(Sweeps)], batch : [Workers -> Seq(Sweeps)],
           awake : [Workers -> BOOLEAN], rested : [Workers -> BOOLEAN]]

Operations ==
    [do : {"enqueue", "done", "drop"}, sweep : Sweeps]
        \cup [do : {"finish", "claim"}, worker : Workers] \cup [do : {"mark"}]

-----------------------------------------------------------------------------
\* The operations of workers.py on the record they have read.  "mark" (mark_full)
\* changes only the mark of a provider, which is left out: whether a provider may be
\* asked is open in Hand.

Lined(r, w) == r.batch[w] \o r.line[w]

Without(r, s) ==
    [r EXCEPT !.line = [w \in Workers |-> Kept(@[w], Sweeps \ {s})],
              !.batch = [w \in Workers |-> Kept(@[w], Sweeps \ {s})]]

\* Mutant: the line is not looked at.
EnqueueAgain(r, s) ==
  LET w == WorkerOf[s] IN
    IF s \in ToSet(r.batch[w]) THEN r ELSE [r EXCEPT !.line[w] = Append(@, s)]

Enqueue(r, s) ==
  LET w == WorkerOf[s] IN
    IF s \in ToSet(Lined(r, w)) THEN r ELSE [r EXCEPT !.line[w] = Append(@, s)]

Claim(r, w) ==
    IF r.batch[w] # <<>> THEN r
    ELSE LET n == IF Len(r.line[w]) < PER_RUN THEN Len(r.line[w]) ELSE PER_RUN
         IN  [r EXCEPT !.batch[w] = SubSeq(r.line[w], 1, n),
                       !.line[w] = SubSeq(@, n + 1, Len(@)), !.awake[w] = TRUE]

\* note_finished: once after each awakening; the interval counts from here.
Finish(r, w) ==
    IF r.awake[w] THEN [r EXCEPT !.awake[w] = FALSE, !.rested[w] = FALSE] ELSE r

Change(r, t) ==
    CASE t.do = "enqueue" -> Enqueue(r, t.sweep)
      [] t.do \in {"done", "drop"} -> Without(r, t.sweep)
      [] t.do = "finish" -> Finish(r, t.worker)
      [] t.do = "claim" -> Claim(r, t.worker)
      [] t.do = "mark" -> r

-----------------------------------------------------------------------------

Init ==
    /\ record = [line |-> [w \in Workers |-> <<>>], batch |-> [w \in Workers |-> <<>>],
                 awake |-> [w \in Workers |-> FALSE], rested |-> [w \in Workers |-> TRUE]]
    /\ read = [p \in Clocks |-> {}]
    /\ hand = [p \in Clocks |-> {}]
    /\ waiting = {} /\ noted = {} /\ running = {}
    /\ due = Sweeps /\ ran = {}

ForWorker(w) == \E s \in waiting \cup noted : WorkerOf[s] = w

\* What a clock looks at before it calls an operation.
Called(p, t) ==
    \/ t.do = "enqueue" /\ t.sweep \in due /\ t.sweep \notin waiting \cup noted
    \/ t.do = "done" /\ t.sweep \notin due /\ t.sweep \in ToSet(Lined(record, WorkerOf[t.sweep]))
    \/ t.do = "finish" /\ ~ForWorker(t.worker) /\ record.batch[t.worker] = <<>>
    \/ /\ t.do = "claim"
       /\ ~ForWorker(t.worker)
       /\ record.batch[t.worker] = <<>> /\ record.line[t.worker] # <<>>
       /\ record.rested[t.worker]
    \/ t.do = "drop" /\ [sweep |-> t.sweep, dropped |-> FALSE] \in hand[p]
    \/ t.do = "mark" /\ running # {}

\* Only done, drop and mark write a record they have not changed.  From a start to its
\* note a process does nothing but drop the sweep.
Read(p, t) ==
    /\ read[p] = {}
    /\ hand[p] # {} => t.do = "drop"
    /\ Called(p, t)
    /\ t.do \in {"done", "drop", "mark"} \/ Change(record, t) # record
    /\ read' = [read EXCEPT ![p] = {[task |-> t, record |-> record]}]
    /\ UNCHANGED <<record, hand, outside>>

Write(p) ==
    /\ \E r \in read[p] : record' = Change(r.record, r.task)
    /\ read' = [read EXCEPT ![p] = {}]
    /\ hand' = [hand EXCEPT ![p] =
          {[h EXCEPT !.dropped = @ \/ \E r \in read[p] : r.task.do = "drop"] : h \in @}]
    /\ UNCHANGED outside

\* _hand_next: the first of the batch that is due goes to the ingest queue; the
\* others were taken out by "done" of this tick or will be by the next.
Hand(p, s) ==
    LET w == WorkerOf[s] IN
    /\ read[p] = {} /\ hand[p] = {}
    /\ ~ForWorker(w)
    /\ s \in due
    /\ \E i \in 1..Len(record.batch[w]) :
          record.batch[w][i] = s /\ \A j \in 1..i-1 : record.batch[w][j] \notin due
    /\ waiting' = waiting \cup {s}
    /\ UNCHANGED <<record, read, hand, noted, running, due, ran>>

\* Mutant: whether the sweep is due is not looked at again.
StartsWaiting(p, s) ==
    /\ read[p] = {} /\ hand[p] = {}
    /\ s \in waiting /\ s \notin running
    /\ ~\E x \in noted : WorkerOf[x] = WorkerOf[s]

\* _dispatch: an entry that is still due, of a worker of which nothing is noted.
Starts(p, s) ==
    /\ read[p] = {} /\ hand[p] = {}
    /\ s \in waiting /\ s \in due /\ s \notin running
    /\ ~\E x \in noted : WorkerOf[x] = WorkerOf[s]

\* From the look at the entry to the trigger's answer no run begins and ends.
Start(p, s) ==
    /\ Starts(p, s)
    /\ waiting' = waiting \ {s}
    /\ running' = running \cup {s}
    /\ ran' = ran \cup {s}
    /\ hand' = [hand EXCEPT ![p] = {[sweep |-> s, dropped |-> FALSE]}]
    /\ UNCHANGED <<record, read, noted, due>>

\* An entry that is not due any more is dropped from both queues.
Discard(p, s) ==
    /\ read[p] = {} /\ hand[p] = {}
    /\ s \in waiting \ due
    /\ waiting' = waiting \ {s}
    /\ record' = Without(record, s)
    /\ UNCHANGED <<read, hand, noted, running, due, ran>>

\* After the drop, what was started is noted.
Note(p) ==
    /\ \E h \in hand[p] : h.dropped /\ noted' = noted \cup {h.sweep}
    /\ hand' = [hand EXCEPT ![p] = {}]
    /\ UNCHANGED <<record, read, waiting, running, due, ran>>

Step(p) ==
    \/ \E t \in Operations : Read(p, t)
    \/ Write(p) \/ Note(p)
    \/ \E s \in Sweeps : Hand(p, s) \/ Start(p, s) \/ Discard(p, s)

-----------------------------------------------------------------------------
\* Runs, providers, people and time.

\* A run's end: recorded, so its interval starts, and settled by the next tick.
RunEnds(s) ==
    /\ s \in running
    /\ running' = running \ {s}
    /\ noted' = noted \ {s}
    /\ due' = due \ {s}
    /\ UNCHANGED <<record, read, hand, waiting, ran>>

\* A note written after its run's end is settled later.
SettleLate(s) ==
    /\ s \in noted \ running
    /\ noted' = noted \ {s}
    /\ UNCHANGED <<record, read, hand, waiting, running, due, ran>>

\* The interval of a worker has passed, whoever holds a copy of the record.
Rest(w) ==
    /\ ~record.rested[w]
    /\ record' = [record EXCEPT !.rested[w] = TRUE]
    /\ read' = [p \in Clocks |-> {[r EXCEPT !.record.rested[w] = TRUE] : r \in read[p]}]
    /\ UNCHANGED <<hand, outside>>

ComeDue(s) ==
    /\ s \notin due /\ s \notin running
    /\ due' = due \cup {s}
    /\ ran' = ran \ {s}
    /\ UNCHANGED <<record, read, hand, waiting, noted, running>>

Next ==
    \/ \E p \in Clocks : Step(p)
    \/ \E s \in Sweeps : RunEnds(s) \/ SettleLate(s) \/ ComeDue(s)
    \/ \E w \in Workers : Rest(w)

Spec == Init /\ [][Next]_vars

-----------------------------------------------------------------------------

Copies == {record} \cup UNION {{r.record : r \in read[p]} : p \in Clocks}

NoTwins(r) == \A w \in Workers : IsInjective(Lined(r, w))

\* A line holds sweeps; what is handed over at once stays within PER_RUN.
TypeOK ==
    /\ \A r \in Copies :
          /\ DOMAIN r.line = Workers /\ DOMAIN r.batch = Workers
          /\ \A w \in Workers : ToSet(Lined(r, w)) \subseteq Sweeps /\ Len(r.batch[w]) <= PER_RUN
    /\ waiting \subseteq Sweeps /\ noted \subseteq Sweeps /\ running \subseteq Sweeps

\* Whichever changes undo each other, no copy of the record has a sweep twice in
\* one worker's line (src/app/workers.py:376 "if it is there already it is not
\* queued (so that it does not run twice)").
OnceInLine ==
    \A r \in Copies : NoTwins(r)

\* A sweep that comes back into the line because a change was undone, or because
\* the other clock had an old note of it, is not run a second time in one interval
\* (src/app/main.py:803 "the same sweep ran once more right after it finished").
OneRunPerInterval == [][(running' \ running) \cap ran = {}]_vars

================================================================================
