-------------------------------- MODULE Dispatch -------------------------------
(***************************************************************************)
(* How a sweep gets to run: the clocks of chiezo-app (one per uvicorn      *)
(* worker process), the requests of people and outside apps, the queue of  *)
(* QueueRecord, the workers' own lines, the definition of each collection, *)
(* and the trigger that runs the ingest (src/app/main.py, _collection_tick *)
(* to run_or_queue).                                                       *)
(*                                                                         *)
(* A step is what a process does between two looks at what others write:   *)
(* one queue operation (atomic by IngestQueueCas), one call of the         *)
(* trigger, or one write of a collection's definition.  The writes a tick  *)
(* makes to the workers' lines one after the other are one step (Fill,     *)
(* Advance, Discard).  A sweep is the whole of a collection's material     *)
(* here: its ledger, and the rewinding of runs that failed to bake, which  *)
(* a tick does first and which moves no date, are left out.                *)
(***************************************************************************)
EXTENDS QueueRecord, Lists, SequencesExt

CONSTANTS
    Clocks,        \* processes whose tick runs
    Askers,        \* request threads of "run now" and POST /v1/collect/{name}/run
    Wakers,        \* request threads of "wake the worker"
    Ids,
    Collections,
    Sweeps,
    CollOf,        \* CollOf[s]: the collection sweep s belongs to
    Workers,
    NoWorker,
    WorkerOf,      \* WorkerOf[s]: the worker s is left to, or NoWorker
    NoSweep,       \* an empty pending_sweep
    Casts          \* bound: the casts, by name; see `cast`

ASSUME DispatchAssumption ==
    /\ CollOf \in [Sweeps -> Collections]
    /\ WorkerOf \in [Sweeps -> Workers \cup {NoWorker}]
    /\ NoWorker \notin Workers /\ NoSweep \notin Sweeps
    /\ IsFiniteSet(Sweeps)
    /\ Clocks \cap (Askers \cup Wakers) = {}
    /\ \A k \in Range(Casts) :
          /\ k.who \subseteq Clocks \cup Askers \cup Wakers
          /\ k.sweeps \subseteq Sweeps /\ k.ids \subseteq Ids
          /\ k.slots \in Nat \ {0} /\ k.perRun \in Nat \ {0}
          /\ k.throttled \subseteq Workers /\ k.tended \subseteq Collections
          /\ k.faults \subseteq {"lost_reply", "unreachable", "crash", "restart"}

Procs == Clocks \cup Askers \cup Wakers

VARIABLES
    queue,         \* ingest_queue
    line, batch,   \* the workers' queue and batch (workers.py)
    rested,        \* workers whose interval since their last batch has passed
    pending,       \* pending_sweep of each collection
    due,           \* sweeps whose next run is due
    enabled,       \* collections that are switched on
    runs,          \* what the trigger is running
    proc,          \* where each process is
    cast           \* the name of a cast, chosen at the start

\* A cast: the processes (who), sweeps and ids there are, the slots of the trigger
\* (CHIEZO_INGEST_SLOTS), how many entries a worker claims at once, the workers
\* whose quotas may be used up, the collections a person switches and takes
\* entries of, and the faults that occur.
Cast == Casts[cast]

vars == <<queue, line, batch, rested, pending, due, enabled, runs, proc>>

definition == <<pending, due, enabled>>
lines == <<line, batch, rested>>

Entry == [id : Ids, collection : Collections, sweep : Sweeps, named : {FALSE},
          origin : {"schedule", "worker", "manual"}, worker : Workers \cup {NoWorker}]

\* phase asked: the trigger started it, chiezo-app was not asked for material yet;
\* collecting: the material is being made for sweep `ran`; baking: it is recorded.
Run == [collection : Collections, sweep : Sweeps, ran : Sweeps \cup {NoSweep},
        worker : Workers \cup {NoWorker}, phase : {"asked", "collecting", "baking"}]

-----------------------------------------------------------------------------
\* Processes.  `errand` is what the process is doing, `at` where it is in it;
\* the other fields are the locals of the functions it is in.

Idle == [errand |-> "none", at |-> "idle", seen |-> {}, names |-> {}, free |-> 0,
         todo |-> <<>>, busy |-> {}, hand |-> {}, sweep |-> NoSweep,
         was |-> NoSweep, code |-> 0]

Go(p, at) == proc' = [proc EXCEPT ![p].at = at]

RunningNames == {r.collection : r \in runs}

\* Mutant: that the sweep ran meanwhile is not looked at.
StaleIfOff(s) == ~enabled[CollOf[s]]

\* The reasons of _no_longer_due this model has: the collection was switched
\* off, or the sweep ran meanwhile by another way and is not due any more.
Stale(s) == ~enabled[CollOf[s]] \/ s \notin due

Live == {s \in Sweeps : ~Stale(s)}

InUse == IdsOf(queue.waiting) \cup {r.entry.id : r \in queue.running}
            \cup UNION {IdsOf(proc[p].hand) : p \in Procs}

\* The new entry for a pair, with an id nobody holds.
NewEntry(s, origin, w) ==
    [id |-> CHOOSE i \in Cast.ids : Cast.ids \ InUse # {} => i \notin InUse,
     collection |-> CollOf[s], sweep |-> s,
     named |-> FALSE, origin |-> origin, worker |-> w]

\* Bound: the model's ids are not exhausted, or none is needed because the new
\* entry is folded into a waiting one.
Room(s) == Cast.ids \ InUse # {} \/ Plain(queue.waiting, CollOf[s], s) # {}

ForWorker(w) ==
    \/ \E e \in queue.waiting : e.worker = w
    \/ \E r \in queue.running : r.entry.worker = w

WaitingInOrder ==
    SetToSortSeq(queue.waiting, LAMBDA a, b : <<a.id, b.id>> \in queue.ahead)

Lined(w) == ToSet(line[w]) \cup ToSet(batch[w])

DropFromLines(s) ==
    /\ line' = [w \in Workers |-> Kept(line[w], Sweeps \ {s})]
    /\ batch' = [w \in Workers |-> Kept(batch[w], Sweeps \ {s})]

-----------------------------------------------------------------------------

Init ==
    /\ queue = Empty
    /\ line = [w \in Workers |-> <<>>]
    /\ batch = [w \in Workers |-> <<>>]
    /\ rested = Workers
    /\ pending = [c \in Collections |-> NoSweep]
    /\ cast \in DOMAIN Casts
    /\ due = Cast.sweeps
    /\ enabled = [c \in Collections |-> TRUE]
    /\ runs = {}
    /\ proc = [p \in Procs |-> Idle]

-----------------------------------------------------------------------------
\* One tick of the clock (_collection_tick).

\* _fill_worker_queues reads what is in flight first ...
Tick(p) ==
    /\ proc[p].at = "idle"
    /\ proc' = [proc EXCEPT ![p] = [Idle EXCEPT
                   !.errand = "tick", !.at = "filling",
                   !.seen = {e.sweep : e \in queue.waiting}
                               \cup {r.entry.sweep : r \in queue.running}]]
    /\ UNCHANGED <<queue, lines, definition, runs>>

\* ... then lines up the workers' sweeps that are due and not in flight, and
\* takes out what must not run any more (_drop_stale_from_queues).
Fill(p) ==
    /\ proc[p].at = "filling"
    /\ \E order \in SetToSeqs({s \in due : /\ WorkerOf[s] # NoWorker
                                           /\ enabled[CollOf[s]]
                                           /\ s \notin proc[p].seen
                                           /\ s \notin Lined(WorkerOf[s])}) :
          line' = [w \in Workers |->
                      Kept(line[w], Live) \o Kept(order, {s \in Sweeps : WorkerOf[s] = w})]
    /\ batch' = [w \in Workers |-> Kept(batch[w], Live)]
    /\ proc' = [proc EXCEPT ![p].at = "fetching", ![p].seen = {}]
    /\ UNCHANGED <<queue, rested, definition, runs>>

\* The status of the trigger, for the rest of the errand.
Fetch(p) ==
    /\ proc[p].at = "fetching"
    /\ proc' = [proc EXCEPT ![p].at = IF proc[p].errand = "tick" THEN "settling" ELSE "serving",
                            ![p].names = RunningNames,
                            ![p].free = Cast.slots - Cardinality(runs)]
    /\ UNCHANGED <<queue, lines, definition, runs>>

FetchFails(p) ==
    /\ "unreachable" \in Cast.faults
    /\ proc[p].at = "fetching"
    /\ proc' = [proc EXCEPT ![p] = Idle]
    /\ UNCHANGED <<queue, lines, definition, runs>>

\* The run noted for entry e is going on.
StillRuns(e) == \E r \in runs : r.collection = e.collection /\ r.sweep = e.sweep

\* Mutants: settle that believes no run, and settle that takes an empty list of
\* runs for a status it could not read.
SettleAll(p) ==
    /\ proc[p].at = "settling"
    /\ queue' = [queue EXCEPT !.running = {}]
    /\ Go(p, "advancing")
    /\ UNCHANGED <<lines, definition, runs>>

SettleUnlessIdle(p) ==
    /\ proc[p].at = "settling"
    /\ LET over == {r \in queue.running :
                       /\ proc[p].names # {}
                       /\ r.entry.collection \notin proc[p].names
                       /\ ~StillRuns(r.entry)}
       IN /\ queue' = [queue EXCEPT !.running = @ \ over]
          /\ due' = {s \in due : WorkerOf[s] = NoWorker
                                    \/ \A r \in over : r.entry.sweep # s}
    /\ Go(p, "advancing")
    /\ UNCHANGED <<lines, pending, enabled, runs>>

\* ingest_queue.settle with the status read before.  What it compares by time
\* (QueueRecord!Gone) is taken at its meaning: the noted run is over.  The end
\* is noted at the sweep (note_finished), from where a worker's sweep counts
\* its interval.
SettleNotes(p) ==
    /\ proc[p].at = "settling"
    /\ LET over == {r \in queue.running :
                       r.entry.collection \notin proc[p].names /\ ~StillRuns(r.entry)}
       IN /\ queue' = [queue EXCEPT !.running = @ \ over]
          /\ due' = {s \in due : WorkerOf[s] = NoWorker
                                    \/ \A r \in over : r.entry.sweep # s}
    /\ Go(p, "advancing")
    /\ UNCHANGED <<lines, pending, enabled, runs>>

\* A worker of W with nothing in the ingest queue goes on with its batch, or
\* claims one from its line if it is in `may`; what must not run any more leaves
\* the head of the batch, and the next sweep is handed over unless the quotas of
\* the worker's backends (those in `full`) are used up (_hand_next).
ChooseHeads(p, W, may, full) ==
    LET idle == {w \in W : ~ForWorker(w)}
        wakes(w) == w \in idle /\ batch[w] = <<>> /\ Lined(w) # {} /\ w \in may
        size(w) == IF Len(line[w]) < Cast.perRun THEN Len(line[w]) ELSE Cast.perRun
        claimed(w) == IF wakes(w) THEN SubSeq(line[w], 1, size(w)) ELSE batch[w]
        alive(w) == {i \in 1..Len(claimed(w)) : claimed(w)[i] \in Live}
        live(w) == IF alive(w) = {} THEN <<>>
                   ELSE SubSeq(claimed(w), Min(alive(w)), Len(claimed(w)))
    IN /\ line' = [w \in Workers |->
                      IF wakes(w) THEN SubSeq(line[w], size(w) + 1, Len(line[w])) ELSE line[w]]
       /\ batch' = [w \in Workers |-> IF w \in idle THEN live(w) ELSE batch[w]]
       /\ rested' = {w \in rested : ~wakes(w)}
       /\ proc' = [proc EXCEPT
                      ![p].at = "handing",
                      ![p].seen = {Head(live(w)) : w \in {v \in idle \ full : live(v) # <<>>}}]

\* _advance_workers.
Advance(p) ==
    /\ proc[p].at = "advancing"
    /\ \E full \in SUBSET Cast.throttled : ChooseHeads(p, Workers, rested, full)
    /\ UNCHANGED <<queue, definition, runs>>

\* ingest_queue.add for a head that was chosen.
HandOver(p, s) ==
    /\ proc[p].at = "handing"
    /\ s \in proc[p].seen
    /\ Room(s)
    /\ queue' = Add(queue, NewEntry(s, "worker", WorkerOf[s]))
    /\ proc' = [proc EXCEPT ![p].seen = @ \ {s}]
    /\ UNCHANGED <<lines, definition, runs>>

\* A tick goes on with the sweeps that are due; waking a worker goes on with the
\* status if the worker has something in the line, and is refused otherwise.
HandedOver(p) ==
    /\ proc[p].at = "handing"
    /\ proc[p].seen = {}
    /\ proc' = CASE proc[p].errand = "tick" ->
                      [proc EXCEPT ![p].at = "queueing",
                                   ![p].seen = {s \in due : /\ WorkerOf[s] = NoWorker
                                                            /\ enabled[CollOf[s]]}]
                 [] \E w \in proc[p].busy : ForWorker(w) -> [proc EXCEPT ![p].at = "fetching"]
                 [] OTHER -> [proc EXCEPT ![p] = Idle]
    /\ UNCHANGED <<queue, lines, definition, runs>>

\* _queue_due_sweeps; their dates put them in some order.
QueueDue(p, s) ==
    /\ proc[p].at = "queueing"
    /\ s \in proc[p].seen
    /\ Room(s)
    /\ queue' = Add(queue, NewEntry(s, "schedule", NoWorker))
    /\ proc' = [proc EXCEPT ![p].seen = @ \ {s}]
    /\ UNCHANGED <<lines, definition, runs>>

QueuedDue(p) ==
    /\ proc[p].at = "queueing"
    /\ proc[p].seen = {}
    /\ Go(p, "serving")
    /\ UNCHANGED <<queue, lines, definition, runs>>

-----------------------------------------------------------------------------
\* _dispatch: the free slots are filled from the head of the line.

Survey(p) ==
    /\ proc[p].at = "serving"
    /\ proc' = [proc EXCEPT ![p].at = "choosing",
                            ![p].todo = WaitingInOrder,
                            ![p].busy = {r.entry.worker : r \in queue.running} \ {NoWorker}]
    /\ UNCHANGED <<queue, lines, definition, runs>>

\* Nothing left to do: the errand is over.
Served(p) ==
    /\ proc[p].at = "choosing"
    /\ proc[p].todo = <<>> \/ proc[p].free <= 0
    /\ proc' = [proc EXCEPT ![p] = Idle]
    /\ UNCHANGED <<queue, lines, definition, runs>>

\* The next entry of the snapshot is looked at.
Choosing(p, e) ==
    /\ proc[p].at = "choosing"
    /\ proc[p].free > 0
    /\ proc[p].todo # <<>>
    /\ e = Head(proc[p].todo)

\* Its collection or its worker is running already.
Held(p, e) == e.collection \in proc[p].names \/ e.worker \in proc[p].busy

Skip(p, e) ==
    /\ Choosing(p, e)
    /\ Held(p, e)
    /\ proc' = [proc EXCEPT ![p].todo = Tail(@)]
    /\ UNCHANGED <<queue, lines, definition, runs>>

\* It must not run any more; what a person asked for is exempt.
Discard(p, e) ==
    /\ Choosing(p, e)
    /\ ~Held(p, e)
    /\ e.origin # "manual" /\ Stale(e.sweep)
    /\ queue' = Take(queue, e)
    /\ IF e.worker # NoWorker THEN DropFromLines(e.sweep) ELSE UNCHANGED <<line, batch>>
    /\ proc' = [proc EXCEPT ![p].todo = Tail(@)]
    /\ UNCHANGED <<rested, definition, runs>>

\* The quotas of all its backends may be used up: it stays in the line.
NoRoomAtBackends(p, e) ==
    /\ Choosing(p, e)
    /\ ~Held(p, e)
    /\ e.origin = "manual" \/ ~Stale(e.sweep)
    /\ e.worker \in Cast.throttled
    /\ proc' = [proc EXCEPT ![p].todo = Tail(@)]
    /\ UNCHANGED <<queue, lines, definition, runs>>

Choose(p, e) ==
    /\ Choosing(p, e)
    /\ ~Held(p, e)
    /\ e.origin = "manual" \/ ~Stale(e.sweep)
    /\ Go(p, "taking")
    /\ UNCHANGED <<queue, lines, definition, runs>>

\* Mutant: what take answers is not looked at.
TakeEntryUnseen(p, e) ==
    /\ proc[p].at = "taking"
    /\ e = Head(proc[p].todo)
    /\ queue' = Take(queue, e)
    /\ proc' = [proc EXCEPT ![p].at = "checking", ![p].hand = {e},
                            ![p].sweep = e.sweep, ![p].todo = Tail(@)]
    /\ UNCHANGED <<lines, definition, runs>>

\* ingest_queue.take: if the other clock was faster, on to the next one.
TakeEntry(p, e) ==
    /\ proc[p].at = "taking"
    /\ e = Head(proc[p].todo)
    /\ queue' = Take(queue, e)
    /\ proc' = IF e \in queue.waiting
               THEN [proc EXCEPT ![p].at = "checking", ![p].hand = {e},
                                 ![p].sweep = e.sweep, ![p].todo = Tail(@)]
               ELSE [proc EXCEPT ![p].at = "choosing", ![p].todo = Tail(@)]
    /\ UNCHANGED <<lines, definition, runs>>

-----------------------------------------------------------------------------
\* start_collection_bake, for an entry in hand or for a person.

Fails(p, code) == proc' = [proc EXCEPT ![p].at = "failed", ![p].code = code, ![p].was = NoSweep]

\* Nothing is written if the trigger would refuse anyway.
Check(p) ==
    /\ proc[p].at = "checking"
    /\ IF CollOf[proc[p].sweep] \in RunningNames \/ Cardinality(runs) >= Cast.slots
       THEN Fails(p, 409)
       ELSE Go(p, "marking")
    /\ UNCHANGED <<queue, lines, definition, runs>>

\* A status that cannot be read counts as nothing running.
CheckUnread(p) ==
    /\ "unreachable" \in Cast.faults
    /\ proc[p].at = "checking"
    /\ Go(p, "marking")
    /\ UNCHANGED <<queue, lines, definition, runs>>

\* Mutants: the sweep is noted by mark_started alone; the name of the collection
\* is noted for the sweep's.
MarkLater(p) ==
    /\ proc[p].at = "marking"
    /\ Go(p, "sending")
    /\ UNCHANGED <<queue, lines, definition, runs>>

MarkCollection(p) ==
    /\ proc[p].at = "marking"
    /\ LET c == CollOf[proc[p].sweep] IN
          /\ proc' = [proc EXCEPT ![p].at = "sending", ![p].was = pending[c]]
          /\ pending' = [pending EXCEPT ![c] = c]
    /\ UNCHANGED <<queue, lines, due, enabled, runs>>

\* The sweep is noted before the run is started (mark_pending).
Mark(p) ==
    /\ proc[p].at = "marking"
    /\ LET c == CollOf[proc[p].sweep] IN
          /\ proc' = [proc EXCEPT ![p].at = "sending", ![p].was = pending[c]]
          /\ pending' = [pending EXCEPT ![c] = proc[p].sweep]
    /\ UNCHANGED <<queue, lines, due, enabled, runs>>

Accepts(c) == c \notin RunningNames /\ Cardinality(runs) < Cast.slots

WorkerOfHand(p) == IF proc[p].hand = {} THEN NoWorker
                   ELSE (CHOOSE e \in proc[p].hand : TRUE).worker

\* POST /run/{source} as the trigger sees it.  The name of the collection is
\* all it is told.
StartedRun(p) ==
    /\ Accepts(CollOf[proc[p].sweep])
    /\ runs' = runs \cup {[collection |-> CollOf[proc[p].sweep], sweep |-> proc[p].sweep,
                           ran |-> NoSweep, worker |-> WorkerOfHand(p), phase |-> "asked"]}

Send(p) ==
    /\ proc[p].at = "sending"
    /\ \/ StartedRun(p) /\ Go(p, "clearing")
       \/ /\ ~Accepts(CollOf[proc[p].sweep])
          /\ proc' = [proc EXCEPT ![p].at = "rechecking",
                                  ![p].code = IF CollOf[proc[p].sweep] \in RunningNames
                                              THEN 409 ELSE 429]
          /\ UNCHANGED runs
    /\ UNCHANGED <<queue, lines, definition>>

\* The call fails on the way: nothing was started, or only the answer is lost.
SendFails(p) ==
    /\ proc[p].at = "sending"
    /\ \/ "unreachable" \in Cast.faults /\ UNCHANGED runs
       \/ "lost_reply" \in Cast.faults /\ StartedRun(p)
    /\ proc' = [proc EXCEPT ![p].at = "rechecking", ![p].code = 502]
    /\ UNCHANGED <<queue, lines, definition>>

\* Does the collection run after all?
Recheck(p) ==
    /\ proc[p].at = "rechecking"
    /\ proc' = [proc EXCEPT ![p].at =
                   IF CollOf[proc[p].sweep] \in RunningNames THEN "failed" ELSE "restoring"]
    /\ UNCHANGED <<queue, lines, definition, runs>>

RecheckUnread(p) ==
    /\ "unreachable" \in Cast.faults
    /\ proc[p].at = "rechecking"
    /\ Go(p, "restoring")
    /\ UNCHANGED <<queue, lines, definition, runs>>

\* restore_pending: the mark of before, unless the collection is running.
Restore(p) ==
    /\ proc[p].at = "restoring"
    /\ pending' = [pending EXCEPT ![CollOf[proc[p].sweep]] = proc[p].was]
    /\ Go(p, "failed")
    /\ UNCHANGED <<queue, lines, due, enabled, runs>>

\* The sweep leaves the workers' lines (workers.drop) ...
Clear(p) ==
    /\ proc[p].at = "clearing"
    /\ DropFromLines(proc[p].sweep)
    /\ Go(p, "dropping")
    /\ UNCHANGED <<queue, rested, definition, runs>>

\* ... and the line of the ingest (ingest_queue.drop).
DropWaiting(p) ==
    /\ proc[p].at = "dropping"
    /\ queue' = Drop(queue, CollOf[proc[p].sweep], proc[p].sweep)
    /\ Go(p, "stamping")
    /\ UNCHANGED <<lines, definition, runs>>

\* mark_started: the mark again, and the next date of the sweep.
Stamp(p) ==
    /\ proc[p].at = "stamping"
    /\ pending' = [pending EXCEPT ![CollOf[proc[p].sweep]] = proc[p].sweep]
    /\ due' = IF WorkerOf[proc[p].sweep] = NoWorker THEN due \ {proc[p].sweep} ELSE due
    /\ proc' = IF proc[p].errand = "ask" THEN [proc EXCEPT ![p] = Idle]
               ELSE [proc EXCEPT ![p].at = "noting"]
    /\ UNCHANGED <<queue, lines, enabled, runs>>

-----------------------------------------------------------------------------
\* What becomes of the entry in hand.

BackToLine(p) == [proc EXCEPT ![p].at = "choosing", ![p].hand = {}, ![p].sweep = NoSweep,
                              ![p].was = NoSweep, ![p].code = 0]

\* ingest_queue.started.
NoteStart(p, e) ==
    /\ proc[p].at = "noting"
    /\ e \in proc[p].hand
    /\ queue' = Started(queue, e, 0)
    /\ proc' = [BackToLine(p) EXCEPT ![p].names = @ \cup {e.collection},
                                     ![p].free = @ - 1,
                                     ![p].busy = @ \cup ({e.worker} \ {NoWorker})]
    /\ UNCHANGED <<lines, definition, runs>>

\* Mutant: what could not be started is left to be queued again.
ReturnNothing(p, e) ==
    /\ proc[p].at = "failed"
    /\ proc[p].code \in {409, 429}
    /\ e \in proc[p].hand
    /\ proc' = BackToLine(p)
    /\ UNCHANGED <<queue, lines, definition, runs>>

\* 409: on with the next entry.  429: nothing more fits, the tick is over.
Return(p, e) ==
    /\ proc[p].at = "failed"
    /\ proc[p].code \in {409, 429}
    /\ e \in proc[p].hand
    /\ queue' = PutBack(queue, e)
    /\ proc' = IF proc[p].code = 429 THEN [proc EXCEPT ![p] = Idle] ELSE BackToLine(p)
    /\ UNCHANGED <<lines, definition, runs>>

\* Any other error: the entry would sit at the head for ever, so it is dropped.
GiveUp(p, e) ==
    /\ proc[p].at = "failed"
    /\ proc[p].code \notin {409, 429}
    /\ e \in proc[p].hand
    /\ IF e.worker # NoWorker THEN DropFromLines(e.sweep) ELSE UNCHANGED <<line, batch>>
    /\ proc' = BackToLine(p)
    /\ UNCHANGED <<queue, rested, definition, runs>>

-----------------------------------------------------------------------------
\* People and outside apps.

\* run_or_queue: start it now, or line it up.  Bound: asked while at most one
\* run is noted, so that the clock beside it is not left without an id.
Ask(p, s) ==
    /\ proc[p].at = "idle"
    /\ Cardinality(queue.running) <= 1
    /\ proc' = [proc EXCEPT ![p] = [Idle EXCEPT !.errand = "ask", !.at = "checking",
                                                !.sweep = s]]
    /\ UNCHANGED <<queue, lines, definition, runs>>

LineUp(p) ==
    /\ proc[p].errand = "ask"
    /\ proc[p].at = "failed"
    /\ IF proc[p].code \in {409, 429}
       THEN /\ Room(proc[p].sweep)
            /\ queue' = Add(queue, NewEntry(proc[p].sweep, "manual", NoWorker))
       ELSE UNCHANGED queue
    /\ proc' = [proc EXCEPT ![p] = Idle]
    /\ UNCHANGED <<lines, definition, runs>>

\* wake_worker: hand over without waiting for the interval, then dispatch.
Wake(p, w) ==
    /\ proc[p].at = "idle"
    /\ Lined(w) # {}
    /\ proc' = [proc EXCEPT ![p] = [Idle EXCEPT !.errand = "wake", !.at = "waking", !.busy = {w}]]
    /\ UNCHANGED <<queue, lines, definition, runs>>

ChooseWoken(p) ==
    /\ proc[p].at = "waking"
    /\ ChooseHeads(p, proc[p].busy, proc[p].busy, {})
    /\ UNCHANGED <<queue, definition, runs>>

\* The page's "remove".
RemoveEntry(e) ==
    /\ e \in queue.waiting
    /\ e.collection \in Cast.tended
    /\ queue' = Take(queue, e)
    /\ UNCHANGED <<lines, definition, runs, proc>>

Toggle(c) ==
    /\ c \in Cast.tended
    /\ enabled' = [enabled EXCEPT ![c] = ~@]
    /\ UNCHANGED <<queue, lines, pending, due, runs, proc>>

-----------------------------------------------------------------------------
\* The run in the trigger asks chiezo-app for the material of its collection.

Replace(r, with) == runs' = (runs \ {r}) \cup {with}

\* _collect_material reads which sweep it is for; with no mark it falls back on
\* a sweep of the collection that would run next.
ReadMark(r) ==
    /\ r.phase = "asked"
    /\ \E s \in Sweeps :
          /\ CollOf[s] = r.collection
          /\ pending[r.collection] \in {s, NoSweep}
          /\ Replace(r, [r EXCEPT !.ran = s, !.phase = "collecting"])
    /\ UNCHANGED <<queue, lines, definition, proc>>

\* record_result: the mark is forgotten and the sweep has run.
Record(r) ==
    /\ r.phase = "collecting"
    /\ pending' = [pending EXCEPT ![r.collection] = NoSweep]
    /\ due' = due \ {r.ran}
    /\ Replace(r, [r EXCEPT !.phase = "baking"])
    /\ UNCHANGED <<queue, lines, enabled, proc>>

\* The run is over: baked, failed, stopped, or refused its material.
RunEnds(r) ==
    /\ r.phase \in {"asked", "baking"}
    /\ runs' = runs \ {r}
    /\ UNCHANGED <<queue, lines, definition, proc>>

RestartTrigger ==
    /\ "restart" \in Cast.faults
    /\ runs # {}
    /\ runs' = {}
    /\ UNCHANGED <<queue, lines, definition, proc>>

Crash(p) ==
    /\ "crash" \in Cast.faults
    /\ proc[p].at # "idle"
    /\ proc' = [proc EXCEPT ![p] = Idle]
    /\ UNCHANGED <<queue, lines, definition, runs>>

\* Time: the next date of a sweep comes, the interval of a worker passes.
ComeDue(s) ==
    /\ s \notin due
    /\ due' = due \cup {s}
    /\ UNCHANGED <<queue, lines, pending, enabled, runs, proc>>

Rest(w) ==
    /\ w \notin rested
    /\ rested' = rested \cup {w}
    /\ UNCHANGED <<queue, line, batch, definition, runs, proc>>

-----------------------------------------------------------------------------

\* One step of the errand p is on.
Work(p) ==
    \/ Fill(p) \/ Fetch(p) \/ FetchFails(p) \/ SettleNotes(p)
    \/ Advance(p) \/ ChooseWoken(p) \/ HandedOver(p) \/ QueuedDue(p)
    \/ \E s \in proc[p].seen : HandOver(p, s) \/ QueueDue(p, s)
    \/ Survey(p) \/ Served(p)
    \/ \E e \in Range(proc[p].todo) :
          \/ Skip(p, e) \/ Discard(p, e) \/ NoRoomAtBackends(p, e) \/ Choose(p, e)
          \/ TakeEntry(p, e)
    \/ Check(p) \/ CheckUnread(p) \/ Mark(p) \/ Send(p) \/ SendFails(p)
    \/ Recheck(p) \/ RecheckUnread(p) \/ Restore(p)
    \/ Clear(p) \/ DropWaiting(p) \/ Stamp(p) \/ LineUp(p)
    \/ \E e \in proc[p].hand : NoteStart(p, e) \/ Return(p, e) \/ GiveUp(p, e)

RunStep(r) == ReadMark(r) \/ Record(r) \/ RunEnds(r)

Next ==
    \/ \E p \in Clocks \cap Cast.who : Tick(p)
    \/ \E p \in Askers \cap Cast.who, s \in Cast.sweeps : Ask(p, s)
    \/ \E p \in Wakers \cap Cast.who, w \in Workers : Wake(p, w)
    \/ \E p \in Procs : Work(p) \/ Crash(p)
    \/ \E r \in runs : RunStep(r)
    \/ \E e \in queue.waiting : RemoveEntry(e)
    \/ \E c \in Collections : Toggle(c)
    \/ \E s \in Cast.sweeps : ComeDue(s)
    \/ \E w \in Workers : Rest(w)
    \/ RestartTrigger

Spec == Init /\ [][Next /\ UNCHANGED cast]_<<vars, cast>>

\* The clock ticks again and again and every call it makes has a timeout; a run
\* comes to one of its ends (Trigger!FairSpec); an interval passes.
Fairness ==
    /\ \A p \in Clocks : WF_vars(Tick(p)) /\ WF_vars(Work(p))
    /\ \A c \in Collections : WF_vars(\E r \in runs : r.collection = c /\ RunStep(r))
    /\ \A w \in Workers : WF_vars(Rest(w))

FairSpec == Spec /\ Fairness

-----------------------------------------------------------------------------

\* One clock ticks and nobody asks for anything; the clock does not die and no answer
\* of the trigger is lost on its way back (a run that was started and not noted as such
\* is unknown to the next tick).
ClockAlone ==
    /\ \E p \in Clocks : Cast.who = {p}
    /\ Cast.faults \cap {"lost_reply", "crash"} = {}

\* Types; a process holds one entry at most, between its take and the end of the start.
TypeOK ==
    /\ cast \in DOMAIN Casts
    /\ queue.waiting \subseteq Entry
    /\ {r.entry : r \in queue.running} \subseteq Entry
    /\ \A w \in Workers : Lined(w) \subseteq Sweeps
    /\ rested \subseteq Workers
    /\ pending \in [Collections -> Sweeps \cup {NoSweep}]
    /\ due \subseteq Sweeps
    /\ enabled \in [Collections -> BOOLEAN]
    /\ runs \subseteq Run
    /\ \A p \in Procs : Cardinality(proc[p].hand) <= 1

\* Of the entries a worker hands over, the trigger runs one at a time
\* (src/app/main.py:844 "a worker puts out only one at a time into the ingest's
\* line", because its backend would make the second one wait into a timeout).
OneRunPerWorker ==
    ClockAlone => \A r, t \in runs : r.worker = t.worker /\ r.worker # NoWorker => r = t

\* A run makes the material of the sweep it was started for
\* (src/app/main.py:1014 "something other than the sweep that was pressed runs").
RightSweep == ClockAlone => \A r \in runs : r.ran \in {NoSweep, r.sweep}

\* One clock starts for every worker and every collection the run it means to.
RunsAreRight == OneRunPerWorker /\ RightSweep

\* While the trigger answers, what a dispatcher took out of the line it either notes
\* as started or puts back (src/app/main.py:566 drops only what "is gone or became a
\* sweep that cannot be run"; here every sweep exists and can be run).
NothingGivenUp ==
    [][Cast.faults = {} => \A p \in Procs : \A e \in proc[p].hand \ proc'[p].hand :
          e \in queue'.waiting \/ \E r \in queue'.running : r.entry = e]_vars

\* What the clock starts is due at that moment: a sweep that ran while its entry
\* waited is not run a second time (src/app/main.py:791 "if the sweep has
\* finished since it was queued, it is not run any more").
RunsOnlyWhenDue ==
    [][ClockAlone => \A r \in runs' \ runs : r.phase = "asked" => r.sweep \in due]_vars

\* However the dispatchers interleave and die, the protocol IngestQueue relies on
\* is kept: one entry is held by one of them, or waits, or is noted, and the
\* pairs that wait are in one line without twins.
Queue == INSTANCE IngestQueue WITH hand <- [p \in Procs |-> proc[p].hand], Times <- {0}

QueueProtocol == Cast.faults # {} => Queue!OneHolder /\ Queue!NoPlainTwins /\ Queue!OneLine

================================================================================
