------------------------------- MODULE Settlement ------------------------------
(***************************************************************************)
(* How chiezo-app finds out that a run it noted is over                    *)
(* (src/app/ingest_queue.py, "settle").  The trigger tells it nothing      *)
(* about single runs: a tick reads the status once, and compares the names *)
(* of what runs and the end of the last run of each collection with the    *)
(* time at which the run was noted.  That status may be older than the     *)
(* note, the note carries the time of the tick that started the run, and   *)
(* all these times are written down in whole seconds.                      *)
(*                                                                         *)
(* `time` counts instants.  Reading the clock and the end of a run take an *)
(* instant of their own; UNIT instants make a second.                      *)
(***************************************************************************)
EXTENDS QueueRecord, Integers

CONSTANTS
    Clocks,
    Ids,
    Collections,
    NoEntry,       \* a run nobody noted: a person's "run now"
    UNIT,          \* instants in a second, 1 if times are exact
    GRACE,         \* SETTLE_GRACE_SECONDS, in instants
    LAG,           \* bound: a tick lasts no longer
    MINRUN,        \* bound: a run lasts at least as long
    LAST           \* bound: the last instant

\* A tick is over before a run it has seen beginning can end, and two ticks together
\* before the grace has passed (SETTLE_GRACE_SECONDS).
SettlementAssumption ==
    /\ GRACE \in Nat /\ LAG \in Nat /\ MINRUN \in Nat
    /\ LAG < MINRUN
    /\ LAG + LAG < GRACE
    /\ NoEntry \notin Ids \cup Collections

VARIABLES
    time,
    queue,         \* the queue's record; only its notes matter here
    runs,          \* what the trigger is running
    ended,         \* the end of the last run of each collection in /status, 0 if none
    tick           \* tick[p]: the tick of clock p

vars == <<time, queue, runs, ended, tick>>

Written(t) == t - (t % UNIT)

Going == {r.collection : r \in runs}

Asleep == [at |-> "asleep", names |-> {}, ended |-> [c \in Collections |-> 0],
           now |-> 0, from |-> 0, entry |-> NoEntry, collection |-> NoEntry]

Init ==
    /\ time = 1
    /\ queue = Empty
    /\ runs = {}
    /\ ended = [c \in Collections |-> 0]
    /\ tick = [p \in Clocks |-> Asleep]

\* Nobody's tick gets older than LAG.
MayPass(t) ==
    /\ t <= LAST
    /\ \A p \in Clocks : tick[p].at # "asleep" => t - tick[p].from <= LAG

-----------------------------------------------------------------------------
\* _tick_ingest.

Fetch(p) ==
    /\ tick[p].at = "asleep"
    /\ tick' = [tick EXCEPT ![p] = [Asleep EXCEPT !.at = "fetched", !.names = Going,
                                                  !.ended = ended, !.from = time]]
    /\ UNCHANGED <<time, queue, runs, ended>>

ReadClock(p) ==
    /\ tick[p].at = "fetched"
    /\ MayPass(time + 1)
    /\ time' = time + 1
    /\ tick' = [tick EXCEPT ![p].at = "settling", ![p].now = Written(time + 1)]
    /\ UNCHANGED <<queue, runs, ended>>

SettleNotes(p) ==
    /\ tick[p].at = "settling"
    /\ queue' = Settle(queue, tick[p].names, tick[p].ended, tick[p].now - GRACE)
    /\ tick' = [tick EXCEPT ![p].at = "serving"]
    /\ UNCHANGED <<time, runs, ended>>

\* _dispatch starts an entry of a collection the status did not show ...
Launch(p, c, i) ==
    /\ tick[p].at = "serving"
    /\ c \notin tick[p].names
    /\ c \notin Going
    /\ i \notin {r.entry.id : r \in queue.running} \cup {r.id : r \in runs}
    /\ \A o \in Clocks : tick[o].entry # i
    /\ runs' = runs \cup {[collection |-> c, id |-> i, since |-> time]}
    /\ tick' = [tick EXCEPT ![p].at = "noting", ![p].entry = i, ![p].collection = c]
    /\ UNCHANGED <<time, queue, ended>>

\* ... and notes it with the time of the tick.
Note(p) ==
    /\ tick[p].at = "noting"
    /\ queue' = Started(queue, [id |-> tick[p].entry, collection |-> tick[p].collection],
                        tick[p].now)
    /\ tick' = [tick EXCEPT ![p] = Asleep]
    /\ UNCHANGED <<time, runs, ended>>

TickEnds(p) ==
    /\ tick[p].at = "serving"
    /\ tick' = [tick EXCEPT ![p] = Asleep]
    /\ UNCHANGED <<time, queue, runs, ended>>

-----------------------------------------------------------------------------
\* The trigger and time.

AskedRun(c) ==
    /\ c \notin Going
    /\ runs' = runs \cup {[collection |-> c, id |-> NoEntry, since |-> time]}
    /\ UNCHANGED <<time, queue, ended, tick>>

\* _finish.
End(r) ==
    /\ time + 1 - r.since >= MINRUN
    /\ MayPass(time + 1)
    /\ time' = time + 1
    /\ runs' = runs \ {r}
    /\ ended' = [ended EXCEPT ![r.collection] = Written(time + 1)]
    /\ UNCHANGED <<queue, tick>>

\* The list of ended runs is lost with the runs.
RestartTrigger ==
    /\ runs # {}
    /\ runs' = {}
    /\ ended' = [c \in Collections |-> 0]
    /\ UNCHANGED <<time, queue, tick>>

Pass ==
    /\ MayPass(time + 1)
    /\ time' = time + 1
    /\ UNCHANGED <<queue, runs, ended, tick>>

Next ==
    \/ \E p \in Clocks :
          Fetch(p) \/ ReadClock(p) \/ SettleNotes(p) \/ Note(p) \/ TickEnds(p)
    \/ \E p \in Clocks, c \in Collections, i \in Ids : Launch(p, c, i)
    \/ \E c \in Collections : AskedRun(c)
    \/ \E r \in runs : End(r)
    \/ RestartTrigger
    \/ Pass

Spec == Init /\ [][Next]_vars

-----------------------------------------------------------------------------

\* A noted run is taken for over only when it is: however old the status, "the
\* end of an earlier run of the same collection does not take out the present
\* one" (src/app/ingest_queue.py:342).
SettlesOnlyWhatIsOver ==
    [][\A n \in queue.running \ queue'.running : \A r \in runs : r.id # n.entry.id]_vars

================================================================================
