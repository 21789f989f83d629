------------------------------- MODULE Gathering -------------------------------
(***************************************************************************)
(* One run of a collection asks the AI partition by partition              *)
(* (src/app/main.py, _collect_items).  For each partition it takes the     *)
(* first of the worker's backends with room (workers.pick), sends the      *)
(* documents of the partition, and goes on to the next backend if this one *)
(* says that its quota is used up.  While it waits for an answer its call  *)
(* stands in the table of calls in flight (src/app/ai_inflight.py); people *)
(* stop a single call there, or everything the collection still wants.     *)
(* Runs follow one another: the trigger runs a collection once at a time.  *)
(*                                                                         *)
(* Left out: the run without a worker (it is the run of one backend that   *)
(* is never full), answers drawn from dumps, feeds and hand-outs.          *)
(***************************************************************************)
EXTENDS Integers, Sequences, FiniteSets

CONSTANTS
    Keys,               \* sequence: the partitions of a run
    Docs,               \* documents that are sent with a partition ...
    PartOf,             \* ... [Docs -> partitions]
    Steps,              \* sequence: the worker's backends
    RUNS, MAX_STOPS, MAX_TIME,       \* bounds: runs, requests to stop, seconds
    COOLDOWN,           \* seconds a backend is avoided for
    STOP_POLL, BEAT_GRACE, STOP_GRACE, TIMEOUT, STALE_GRACE,
    RETRIES,            \* length of RETRY_WAITS
    Faults              \* subset of {"hang", "crash"}

VARIABLES
    now,                \* seconds
    rows,               \* the table ai_inflight
    wanted,             \* caller_stops of this collection, 0 if there is none
    full,               \* [Range(Steps) -> until when it is avoided]
    run,                \* the run: number, where it is, its start, partitions left
    call,               \* its call: backend, row, attempts, times
    shown, done, cut,   \* documents sent, partitions answered, partitions answered in part
    got,                \* something was collected
    stops,              \* counts the requests to stop
    read,               \* history: documents an answer covered
    askedAt             \* history: how many partitions were left when this run was asked to stop

vars == <<now, rows, wanted, full, run, call, shown, done, cut, got, stops, read, askedAt>>
marks == <<shown, done, cut, got, read>>

Backends == {Steps[i] : i \in 1..Len(Steps)}
Parts == {Keys[i] : i \in 1..Len(Keys)}
Never == Len(Keys) + 1

GatheringAssumption ==
    /\ Keys \in Seq(Parts) /\ PartOf \in [Docs -> Parts]
    /\ Steps \in Seq(Backends) /\ Len(Steps) > 0
    /\ {RUNS, MAX_STOPS, COOLDOWN, STOP_POLL, BEAT_GRACE, STOP_GRACE, TIMEOUT,
        STALE_GRACE, RETRIES} \subseteq Nat
    /\ MAX_TIME \in Nat \ {0}

Idle == [no |-> 0, pc |-> "idle", started |-> 0, left |-> <<>>, before |-> {}]
NoCall == [step |-> Steps[1], token |-> 0, tries |-> 0, posted |-> 0, pinged |-> 0, begun |-> 0]

Init ==
    /\ now = 1
    /\ rows = {} /\ wanted = 0 /\ stops = 0
    /\ full = [s \in Backends |-> 0]
    /\ run = Idle /\ call = NoCall
    /\ shown = {} /\ done = {} /\ cut = {} /\ got = FALSE /\ read = {}
    /\ askedAt = Never

Waits == run.pc = "call"
Working == run.pc \in {"check", "pick", "ask", "call"}
Places == {"idle", "check", "pick", "ask", "call", "ok", "failed", "lost"}
Key == run.left[1]
Own == {r \in rows : r.id = call.token}

-----------------------------------------------------------------------------
\* ai_inflight.py

\* Mutant: a call that was asked to stop is dropped at once.
StaleIfStopped(r) ==
    \/ r.expires < now
    \/ r.beat # 0 /\ r.beat + BEAT_GRACE < now
    \/ r.stop # 0

Stale(r) ==
    \/ r.expires < now
    \/ r.beat # 0 /\ r.beat + BEAT_GRACE < now
    \/ r.stop # 0 /\ r.stop + STOP_GRACE < now

Reaped == {r \in rows : ~Stale(r)}

ToldToStop(r) == [r EXCEPT !.stop = IF @ = 0 THEN now ELSE @]

\* running: whoever lists the calls drops the stale ones.
List ==
    /\ rows # Reaped
    /\ rows' = Reaped
    /\ UNCHANGED <<now, wanted, full, run, call, marks, stops, askedAt>>

\* ask_to_stop: one call.
StopCall(r) ==
    /\ stops < MAX_STOPS
    /\ stops' = stops + 1
    /\ rows' = (rows \ {r}) \cup {ToldToStop(r)}
    /\ UNCHANGED <<now, wanted, full, run, call, marks, askedAt>>

\* ask_caller_to_stop: every call of the collection, and what it wants to call next.
StopCaller ==
    /\ stops < MAX_STOPS
    /\ stops' = stops + 1
    /\ wanted' = now
    /\ rows' = {ToldToStop(r) : r \in rows}
    /\ askedAt' = IF ~Working \/ askedAt # Never THEN askedAt
                  ELSE IF run.pc = "check" THEN Len(run.left) - 1 ELSE Len(run.left)
    /\ UNCHANGED <<now, full, run, call, marks>>

-----------------------------------------------------------------------------
\* _collect_items

Start ==
    /\ ~Working /\ run.no < RUNS
    /\ run' = [Idle EXCEPT !.no = run.no + 1, !.pc = "check", !.started = now, !.left = Keys]
    /\ shown' = {} /\ done' = {} /\ cut' = {} /\ got' = FALSE /\ read' = {}
    /\ askedAt' = Never
    /\ UNCHANGED <<now, rows, wanted, full, call, stops>>

\* Mutant: a run that breaks off fails.
BreakOffFailing ==
    /\ run' = [run EXCEPT !.pc = "failed", !.left = <<>>, !.before = {}]
    /\ call' = NoCall

\* Broken off: what was collected so far is baked; if there is nothing, the run fails.
BreakOff ==
    /\ run' = [run EXCEPT !.pc = IF got THEN "ok" ELSE "failed", !.left = <<>>, !.before = {}]
    /\ call' = NoCall

\* Mutant: the request is not looked at between two partitions.
StopForgotten == wanted >= run.started /\ run.left = Keys

StopWanted == wanted >= run.started

\* The head of the loop over the partitions.
Check ==
    /\ run.pc = "check"
    /\ IF run.left = <<>> THEN run' = [run EXCEPT !.pc = "ok", !.before = {}] /\ UNCHANGED call
       ELSE IF StopWanted THEN BreakOff
       ELSE run' = [run EXCEPT !.pc = "pick", !.before = shown] /\ UNCHANGED call
    /\ UNCHANGED <<now, rows, wanted, full, marks, stops, askedAt>>

\* room_left: not avoided, and the quota last sampled is not used up.
HasRoom(s, spent) == full[s] <= now /\ s \notin spent

\* workers.pick, then build_messages notes what it sends.
Pick(spent) ==
    /\ run.pc = "pick"
    /\ IF \A s \in Backends : ~HasRoom(s, spent)
       THEN BreakOff /\ UNCHANGED shown
       ELSE \E i \in 1..Len(Steps) :
            /\ HasRoom(Steps[i], spent) /\ \A j \in 1..i - 1 : ~HasRoom(Steps[j], spent)
            /\ run' = [run EXCEPT !.pc = "ask"]
            /\ call' = [NoCall EXCEPT !.step = Steps[i]]
            /\ shown' = shown \cup {d \in Docs : PartOf[d] = Key}
    /\ UNCHANGED <<now, rows, wanted, full, done, cut, got, stops, read, askedAt>>

\* The table gives out ids itself; here those of rows that are gone come again.
FreeId(table) == CHOOSE id \in 1..Cardinality(table) + 1 : \A r \in table : r.id # id

\* ai_inflight.begin
Begin ==
    /\ run.pc = "ask"
    /\ LET id == FreeId(Reaped) IN
       /\ rows' = Reaped \cup {[id |-> id, expires |-> now + TIMEOUT + STALE_GRACE,
                                beat |-> 0, stop |-> 0]}
       /\ run' = [run EXCEPT !.pc = "call"]
       /\ call' = [call EXCEPT !.token = id, !.posted = now, !.pinged = now, !.begun = now]
    /\ UNCHANGED <<now, wanted, full, marks, stops, askedAt>>

\* A busy backend (429, 503) is asked again, the call keeps its row.
Retry ==
    /\ Waits /\ call.tries < RETRIES
    /\ call' = [call EXCEPT !.tries = @ + 1, !.posted = now]
    /\ UNCHANGED <<now, rows, wanted, run, full, marks, stops, askedAt>>

\* Mutant: only what could not be read counts as left.
PartDoneIfReadable(left, salvaged) == ~salvaged

\* An answer.  left: documents it says it did not look at, or, if the answer could only
\* be read in part, those that did not come back.
PartDone(left, salvaged) == left = {} /\ ~salvaged

Answer(left, salvaged, items) ==
    /\ Waits
    /\ left \subseteq shown \ run.before
    /\ rows' = rows \ Own
    /\ shown' = shown \ left
    /\ read' = read \cup ((shown \ run.before) \ left)
    /\ got' = (got \/ items)
    /\ IF PartDone(left, salvaged)
       THEN done' = done \cup {Key} /\ UNCHANGED cut
       ELSE cut' = cut \cup {Key} /\ UNCHANGED done
    /\ run' = [run EXCEPT !.pc = "check", !.left = Tail(@)]
    /\ call' = NoCall
    /\ UNCHANGED <<now, wanted, full, stops, askedAt>>

\* Mutant: it is not noted.
AvoidedNot(s) == full

\* The backend says its quota is used up (avoid_for_now), the next one is asked.
Avoided(s) == [full EXCEPT ![s] = now + COOLDOWN]

AnswerFull ==
    /\ Waits
    /\ rows' = rows \ Own
    /\ full' = Avoided(call.step)
    /\ run' = [run EXCEPT !.pc = "pick"]
    /\ call' = NoCall
    /\ UNCHANGED <<now, wanted, marks, stops, askedAt>>

\* Any other failure: of the call, of its preparation, or its time is over.
AnswerFails ==
    /\ run.pc \in {"ask", "call"}
    /\ rows' = rows \ Own
    /\ BreakOff
    /\ UNCHANGED <<now, wanted, full, marks, stops, askedAt>>

\* Mutant: the beat alone.
PingOnly ==
    /\ Waits /\ call.pinged # now
    /\ call' = [call EXCEPT !.pinged = now]
    /\ rows' = (rows \ Own) \cup {[r EXCEPT !.beat = now] : r \in Own}
    /\ UNCHANGED <<now, wanted, full, run, marks, stops, askedAt>>

\* _watching_for_stop: the call beats and looks whether it is to stop.
Ping ==
    /\ Waits /\ call.pinged # now
    /\ IF \E r \in Own : r.stop # 0
       THEN BreakOff /\ rows' = rows \ Own
       ELSE /\ call' = [call EXCEPT !.pinged = now]
            /\ rows' = (rows \ Own) \cup {[r EXCEPT !.beat = now] : r \in Own}
            /\ UNCHANGED run
    /\ UNCHANGED <<now, wanted, full, marks, stops, askedAt>>

\* The process dies with the run.
Crash ==
    /\ "crash" \in Faults /\ Working
    /\ run' = [run EXCEPT !.pc = "lost", !.left = <<>>, !.before = {}]
    /\ call' = NoCall
    /\ UNCHANGED <<now, rows, wanted, full, marks, stops, askedAt>>

\* A call waits at most TIMEOUT for each post; its coroutine wakes every STOP_POLL
\* seconds unless its process hangs.
Tick ==
    /\ now < MAX_TIME
    /\ Waits => /\ now < call.posted + TIMEOUT
                /\ now < call.pinged + STOP_POLL \/ "hang" \in Faults
    /\ now' = now + 1
    /\ UNCHANGED <<rows, wanted, full, run, call, marks, stops, askedAt>>

Answers ==
    \/ \E left \in SUBSET Docs, salvaged, items \in BOOLEAN : Answer(left, salvaged, items)
    \/ AnswerFull \/ AnswerFails

Work == Check \/ (\E spent \in SUBSET Backends : Pick(spent)) \/ Begin \/ Answers

Next ==
    \/ Start \/ Work \/ Retry \/ Ping \/ Crash
    \/ List \/ StopCaller \/ \E r \in rows : StopCall(r)
    \/ Tick

Spec == Init /\ [][Next]_vars

\* The program goes on, and what is asked answers or runs into its time-out.
FairSpec == Spec /\ WF_vars(Work)

-----------------------------------------------------------------------------

\* Types; a row in flight has an id of its own.
TypeOK ==
    /\ now \in 1..MAX_TIME /\ wanted \in 0..now /\ stops \in 0..MAX_STOPS
    /\ full \in [Backends -> 0..MAX_TIME + COOLDOWN]
    /\ rows \subseteq [id : Nat \ {0}, expires : Nat, beat : 0..now, stop : 0..now]
    /\ \A r, t \in rows : r.id = t.id => r = t
    /\ run \in [no : 0..RUNS, pc : Places, started : 0..now, left : Seq(Parts),
                before : SUBSET Docs]
    /\ call \in [step : Backends, token : Nat, tries : 0..RETRIES,
                 posted : 0..now, pinged : 0..now, begun : 0..now]
    /\ shown \subseteq Docs /\ read \subseteq Docs /\ done \subseteq Parts /\ cut \subseteq Parts
    /\ got \in BOOLEAN /\ askedAt \in Int

\* A call whose process wakes as it should stays in the table, where people can see
\* and stop it, until the time its row was given is over
\* (src/app/ai_inflight.py:219-226 "long enough that a living row does not vanish").
LiveCallIsListed ==
    Waits /\ now <= call.begun + TIMEOUT + STALE_GRACE => Own # {}

\* A stop that found the row of a living call ends that call at its next beat.
StopEndsTheCall ==
    Waits => \A r \in Own : r.stop # 0 => now <= r.stop + STOP_POLL

\* What was collected before a run broke off is not thrown away
\* (src/app/main.py:1386 "what was collected so far is not thrown away").
CollectedIsKept == run.pc = "failed" => ~got

\* A partition counts as looked at only if an answer covered all that was sent with it.
DoneWasRead == \A d \in Docs : PartOf[d] \in done => d \in read

\* Both at once: nothing that was read is lost, and nothing unread is crossed off.
HarvestIsKept == CollectedIsKept /\ DoneWasRead

\* What counts as reviewed when a run ends well was covered by an answer (tests/
\* test_not_reviewed.py:1).  It does not hold: see README, findings.
ReviewedWasRead == run.pc = "ok" => shown \subseteq read

\* Once a collection was asked to stop, no further partition is sent to the AI: only the
\* one at hand may still be (src/app/main.py:1465 "before the next partition is called").
NoPartitionAfterStop ==
    [][~Waits /\ run'.pc = "call" /\ askedAt # Never => Len(run.left) = askedAt]_vars

\* Both: a call can be seen and stopped as long as it runs, and nothing is called after it.
StopReachesTheCall == []LiveCallIsListed /\ []StopEndsTheCall /\ NoPartitionAfterStop

\* A run comes to its end, even if one backend after the other is full.
RunEnds == Working ~> ~Working

================================================================================
