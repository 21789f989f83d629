--------------------------------- MODULE Media ---------------------------------
(***************************************************************************)
(* The jobs of src/app/media.py: pictures, sounds and texts an AI makes in *)
(* the background.  A job is a row of a table both workers of chiezo-app   *)
(* read and a task of the worker that took the request.  A backend reached *)
(* through the CLI bridge takes one call at a time, so a job waits for its *)
(* turn twice: in a semaphore of its own worker (first in, first out) and  *)
(* by looking into the table for a job of another worker that runs         *)
(* (_slot).  A task beats while it lives; a row whose updated_at is old is *)
(* closed by whoever looks at the table next (_reap_stale).                *)
(*                                                                         *)
(* Time is abstracted to fresh[j]: updated_at is younger than STALE_AFTER. *)
(* HEARTBEAT_SEC is a quarter of it, so a row whose task beats stays fresh *)
(* (an event loop held up for 90 s is left out).  A generation may take    *)
(* longer than STALE_AFTER.                                                *)
(***************************************************************************)
EXTENDS Integers, Sequences, FiniteSetsExt, SequencesExt

CONSTANTS
    Jobs,          \* the requests
    Workers,       \* the processes of chiezo-app (--workers 2)
    Kind,          \* Kind[j]: "text", or "picture" for what _run makes
    Bridged,       \* the jobs whose backend is a CLI behind the bridge (_serialized)
    Count,         \* Count[j]: how many of it (1 for a text)
    Stops,         \* how often somebody presses stop (bound)
    MAX_CRASHES    \* how often a worker is replaced (bound)

MediaAssumption ==
    /\ Kind \in [Jobs -> {"text", "picture"}]
    /\ Bridged \subseteq Jobs
    /\ Count \in [Jobs -> Nat \ {0}]
    /\ \A j \in Jobs : Kind[j] = "text" => Count[j] = 1
    /\ Workers # {} /\ Stops \in Nat /\ MAX_CRASHES \in Nat

VARIABLES
    row,      \* row[j]: [state, files, why], why the error column's origin
    fresh,    \* fresh[j]: updated_at is younger than STALE_AFTER
    task,     \* task[j]: where its coroutine stands, "none" without one
    home,     \* home[j]: the worker that runs it
    line,     \* line[w]: the semaphore of w: its holder, then those who wait
    made,     \* made[j]: the files of the coroutine's own list
    stops, crashes

vars == <<row, fresh, task, home, line, made, stops, crashes>>

Active == {"queued", "running"}
States == Active \cup {"none", "done", "partial", "failed"}

(* "line": waits for the semaphore.  "turn": holds it, looks into the      *)
(* table.  "go": saw nobody, has not written "running" yet.  "call": the   *)
(* backend works.                                                          *)
Places == {"none", "line", "turn", "go", "call"}

Init ==
    /\ row = [j \in Jobs |-> [state |-> "none", files |-> 0, why |-> ""]]
    /\ fresh = [j \in Jobs |-> FALSE]
    /\ task = [j \in Jobs |-> "none"]
    /\ home = [j \in Jobs |-> CHOOSE w \in Workers : TRUE]
    /\ line = [w \in Workers |-> <<>>]
    /\ made = [j \in Jobs |-> 0]
    /\ stops = 0 /\ crashes = 0

\* _update: no condition on the state; _touch would have one
Update(j, written) ==
    /\ row' = [row EXCEPT ![j] = written]
    /\ fresh' = [fresh EXCEPT ![j] = TRUE]

PlaceOf(s, j) == CHOOSE i \in 1..Len(s) : s[i] = j

Leave(w, j) ==
    IF j \in ToSet(line[w]) THEN RemoveAt(line[w], PlaceOf(line[w], j)) ELSE line[w]

\* where a task starts: in the line of a bridged backend, or at once
Start(j) == IF j \in Bridged THEN "line" ELSE "go"

\* Mutant: it beats only while the call is open.
BeatsInCall(j) == task[j] = "call" /\ Kind[j] = "picture"

\* who beats: _run as long as it lives; _run_text has no beat at all
Beats(j) == task[j] # "none" /\ Kind[j] = "picture"

\* create_job / create_text_job, then _start / start_text_job
Create(w, j) ==
    /\ row[j].state = "none"
    /\ Update(j, [row[j] EXCEPT !.state = "queued"])
    /\ home' = [home EXCEPT ![j] = w]
    /\ task' = [task EXCEPT ![j] = Start(j)]
    /\ line' = IF j \in Bridged THEN [line EXCEPT ![w] = Append(@, j)] ELSE line
    /\ UNCHANGED <<made, stops, crashes>>

\* Mutant: the turn is taken by whoever comes.
TakeOutOfTurn(j) ==
    /\ task[j] = "line"
    /\ task' = [task EXCEPT ![j] = IF Kind[j] = "picture" THEN "turn" ELSE "go"]
    /\ UNCHANGED <<row, fresh, home, line, made, stops, crashes>>

\* the semaphore is handed to the first who waits
Take(j) ==
    /\ task[j] = "line"
    /\ Head(line[home[j]]) = j
    /\ task' = [task EXCEPT ![j] = IF Kind[j] = "picture" THEN "turn" ELSE "go"]
    /\ UNCHANGED <<row, fresh, home, line, made, stops, crashes>>

\* another job of the same backend is written down as running
OthersRunning(j) == \E k \in Bridged \ {j} : row[k].state = "running"

\* the look into the table, repeated every QUEUE_POLL seconds
SeesNobody(j) ==
    /\ task[j] = "turn"
    /\ ~OthersRunning(j)
    /\ task' = [task EXCEPT ![j] = "go"]
    /\ UNCHANGED <<row, fresh, home, line, made, stops, crashes>>

Begin(j) ==
    /\ task[j] = "go"
    /\ Update(j, [row[j] EXCEPT !.state = "running"])
    /\ task' = [task EXCEPT ![j] = "call"]
    /\ UNCHANGED <<home, line, made, stops, crashes>>

\* one file is there: the slot is given back, the next one waits for it anew
Made(j) ==
    LET n == made[j] + 1
        rest == Leave(home[j], j)
        more == n < Count[j]
    IN  /\ task[j] = "call"
        /\ made' = [made EXCEPT ![j] = n]
        /\ Update(j, [row[j] EXCEPT !.files = n, !.state = IF more THEN @ ELSE "done"])
        /\ task' = [task EXCEPT ![j] = IF more THEN Start(j) ELSE "none"]
        /\ line' = [line EXCEPT ![home[j]] =
                        IF more /\ j \in Bridged THEN Append(rest, j) ELSE rest]
        /\ UNCHANGED <<home, stops, crashes>>

\* Mutant: a failure forgets what was made before it.
BrokenEmpty(j, why) == [state |-> "failed", files |-> 0, why |-> why]

\* what is left of a job that ends early: the files made so far are kept
Broken(j, why) ==
    [state |-> IF made[j] = 0 THEN "failed" ELSE "partial", files |-> made[j], why |-> why]

End(j) ==
    /\ task' = [task EXCEPT ![j] = "none"]
    /\ line' = [line EXCEPT ![home[j]] = Leave(home[j], j)]

\* the backend fails or times out
Fail(j) ==
    /\ task[j] = "call"
    /\ Update(j, Broken(j, "error"))
    /\ End(j)
    /\ UNCHANGED <<home, made, stops, crashes>>

\* Mutant: what waits is never reaped.
ReapedIfRunning(j) == row[j].state = "running" /\ ~fresh[j]

\* _reap_stale: closes every row that is neither over nor fresh
Reaped(j) == row[j].state \in Active /\ ~fresh[j]

ReapedRow(j) == IF Reaped(j) THEN [row[j] EXCEPT !.state = "failed", !.why = "stale"] ELSE row[j]

\* get_job, recent_jobs, running_jobs, picked_jobs, job_groups
Look ==
    /\ \E j \in Jobs : Reaped(j)
    /\ row' = [j \in Jobs |-> ReapedRow(j)]
    /\ fresh' = [j \in Jobs |-> fresh[j] \/ Reaped(j)]
    /\ UNCHANGED <<task, home, line, made, stops, crashes>>

\* updated_at grows old where nobody beats
Quiet(j) ==
    /\ row[j].state \in Active /\ fresh[j] /\ ~Beats(j)
    /\ fresh' = [fresh EXCEPT ![j] = FALSE]
    /\ UNCHANGED <<row, task, home, line, made, stops, crashes>>

\* cancel_job in the worker that holds the task: CancelledError inside _run is
\* written down; _run_text has no handler around the wait for its turn
CancelHere(j) ==
    /\ task[j] # "none"
    /\ IF Kind[j] = "picture" \/ task[j] = "call"
       THEN Update(j, Broken(j, "stopped"))
       ELSE UNCHANGED <<row, fresh>>
    /\ End(j)

\* cancel_job in a worker without the task: it is written down, nothing is stopped
CancelElsewhere(j) ==
    /\ Update(j, [row[j] EXCEPT !.state = "failed", !.why = "stopped"])
    /\ UNCHANGED <<task, line>>

Cancel(w, j) ==
    /\ stops < Stops
    /\ row[j].state \in Active /\ ~Reaped(j)
    /\ IF home[j] = w /\ task[j] # "none" THEN CancelHere(j) ELSE CancelElsewhere(j)
    /\ stops' = stops + 1
    /\ UNCHANGED <<home, made, crashes>>

\* a worker is replaced: its tasks and its semaphores are gone, the rows stay
Crash(w) ==
    /\ crashes < MAX_CRASHES
    /\ crashes' = crashes + 1
    /\ line' = [line EXCEPT ![w] = <<>>]
    /\ task' = [j \in Jobs |-> IF home[j] = w THEN "none" ELSE task[j]]
    /\ UNCHANGED <<row, fresh, home, made, stops>>

Work(j) == Take(j) \/ SeesNobody(j) \/ Begin(j) \/ Made(j) \/ Fail(j)

Next ==
    \/ \E j \in Jobs : Work(j) \/ Quiet(j)
    \/ Look
    \/ \E w \in Workers, j \in Jobs : Create(w, j) \/ Cancel(w, j)
    \/ \E w \in Workers : Crash(w)

Spec == Init /\ [][Next]_vars

(* Every coroutine goes on, a backend answers or fails within its timeout, *)
(* time passes, and a screen or a tool looks at the table again.           *)
Fairness == WF_vars(Look) /\ \A j \in Jobs : WF_vars(Work(j)) /\ WF_vars(Quiet(j))
FairSpec == Spec /\ Fairness

--------------------------------------------------------------------------------
\* A worker's line is that of its living tasks; no job counts more pictures than were asked.
TypeOK ==
    /\ row \in [Jobs -> [state : States, files : Nat, why : {"", "stale", "stopped", "error"}]]
    /\ made \in [Jobs -> Nat]
    /\ \A j \in Jobs : made[j] <= Count[j] /\ row[j].files <= Count[j]
    /\ fresh \in [Jobs -> BOOLEAN]
    /\ task \in [Jobs -> Places]
    /\ home \in [Jobs -> Workers]
    /\ line \in [Workers -> Seq(Bridged)]
    /\ \A w \in Workers :
          /\ IsInjective(line[w])
          /\ ToSet(line[w]) = {j \in Bridged : home[j] = w /\ task[j] # "none"}
    /\ stops \in 0..Stops /\ crashes \in 0..MAX_CRASHES

(* A worker never sends a bridged backend a second call while its first    *)
(* one is out: the bridge would make it wait, and that wait counts against *)
(* the timeout (_slot, _SLOTS).                                            *)
OneCallPerWorker ==
    \A w \in Workers :
        Cardinality({j \in Bridged : home[j] = w /\ task[j] \in {"go", "call"}}) <= 1

(* A job of _run that is only waiting its turn, or whose backend is slow,  *)
(* is never closed as abandoned: as long as its task lives the row beats   *)
(* (_heartbeat, _reap_stale).                                              *)
AliveIsNotReaped ==
    \A j \in Jobs : Kind[j] = "picture" /\ row[j].why = "stale" => task[j] = "none"

(* What a job has made stays in its row however the job ends: stopped in   *)
(* either worker, failed later, closed as abandoned or cut by a restart.   *)
MadeIsListed == \A j \in Jobs : row[j].files = made[j]

(* All of these at once: what a job's row says is so.                      *)
JobRowIsTrue == OneCallPerWorker /\ AliveIsNotReaped /\ MadeIsListed

(* Every job asked for is over one day: nobody waits for its turn for      *)
(* ever, and the row a restart left behind does not read "running" for     *)
(* ever.                                                                   *)
JobEnds == \A j \in Jobs : row[j].state \in Active ~> row[j].state \notin Active

================================================================================
