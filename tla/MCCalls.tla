--------------------------------- MODULE MCCalls -------------------------------
(***************************************************************************)
(* The calls of AIs, in three machines side by side.  `machine`, chosen at *)
(* the start from Machines, is the only one that moves:                    *)
(*   "gather"  Gathering: a run over two partitions with two backends;     *)
(*   "bridge"  Bridge: two requests for the CLI, two credentials;          *)
(*   "media"   Media: two jobs on two workers.                             *)
(***************************************************************************)
EXTENDS Naturals, Sequences, TLC

CONSTANTS
    Machines,
    k1, k2, b1, b2, d1, d2,                                         \* Gathering
    RUNS, MAX_STOPS, MAX_TIME, COOLDOWN, STOP_POLL, BEAT_GRACE, STOP_GRACE, TIMEOUT,
    STALE_GRACE, RETRIES, Faults,
    Requests, Kinds, Slow, Dropped, MAX_CREDENTIAL, MAX_TOKEN, MAX_RESTARTS,  \* Bridge
    Jobs, TextJobs, Workers, Kind, Bridged, Count, Stops, MAX_CRASHES         \* Media

VARIABLES
    machine,
    now, rows, wanted, full, run, call, shown, done, cut, got, stops, read, askedAt,
    phase, kind, line, holder, waiting, procs, probed, found, stored, file, seed, current,
    revoked, shared, seen, given, restarts,
    row, fresh, task, home, turns, made, presses, crashes

-----------------------------------------------------------------------------

Keys == <<k1, k2>>
Docs == {d1, d2}
PartOf == (d1 :> k1) @@ (d2 :> k2)
Steps == <<b1, b2>>

\* Two pictures or one text, all through the bridge.
JobKind == [j \in Jobs |-> IF j \in TextJobs THEN "text" ELSE "picture"]
JobCount == [j \in Jobs |-> IF j \in TextJobs THEN 1 ELSE 2]

-----------------------------------------------------------------------------

\* Gathering with its proofs, which extend it: the runs check and MCCalls_proofs cites one
\* and the same instance.
G == INSTANCE Gathering_proofs
B == INSTANCE Bridge
M == INSTANCE Media WITH line <- turns, stops <- presses

\* No kind of request that is asked for leaves a process behind.
NothingLeftAlone == Kinds \cap B!LeftAlone = {}

\* What the modules assume of their constants; that a process which waits for an answer
\* wakes in time (Gathering), and that no request leaves a process behind (Bridge).

ASSUME CallsAssumption ==
    /\ G!GatheringAssumption /\ B!BridgeAssumption /\ M!MediaAssumption
    /\ G!Timely
    /\ NothingLeftAlone /\ "probe" \notin Dropped

gVars == <<now, rows, wanted, full, run, call, shown, done, cut, got, stops, read, askedAt>>
bVars == <<phase, kind, line, holder, waiting, procs, probed, found, stored, file, seed,
           current, revoked, shared, seen, given, restarts>>
mVars == <<row, fresh, task, home, turns, made, presses, crashes>>

MCInit ==
    /\ machine \in Machines
    /\ G!Init /\ B!Init /\ M!Init

MCNext ==
    /\ UNCHANGED machine
    /\ \/ machine = "gather" /\ G!Next /\ UNCHANGED <<bVars, mVars>>
       \/ machine = "bridge" /\ B!Next /\ UNCHANGED <<gVars, mVars>>
       \/ machine = "media" /\ M!Next /\ UNCHANGED <<gVars, bVars>>

\* The fairness of the three modules, each for the machine that moves.
MCFairness ==
    /\ WF_gVars(machine = "gather" /\ G!Work)
    /\ \A r \in Requests : /\ WF_bVars(machine = "bridge" /\ B!Serve(r))
                           /\ WF_bVars(machine = "bridge" /\ B!TimeOut(r))
    /\ WF_mVars(machine = "media" /\ M!Look)
    /\ \A j \in Jobs : /\ WF_mVars(machine = "media" /\ M!Work(j))
                       /\ WF_mVars(machine = "media" /\ M!Quiet(j))

MCSpec == MCInit /\ [][MCNext]_<<machine, gVars, bVars, mVars>> /\ MCFairness

-----------------------------------------------------------------------------
\* The properties of the three modules, under their names there.

\* Each machine's state has its types, the frozen ones' too.
TypeOK == G!TypeOK /\ B!TypeOK /\ M!TypeOK

\* A call that is under way is in the list and can be stopped there; once its
\* collection was told to stop, no further partition is asked for.
StopReachesTheCall == G!StopReachesTheCall

\* What was collected is baked however the run ends, and a partition counts as done
\* only if all that was shown of it was read.
HarvestIsKept == G!HarvestIsKept

\* Only what an answer covered counts as looked through.
ReviewedWasRead == G!ReviewedWasRead

\* The CLI runs one at a time: no refresh token is used twice, no picture handed to
\* another, those who wait are counted, and a question without an answer is asked again.
CliIsAlone == B!CliIsAlone

\* A worker draws one picture at a time, and the row of a job says what became of it:
\* whoever lives is not taken for abandoned, and what was made is listed.
JobRowIsTrue == M!JobRowIsTrue

\* Nobody waits for ever: a run ends, a request for the CLI is answered, a job ends.
EverythingEnds == G!RunEnds /\ B!WaitingEnds /\ M!JobEnds

\* Every job asked for is over one day.
JobEnds == M!JobEnds

================================================================================
