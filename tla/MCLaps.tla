--------------------------------- MODULE MCLaps --------------------------------
(***************************************************************************)
(* What has to happen in the end, of two machines side by side.  `machine`,*)
(* chosen at the start, is the only one that moves:                        *)
(*   "clock"   Dispatch: a sweep of the schedule and a worker's, one slot; *)
(*   "laps"    Ledger: one sweep that goes round, two clocks.              *)
(***************************************************************************)
EXTENDS MCDispatch

CONSTANTS
    lap, Readers,  \* the sweep and the clocks of the ledger
    NPARTS, After, AfterEach, OneLap, HoldSweeps, PER_RUN, MAX_CUTS, MAX_HOLDS,
    TROUBLES, Faults

VARIABLES machine, def, job, staged, read, answer, wanted, rows, troubles

MCAfter == [s \in {lap} |-> NoSweep]
JustLap == {lap}

L == INSTANCE Ledger WITH Sweeps <- JustLap, Clocks <- Readers

clockVars == <<vars, cast>>
lapVars == <<def, job, staged, read, answer, wanted, rows, troubles>>

MCInit ==
    /\ machine \in {"clock", "laps"}
    /\ Init
    /\ L!Init

MCNext ==
    /\ UNCHANGED machine
    /\ \/ machine = "clock" /\ Next /\ UNCHANGED cast /\ UNCHANGED lapVars
       \/ machine = "laps" /\ L!Next /\ UNCHANGED clockVars

\* The fairness of Dispatch and of Ledger, each for the machine that moves.
MCFairness ==
    /\ \A p \in Clocks : /\ WF_vars(machine = "clock" /\ Tick(p))
                         /\ WF_vars(machine = "clock" /\ Work(p))
    /\ \A c \in Collections :
          WF_vars(machine = "clock" /\ \E r \in runs : r.collection = c /\ RunStep(r))
    /\ \A w \in Workers : WF_vars(machine = "clock" /\ Rest(w))
    /\ WF_lapVars(machine = "laps" /\ L!TakeLeftover)
    /\ WF_lapVars(machine = "laps" /\ L!Collect)
    /\ WF_lapVars(machine = "laps" /\ L!Refuse /\ UNCHANGED troubles)
    /\ WF_lapVars(machine = "laps" /\ L!CollectOk)
    /\ WF_lapVars(machine = "laps" /\ L!Downloaded)
    /\ WF_lapVars(machine = "laps" /\ L!BakeOk)
    /\ \A c \in Readers : /\ WF_lapVars(machine = "laps" /\ L!ClockReads(c))
                          /\ WF_lapVars(machine = "laps" /\ L!ClockWrites(c))
    /\ \A s \in JustLap : SF_lapVars(machine = "laps" /\ L!ClockStart(s))

MCSpec == MCInit /\ [][MCNext]_<<machine, clockVars, lapVars>> /\ MCFairness

-----------------------------------------------------------------------------

\* A sweep that is due does run (or, a worker's, ends without material and
\* waits for its next interval): skipped heads, full slots, notes of runs that
\* are over and restarts of the trigger only delay it.
DueRuns == \A s \in Sweeps : (machine = "clock" /\ s \in due) ~> s \notin due

\* No partition blocks a lap (Ledger).
LapGoesOn == machine = "laps" => L!LapGoesOn

================================================================================
