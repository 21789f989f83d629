-------------------------------- MODULE MCQueue --------------------------------
(***************************************************************************)
(* Four small machines about the queues side by side.  `machine`, chosen   *)
(* at the start, is the only one that moves, so the run asks four          *)
(* questions of four instances and no state of one meets one of another:   *)
(*   "line"    QueueOrder: three requests, two clocks, two collections;    *)
(*   "cas"     IngestQueueCas: two callers, two requests, two attempts;    *)
(*   "settle"  Settlement: two clocks and two runs of one collection;      *)
(*   "lines"   WorkerLines: two clocks, two sweeps of one worker.          *)
(***************************************************************************)
EXTENDS QueueOrder, TLC

CONSTANTS Pair, Single, Moments, RETRIES, NoEntry, GRACE, LAG, MINRUN, LAST, OfWorker, w1,
          PER_RUN

VARIABLES machine, casQueue, casHand, casCall, time, noted, going, ended, tick,
          record, read, holds, passed, entries, running, due, ran

Cas == INSTANCE IngestQueueCas WITH
          Ids <- Pair, Collections <- Single, Times <- Moments,
          queue <- casQueue, hand <- casHand, call <- casCall

ASSUME CallersAssumption == Cas!CasAssumption

Clock == INSTANCE Settlement WITH
            Clocks <- Procs, Ids <- Pair, Collections <- Single, UNIT <- 1,
            queue <- noted, runs <- going

ASSUME ClocksAssumption == Clock!SettlementAssumption

SameWorker == [s \in OfWorker |-> w1]

Lines == INSTANCE WorkerLines WITH
            Clocks <- Procs, Sweeps <- OfWorker, Workers <- {w1}, WorkerOf <- SameWorker,
            hand <- holds, waiting <- passed, noted <- entries

ASSUME WorkersAssumption == Lines!LinesAssumption

casVars == <<casQueue, casHand, casCall>>
clockVars == <<time, noted, going, ended, tick>>
lineVars == <<record, read, holds, passed, entries, running, due, ran>>

MCInit ==
    /\ machine \in {"line", "cas", "settle", "lines"}
    /\ OrderInit
    /\ Cas!Init
    /\ Clock!Init
    /\ Lines!Init

\* The last instant is a bound of the model, not of the program.
TheEnd == time = LAST /\ UNCHANGED clockVars

MCNext ==
    /\ UNCHANGED machine
    /\ \/ machine = "line" /\ OrderNext /\ UNCHANGED <<casVars, clockVars, lineVars>>
       \/ machine = "cas" /\ Cas!Next /\ UNCHANGED <<allVars, clockVars, lineVars>>
       \/ machine = "settle" /\ (Clock!Next \/ TheEnd) /\ UNCHANGED <<allVars, casVars, lineVars>>
       \/ machine = "lines" /\ Lines!Next /\ UNCHANGED <<allVars, casVars, clockVars>>

MCSpec == MCInit /\ [][MCNext]_<<machine, allVars, casVars, clockVars, lineVars>>

Symmetry == {p @@ s @@ i : p \in Permutations(Procs), s \in Permutations(OfWorker),
                             i \in Permutations(Pair)}

-----------------------------------------------------------------------------

\* The callers see the atomic operations of the queue: ImplementsAtomicQueue of
\* IngestQueueCas, looked at only where that machine moves; what is stored is always a
\* record of the queue.
CasImplementsAtomicQueue ==
    /\ []Cas!TypeOK
    /\ Cas!Atomic!Init /\ [][machine = "cas" => Cas!Atomic!Next]_<<casQueue, casHand>>

\* A noted run is taken for over only when it is (Settlement).
SettlesOnlyWhatIsOver == Clock!SettlesOnlyWhatIsOver

\* Whatever two clocks undo of each other's writes of the workers' lines, no sweep
\* stands in them twice and none is started twice in one interval (WorkerLines).
OneRunPerInterval == []Lines!TypeOK /\ []Lines!OnceInLine /\ Lines!OneRunPerInterval

================================================================================
